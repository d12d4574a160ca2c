SPECIFICATION AttachedSpec
CONSTANTS
  MaxCrnti = 1
  MaxTmsi = 1
  MaxChallenge = 1
  MaxSuspend = 1
  MaxApp = 1
  MaxDup = 0
  MaxExpire = 0
  MaxAir = 2
  MaxPreamble = 2
  MaxTimers = 1
INVARIANT InactiveResumable
