SPECIFICATION Spec
CONSTANTS
  MaxCrnti = 2
  MaxTmsi = 2
  MaxChallenge = 2
  MaxSuspend = 1
  MaxApp = 1
  MaxDup = 1
  MaxExpire = 1
  MaxAir = 2
  MaxPreamble = 2
  MaxTimers = 1
INVARIANT RegisteredKnown
INVARIANT InactiveParked
INVARIANT KeysAgree
INVARIANT RoutedHome
INVARIANT WaitGuarded
