SPECIFICATION CaptureSpec
CONSTANTS
  Channels = {6, 7}
  CounterMod = 6
  MinPulse = 2
  MaxPulse = 4
  Latency = 1
  MinPhase = 2
  MaxPhase = 6
INVARIANTS CaptureTypeOK LegalPulseAccepted NoPulseWhenSettled
PROPERTIES PublishedIsTrueWidth
