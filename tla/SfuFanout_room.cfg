\* Two moderators and a guest, any of whom publishes a track.
SPECIFICATION FanoutFairSpec
CONSTANTS
  m = m  n = n  p = p
  Participant = {m, n, p}
  Moderator = {m, n}
  Track = {t}
  Nobody = Nobody
INVARIANTS FanoutTypeOK EveryoneServed NothingLeft
PROPERTY PublicationsEnd
CHECK_DEADLOCK FALSE
