SPECIFICATION OptionsSpec
CONSTANTS
  w1 = w1
  w2 = w2
  t1 = t1
  t2 = t2
  t3 = t3
  x = x
  y = y
  NoTrx = none
  Worker = {w1}
  Trx = {t1, t2, t3}
  Key = {x, y}
  Home <- OneHome
  Place <- OnePlace
  Reads <- MixReads
  Writes <- MixWrites
  EnableOptPreread = TRUE
  Locks = TRUE
  EnableOptValidation = TRUE
INVARIANTS
  SerializableWithOptions
  SafeWithOptions
