CONSTANTS
  w1 = w1 w2 = w2 r1 = r1 c1 = c1 m1 = m1 b1 = b1 n1 = n1 a1 = a1 inA = inA out = out None = None
  Writers = {w1, w2}
  Readers = {r1}
  Creators = {c1}
  Mails = {m1, b1}
  Appends = {a1, n1}
  Bad = {b1}
  Folders = {inA, out}
  made = {inA}
  targets <- MCtargets
  Skipped <- MCSkipped
  NoText <- MCNoText
  Odd <- MCOdd
  MaxErrors = 1
  MaxCrashes = 1
SPECIFICATION Spec
INVARIANTS TypeOK LossIsBounded UidUniqueInRun AckedIsListed
CHECK_DEADLOCK FALSE
SYMMETRY Symm
