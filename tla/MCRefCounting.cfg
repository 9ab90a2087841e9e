\* Two threads with two pointers each, and a chain of two objects.
SPECIFICATION Spec
CONSTANTS
  Threads = {t1, t2}
  Slots = {s1, s2}
  Objects = {o1, o2}
  None = None
  CreatorReleases = TRUE
  AssignOwnMember = FALSE
SYMMETRY Sym
INVARIANTS NoDangling CountExact
