SPECIFICATION FairSpec
CONSTANTS
  Sessions = {s1, s2}
  Faults = {"version", "get", "set", "bump"}
  MaxChanges = 2
INVARIANTS Fresh
PROPERTIES Converges OldListsRunOut
