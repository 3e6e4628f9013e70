CONSTANTS Accounts = {a1, a2}
Mobiles = {m1}
Workers = {w1}
None = None
SPECIFICATION Spec
PROPERTY WrittenIsTheirs
SYMMETRY Same
