CONSTANTS Accounts = {a1, a2, a3}
Mobiles = {m1, m2}
Workers = {w1, w2}
None = None
SPECIFICATION Spec
INVARIANT TypeOK StaffNeverOpened OnlyUnprovenGiveWay
PROPERTY Owned
SYMMETRY Same
CONSTRAINT FewOpen
