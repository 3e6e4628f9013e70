CONSTANTS Demands = {d1}
Workers = {w1, w2}
Terms = {t1, t2}
Desks = {a1, a2}
None = None
MaxBookings = 2
SPECIFICATION Spec
INVARIANT TypeOK FreshRanking NothingWaits AcceptedStays NobodyStuck
SYMMETRY Same
