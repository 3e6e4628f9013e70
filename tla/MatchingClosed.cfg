CONSTANTS Demands = {d1}
Workers = {w1}
Terms = {t1, t2}
Desks = {a1, a2}
None = None
MaxBookings = 1
SPECIFICATION Spec
PROPERTY UntouchedUnderABooking
SYMMETRY Same
