--------------------------- MODULE MCIcsCalendar ---------------------------
(* Small instances of IcsCalendar. *)
EXTENDS IcsCalendar

CONSTANTS i1, i2
=============================================================================
