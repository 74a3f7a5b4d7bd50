------------------------ MODULE MCRetentionCalendar ------------------------
(* Uploads on the first and the last day of some months, the default policy. *)
EXTENDS RetentionCalendar

MCUploads == {2 * FirstOfMonth[m] : m \in 0 .. 11} \cup {2 * FirstOfMonth[m] - 1 : m \in 1 .. 12}
=============================================================================
