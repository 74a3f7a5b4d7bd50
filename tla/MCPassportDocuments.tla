------------------------ MODULE MCPassportDocuments ------------------------
(* A few documents of one issuer, renewed, revoked and edited. *)
EXTENDS PassportDocuments

MCReports == {[score |-> 95, findings |-> <<>>], [score |-> 40, findings |-> <<"critical", "low">>]}
MCReport == {[score |-> 95, findings |-> <<"low">>]}
=============================================================================
