------------------------------ MODULE MCSignage ------------------------------
\* The instance of Signage that TLC checks.
EXTENDS Signage

CONSTANTS a1, a2, a3

Text(on) == [kind |-> "text", enabled |-> on]
Blank(on) == [kind |-> "blank", enabled |-> on]
Qr(on) == [kind |-> "qr", enabled |-> on]

\* None, one, two and three enabled pages, a blank one and the QR page among
\* them, at every position of the first enabled one.
MCPageForms ==
  {<<Blank(FALSE)>>, <<Text(TRUE)>>, <<Blank(TRUE), Text(TRUE)>>,
   <<Text(FALSE), Text(TRUE), Qr(TRUE)>>, <<Text(TRUE), Text(TRUE), Text(TRUE)>>}

MCAdLists == {<<a1, a2>>}
=============================================================================
