--------------------------- MODULE MCSmtpSession ---------------------------
EXTENDS SmtpSession, TLC
CONSTANTS m1, m2, a1, a2

L(mail, dots, text) == [mail |-> mail, dots |-> dots, text |-> text]
\* A header line; then a line that is a dot, or one that begins with it.
MCBody == (m1 :> <<L(m1, 0, TRUE), L(m1, 1, FALSE)>>) @@ (m2 :> <<L(m2, 1, TRUE)>>)
Symmetric == Permutations(Addresses)

\* The relay at the other end meets a server with and without a certificate.
MCInit == Init /\ (sender = None => tls) /\ \E a \in Addresses : route[a] # None
MCSpec == MCInit /\ [][Next]_vars
=============================================================================
