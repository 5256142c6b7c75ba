---------------------------- MODULE MCSubmission -----------------------------
(* Drafts and submissions on a small instance, and the format of the mail   *)
(* they become, which has no state and is looked at once.                   *)
EXTENDS Submission, TLC

Mail == INSTANCE Framing

\* What one relay builds another reads (mime.rs, autocrypt.rs): see MailFormat.  It is about no
\* state, and evaluated in the initial ones.
RoundTrip == Init => Mail!RoundTrip

\* What arrives is sealed whole (delivery.rs, jmapsmtp/pgp.rs): see Framing.  About no state either.
SealingKeepsTheMessage == Init => Mail!SealingKeepsTheMessage

\* Workers and peers are interchangeable; ids are too, as no choice is made.
Symmetric == Permutations(Worker) \cup Permutations(Id)
=============================================================================
