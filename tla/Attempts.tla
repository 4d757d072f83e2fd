------------------------------ MODULE Attempts ------------------------------
(***************************************************************************)
(* How many wrong answers a limit lets through that handlers count from    *)
(* what they have read: the lock of an account and the attempts of a       *)
(* one-time code are such limits.                                          *)
(***************************************************************************)
EXTENDS Integers

\* The most wrong answers p[1] handlers can give while p[2] attempts are left: the
\* last of them may write back a count from before the others ran.
most[p \in Nat \X Nat] ==
  IF p[2] = 0 THEN 0 ELSE IF p[1] = 0 THEN 1
  ELSE most[<<p[1], p[2] - 1>>] + most[<<p[1] - 1, p[2]>>]
=============================================================================
