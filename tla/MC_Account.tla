----------------------------- MODULE MC_Account -----------------------------
(***************************************************************************)
(* IMAP, NNTP and SMTP accounts on one host written in two cases, created  *)
(* from URLs with and without user, password and port.  Configuration      *)
(* variables are unset or n1; prompts answer n1, n2, "" or are cancelled,  *)
(* so a typed user can differ from the configured one.                     *)
(***************************************************************************)
EXTENDS Account, TLC

CONSTANTS n1, n2, h1

MCTypes == {"imap", "nntp", "smtp"}

MCUrls ==
  { [host |-> [name |-> h1, upper |-> FALSE], user |-> NULL, pass |-> NULL, port |-> 0],
    [host |-> [name |-> h1, upper |-> TRUE], user |-> n2, pass |-> NULL, port |-> 993],
    [host |-> [name |-> h1, upper |-> FALSE], user |-> n1, pass |-> n2, port |-> 0],
    [host |-> NULL, user |-> n1, pass |-> NULL, port |-> 0] }
=============================================================================
