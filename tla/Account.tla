------------------------------- MODULE Account -------------------------------
(***************************************************************************)
(* The account object of src/mutt_account.c, built with USE_IMAP, USE_POP, *)
(* USE_SMTP and USE_NNTP: one struct Account as a connection uses it, from *)
(* mutt_account_fromurl at creation through mutt_account_getuser,          *)
(* mutt_account_getlogin, mutt_account_getpass, mutt_account_unsetpass     *)
(* and mutt_account_tourl, with the configuration variables it reads       *)
(* (which the user may :set at any time) and the interactive prompts,      *)
(* which may be answered or cancelled.  mutt_account_match is an operator *)
(* over two accounts.                                                      *)
(*                                                                         *)
(* Strings are model values; a host is [name, upper] so that              *)
(* mutt_str_strcasecmp can ignore case.  The debug message of              *)
(* mutt_account_getlogin goes to the logging dispatcher and changes no     *)
(* state of the account.                                                   *)
(***************************************************************************)
EXTENDS Integers, FiniteSets

CONSTANTS
  Types,        \* the account types in use: "imap", "pop", "smtp", "nntp"
  Names,        \* strings a user, login or password can be (model values)
  CfgValues,    \* the values configuration variables are given
  Empty,        \* the empty string ""
  HostNames,    \* host names, compared case-insensitively
  Ports,        \* port numbers other than 0
  Urls,         \* the parsed URLs accounts are created from
  NULL

ASSUME Empty \notin Names /\ CfgValues \subseteq Names
ASSUME Types \subseteq {"imap", "pop", "smtp", "nntp"}  \* MUTT_ACCT_TYPE_*

Flags == {"USER", "LOGIN", "PASS", "PORT", "SSL"}  \* MUTT_ACCT_*
Strings == Names \cup {Empty}
Host == [name: HostNames, upper: BOOLEAN]

\* The configuration variables holding the user and the password of a type.
UserKey == [imap |-> "ImapUser", pop |-> "PopUser", nntp |-> "NntpUser", smtp |-> NULL]
PassKey == [imap |-> "ImapPass", pop |-> "PopPass", nntp |-> "NntpPass", smtp |-> "SmtpPass"]

\* The configuration variables the account code reads; NULL when unset.
CfgKeys == {"Username", "ImapLogin"} \cup
           ({UserKey[t] : t \in Types} \ {NULL}) \cup {PassKey[t] : t \in Types}

AccountRec == [type: Types, host: Host, port: Ports \cup {0}, flags: SUBSET Flags,
               user: Strings, login: Strings, pass: Strings]

VARIABLES
  account,    \* the struct Account
  cfg,        \* cfg[k]: the value of configuration variable k
  NoCurses    \* OPT_NO_CURSES: batch mode, no prompts

acctVars == <<account, cfg, NoCurses>>

\* What a prompt returns: the text typed, or Cancel (non-zero return).
PromptResults == Strings \cup {"Cancel"}

AcctTypeOK ==
  /\ account \in AccountRec
  /\ cfg \in [CfgKeys -> CfgValues \cup {NULL}]
  /\ NoCurses \in BOOLEAN

(***************************************************************************)
(* mutt_account_fromurl: the host must be present; user, password and a   *)
(* non-zero port are copied with their flags.  rc = -1 without a host.    *)
(***************************************************************************)
mutt_account_fromurl(a, u) ==
  IF u.host = NULL THEN [rc |-> -1, account |-> a]
  ELSE [rc |-> 0,
        account |-> [a EXCEPT
          !.host = u.host,
          !.user = IF u.user # NULL THEN u.user ELSE @,
          !.pass = IF u.pass # NULL THEN u.pass ELSE @,
          !.port = IF u.port # 0 THEN u.port ELSE @,
          !.flags = @ \cup {f \in {"USER", "PASS", "PORT"} :
                             \/ f = "USER" /\ u.user # NULL
                             \/ f = "PASS" /\ u.pass # NULL
                             \/ f = "PORT" /\ u.port # 0}]]

\* The account a connection starts from: zeroed, with its type, perhaps SSL,
\* then filled by mutt_account_fromurl (an URL without host is rejected).
Created ==
  { mutt_account_fromurl([type |-> t, host |-> [name |-> CHOOSE h \in HostNames : TRUE,
                                                 upper |-> FALSE],
                          port |-> 0, flags |-> s, user |-> Empty,
                          login |-> Empty, pass |-> Empty], u).account :
      t \in Types, s \in {{}, {"SSL"}}, u \in {v \in Urls : v.host # NULL} }

AcctInit ==
  /\ account \in Created
  /\ cfg \in [CfgKeys -> CfgValues \cup {NULL}]
  /\ NoCurses \in BOOLEAN

\* The configured user name of type t (ImapUser, PopUser, NntpUser); SMTP has none.
CfgUser(t) == IF UserKey[t] = NULL THEN NULL ELSE cfg[UserKey[t]]

\* The configured password of type t.
CfgPass(t) == cfg[PassKey[t]]

NONULL(s) == IF s = NULL THEN Empty ELSE s

\* The user an account of type t logs in as when it names none.
DefaultUser(t) == IF CfgUser(t) # NULL THEN CfgUser(t) ELSE NONULL(cfg["Username"])

(***************************************************************************)
(* mutt_account_match: 1 when type, host (ignoring case) and port agree    *)
(* and the users agree, where an account naming no user stands for the    *)
(* configured user of a1's type or else Username.  An NNTP a1 without a    *)
(* user on both sides matches exactly when a1 names no non-empty user.     *)
(***************************************************************************)
mutt_account_match(a1, a2) ==
  LET has(a) == "USER" \in a.flags
  IN CASE a1.type # a2.type \/ a1.host.name # a2.host.name \/ a1.port # a2.port -> 0
       [] has(a1) /\ has(a2) -> IF a1.user = a2.user THEN 1 ELSE 0
       [] a1.type = "nntp" -> IF has(a1) /\ a1.user # Empty THEN 0 ELSE 1
       [] has(a1) -> IF a1.user = DefaultUser(a1.type) THEN 1 ELSE 0
       [] has(a2) -> IF a2.user = DefaultUser(a1.type) THEN 1 ELSE 0
       [] OTHER -> 1

\* Seeded fault: the prompt is pre-filled with Username without NONULL.
mutt_account_getuser_NoNonull(a, p) ==
  CASE "USER" \in a.flags -> [rc |-> 0, account |-> a]
    [] CfgUser(a.type) # NULL ->
         [rc |-> 0, account |-> [a EXCEPT !.user = CfgUser(a.type), !.flags = @ \cup {"USER"}]]
    [] NoCurses -> [rc |-> -1, account |-> a]
    [] p = "Cancel" -> [rc |-> -1, account |-> [a EXCEPT !.user = cfg["Username"]]]
    [] OTHER -> [rc |-> 0, account |-> [a EXCEPT !.user = p, !.flags = @ \cup {"USER"}]]

(***************************************************************************)
(* mutt_account_getuser on a, with the prompt answering p: nothing if the *)
(* user is set; else the configured user of the type; else fail in batch  *)
(* mode; else prompt, pre-filled with Username.  A cancelled prompt       *)
(* returns -1 and leaves the pre-filled Username in a.user.               *)
(***************************************************************************)
mutt_account_getuser(a, p) ==
  CASE "USER" \in a.flags -> [rc |-> 0, account |-> a]
    [] CfgUser(a.type) # NULL ->
         [rc |-> 0, account |-> [a EXCEPT !.user = CfgUser(a.type), !.flags = @ \cup {"USER"}]]
    [] NoCurses -> [rc |-> -1, account |-> a]
    [] p = "Cancel" -> [rc |-> -1, account |-> [a EXCEPT !.user = NONULL(cfg["Username"])]]
    [] OTHER -> [rc |-> 0, account |-> [a EXCEPT !.user = p, !.flags = @ \cup {"USER"}]]

\* Seeded fault: the user is taken as login even when getuser failed.
mutt_account_getlogin_IgnoresUserRc(a, p) ==
  LET a1 == IF "LOGIN" \notin a.flags /\ a.type = "imap" /\ cfg["ImapLogin"] # NULL
            THEN [a EXCEPT !.login = cfg["ImapLogin"], !.flags = @ \cup {"LOGIN"}]
            ELSE a
      gu == mutt_account_getuser(a1, p)
  IN IF "LOGIN" \in a1.flags THEN [rc |-> 0, account |-> a1]
     ELSE [rc |-> gu.rc, account |-> [gu.account EXCEPT !.login = gu.account.user,
                                                      !.flags = @ \cup {"LOGIN"}]]

(***************************************************************************)
(* mutt_account_getlogin: nothing if the login is set; an IMAP account    *)
(* takes ImapLogin when set; otherwise the login is the user, obtained by *)
(* mutt_account_getuser (rc -1 if that fails).                            *)
(***************************************************************************)
mutt_account_getlogin(a, p) ==
  LET a1 == IF "LOGIN" \notin a.flags /\ a.type = "imap" /\ cfg["ImapLogin"] # NULL
            THEN [a EXCEPT !.login = cfg["ImapLogin"], !.flags = @ \cup {"LOGIN"}]
            ELSE a
      gu == mutt_account_getuser(a1, p)
  IN IF "LOGIN" \in a1.flags THEN [rc |-> 0, account |-> a1]
     ELSE IF gu.rc = 0
          THEN [rc |-> 0, account |-> [gu.account EXCEPT !.login = gu.account.user,
                                                        !.flags = @ \cup {"LOGIN"}]]
          ELSE [rc |-> -1, account |-> gu.account]

(***************************************************************************)
(* mutt_account_getpass: nothing if the password is set; else the         *)
(* configured password of the type; else fail in batch mode; else clear   *)
(* a.pass and prompt "Password for <who>@host", who being the login when  *)
(* LOGIN is set and otherwise a.user, whether or not USER is; a cancelled *)
(* prompt returns -1 and leaves a.pass empty.  The name in the prompt is   *)
(* text and is left out.                                                   *)
(***************************************************************************)
mutt_account_getpass(a, p) ==
  CASE "PASS" \in a.flags -> [rc |-> 0, account |-> a]
    [] CfgPass(a.type) # NULL ->
         [rc |-> 0, account |-> [a EXCEPT !.pass = CfgPass(a.type), !.flags = @ \cup {"PASS"}]]
    [] NoCurses -> [rc |-> -1, account |-> a]
    [] p = "Cancel" -> [rc |-> -1, account |-> [a EXCEPT !.pass = Empty]]
    [] OTHER -> [rc |-> 0, account |-> [a EXCEPT !.pass = p, !.flags = @ \cup {"PASS"}]]

\* Seeded fault: the password is put in the URL whether or not it is set.
mutt_account_tourl_AlwaysPass(a) ==
  [scheme |-> <<a.type, "SSL" \in a.flags>>,
   host |-> a.host,
   port |-> IF "PORT" \in a.flags THEN a.port ELSE 0,
   user |-> IF "USER" \in a.flags THEN a.user ELSE NULL,
   pass |-> a.pass,
   path |-> NULL]

(***************************************************************************)
(* mutt_account_tourl: the scheme from the type and SSL, the host, and    *)
(* port, user and password only when their flags are set.                 *)
(***************************************************************************)
mutt_account_tourl(a) ==
  [scheme |-> <<a.type, "SSL" \in a.flags>>,
   host |-> a.host,
   port |-> IF "PORT" \in a.flags THEN a.port ELSE 0,
   user |-> IF "USER" \in a.flags THEN a.user ELSE NULL,
   pass |-> IF "PASS" \in a.flags THEN a.pass ELSE NULL,
   path |-> NULL]

GetUser(p) ==
  /\ account' = mutt_account_getuser(account, p).account
  /\ UNCHANGED <<cfg, NoCurses>>

GetLogin(p) ==
  /\ account' = mutt_account_getlogin(account, p).account
  /\ UNCHANGED <<cfg, NoCurses>>

GetPass(p) ==
  /\ account' = mutt_account_getpass(account, p).account
  /\ UNCHANGED <<cfg, NoCurses>>

\* mutt_account_unsetpass: clear the flag; the bytes stay in a.pass.
mutt_account_unsetpass ==
  /\ account' = [account EXCEPT !.flags = @ \ {"PASS"}]
  /\ UNCHANGED <<cfg, NoCurses>>

\* The user changes a configuration variable (:set).
SetCfg(k, v) ==
  /\ cfg' = [cfg EXCEPT ![k] = v]
  /\ UNCHANGED <<account, NoCurses>>

AcctNext ==
  \/ \E p \in PromptResults : GetUser(p) \/ GetLogin(p) \/ GetPass(p)
  \/ mutt_account_unsetpass
  \/ \E k \in CfgKeys, v \in CfgValues \cup {NULL} : SetCfg(k, v)

AcctSpec == AcctInit /\ [][AcctNext]_acctVars

-----------------------------------------------------------------------------
\* The zeroed account of a's type and SSL setting that a URL is parsed into.
Blank(a) ==
  [type |-> a.type, host |-> a.host, port |-> 0, flags |-> a.flags \cap {"SSL"},
   user |-> Empty, login |-> Empty, pass |-> Empty]

(***************************************************************************)
(* The URL mutt_account_tourl builds from the account, parsed back by      *)
(* mutt_account_fromurl, gives the same host, the same set flags and the   *)
(* same user, password and port wherever their flag is set: an account     *)
(* printed as a URL and read back is the account it was.                   *)
(***************************************************************************)
UrlRebuildsAccount ==
  LET b == mutt_account_fromurl(Blank(account), mutt_account_tourl(account)).account
      kept == {"USER", "PASS", "PORT", "SSL"}
  IN /\ b.host = account.host
     /\ b.flags = account.flags \cap kept
     /\ "USER" \in b.flags => b.user = account.user
     /\ "PASS" \in b.flags => b.pass = account.pass
     /\ "PORT" \in b.flags => b.port = account.port

(***************************************************************************)
(* An account holds a login only once it is resolved: either the user was  *)
(* confirmed (by the URL, the configuration or an answered prompt) and the *)
(* login is that user, or it is an IMAP account given ImapLogin.  A        *)
(* cancelled user prompt of mutt_account_getuser leaves Username in        *)
(* account->user without the flag; mutt_account_getlogin must not take it. *)
(***************************************************************************)
LoginIsResolved ==
  "LOGIN" \in account.flags =>
    \/ "USER" \in account.flags /\ account.login = account.user
    \/ account.type = "imap" /\ account.login \in CfgValues

=============================================================================
