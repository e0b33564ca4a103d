----------------------------- MODULE AuthWizard -----------------------------
(***************************************************************************)
(* The login wizard of the daemon and the telegram_accounts table.  Every  *)
(* method holds the wizard's lock from its first line to its last, network *)
(* calls included, so each is one action.  Telegram is external: it keeps  *)
(* one session for the client, with the stage the login has reached.       *)
(***************************************************************************)
EXTENDS Integers

CONSTANTS
    Users, Namespaces,
    TwoFactor           \* users with a cloud password

ASSUME WizardAssumption == TwoFactor \subseteq Users

Nobody == "nobody"

VARIABLES
    session,            \* Telegram: the stage of the client's session, and whose
    accounts,           \* telegram_accounts: rows by namespace
    wizard              \* the fields of AuthWizard

wizardVars == <<session, accounts, wizard>>

Out == [stage |-> "out", user |-> Nobody]
NoAccount == [user |-> Nobody, active |-> FALSE]

WizardTypeOK ==
    /\ session \in [stage : {"out", "code", "password", "in"}, user : Users \cup {Nobody}]
    /\ accounts \in [Namespaces -> [user : Users \cup {Nobody}, active : BOOLEAN]]
    /\ wizard \in [ns : Namespaces, flow : {"idle", "qr", "phone"}, phone : Users \cup {Nobody},
                   need2FA : BOOLEAN, loggedIn : BOOLEAN, user : Users \cup {Nobody}]

WizardInit ==
    /\ session = Out
    /\ accounts = [n \in Namespaces |-> NoAccount]
    /\ \E n \in Namespaces :
          wizard = [ns |-> n, flow |-> "idle", phone |-> Nobody, need2FA |-> FALSE,
                    loggedIn |-> FALSE, user |-> Nobody]

AllInactive(acc) == [n \in Namespaces |-> [acc[n] EXCEPT !.active = FALSE]]

\* Database.SaveAccount with IsActive: deactivate all, then insert or replace.
SaveAccount(acc, n, u) == [AllInactive(acc) EXCEPT ![n] = [user |-> u, active |-> TRUE]]

\* Database.SetActiveAccount: a namespace without a row activates none.
SetActiveAccount(acc, n) ==
    [m \in Namespaces |-> [acc[m] EXCEPT !.active = m = n /\ acc[m].user # Nobody]]

\* The end of every successful login: the flow is over; Self and the save of the
\* account may fail, and then only the row is missing.
LoggedIn(w, u) ==
    /\ session' = [stage |-> "in", user |-> u]
    /\ \/ /\ wizard' = [w EXCEPT !.loggedIn = TRUE, !.flow = "idle", !.user = u]
          /\ accounts' = SaveAccount(accounts, w.ns, u)
       \/ /\ wizard' = [w EXCEPT !.loggedIn = TRUE, !.flow = "idle", !.user = Nobody]
          /\ UNCHANGED accounts

\* CheckStatus, called by Status and when the wizard is built.  A failing call
\* counts as not logged in and keeps the user it showed before.
CheckStatus ==
    /\ \/ /\ session.stage = "in"
          /\ \/ /\ wizard' = [wizard EXCEPT !.loggedIn = TRUE, !.user = session.user]
                /\ accounts' = SaveAccount(accounts, wizard.ns, session.user)
             \/ wizard' = [wizard EXCEPT !.loggedIn = TRUE] /\ UNCHANGED accounts
       \/ wizard' = [wizard EXCEPT !.loggedIn = FALSE] /\ UNCHANGED accounts
    /\ UNCHANGED session

\* The client stays the one the daemon was started with.
SwitchAccount(n) ==
    /\ accounts' = SetActiveAccount(accounts, n)
    /\ wizard' = [wizard EXCEPT !.ns = n]
    /\ UNCHANGED session

DeleteAccount(n) ==
    /\ accounts' = [accounts EXCEPT ![n] = NoAccount]
    /\ UNCHANGED <<session, wizard>>

\* Telegram, once user u has scanned a code the client exported before: its next
\* export is refused, with the session signed in or waiting for the password.
Scanned(u) == [stage |-> IF u \in TwoFactor THEN "password" ELSE "in", user |-> u]

\* The namespace is taken before the export is known to succeed.
StartQR(n) ==
    /\ \/ /\ wizard' = [wizard EXCEPT !.ns = n, !.flow = "qr", !.need2FA = FALSE]
          /\ UNCHANGED session
       \/ /\ wizard' = [wizard EXCEPT !.ns = n]
          /\ \/ UNCHANGED session
             \/ /\ wizard.flow = "qr" /\ session.stage # "in"
                /\ \E u \in Users : session' = Scanned(u)
    /\ UNCHANGED accounts

\* Accept is a request of a signed-in client: it signs nobody in, and succeeds, as
\* the user of the session, only behind a login.  A session that waits for the
\* password is told so; any other error counts as waiting.
PollQR ==
    /\ wizard.flow = "qr"
    /\ \/ /\ session.stage = "password"
          /\ wizard' = [wizard EXCEPT !.need2FA = TRUE]
          /\ UNCHANGED <<session, accounts>>
       \/ /\ session.stage = "in"
          /\ LoggedIn([wizard EXCEPT !.need2FA = FALSE], session.user)

\* A code is sent, or Telegram signs the client in at once (which leaves need2FA),
\* or the request fails.
SendPhoneCode(u, n) ==
    LET w == [wizard EXCEPT !.ns = n] IN
    \/ /\ session.stage # "in"
       /\ session' = [stage |-> "code", user |-> u]
       /\ wizard' = [w EXCEPT !.phone = u, !.flow = "phone", !.need2FA = FALSE]
       /\ UNCHANGED accounts
    \/ session.stage # "in" /\ LoggedIn(w, u)
    \/ wizard' = w /\ UNCHANGED <<session, accounts>>

\* The right code for the number it was sent to; a wrong one changes nothing.
VerifyPhoneCode ==
    /\ wizard.phone # Nobody
    /\ session = [stage |-> "code", user |-> wizard.phone]
    /\ \/ /\ wizard.phone \in TwoFactor
          /\ session' = [session EXCEPT !.stage = "password"]
          /\ wizard' = [wizard EXCEPT !.need2FA = TRUE]
          /\ UNCHANGED accounts
       \/ /\ wizard.phone \notin TwoFactor
          /\ LoggedIn([wizard EXCEPT !.need2FA = FALSE], wizard.phone)

\* Mutated form: an error of the request is not looked at.
Verify2FA_IgnoresError ==
    /\ wizard.need2FA
    /\ wizard' = [wizard EXCEPT !.need2FA = FALSE, !.loggedIn = TRUE, !.flow = "idle"]
    /\ UNCHANGED <<session, accounts>>

\* The right password while Telegram waits for it; anything else is an error.
Verify2FA ==
    /\ wizard.need2FA
    /\ IF session.stage = "password"
       THEN LoggedIn([wizard EXCEPT !.need2FA = FALSE], session.user)
       ELSE UNCHANGED wizardVars

\* The error of the request is dropped; the row and the fields go either way.
Logout ==
    /\ session' \in {Out, session}
    /\ accounts' = [accounts EXCEPT ![wizard.ns] = NoAccount]
    /\ wizard' = [wizard EXCEPT !.loggedIn = FALSE, !.user = Nobody, !.flow = "idle",
                                !.need2FA = FALSE]

\* The daemon is killed, perhaps between the two statements of SaveAccount or
\* SetActiveAccount, and started again with the namespace of its options.
Restart(n) ==
    /\ accounts' \in {accounts, AllInactive(accounts)}
    /\ wizard' = [ns |-> n, flow |-> "idle", phone |-> Nobody, need2FA |-> FALSE,
                  loggedIn |-> FALSE, user |-> Nobody]
    /\ UNCHANGED session

WizardNext ==
    \/ CheckStatus \/ PollQR \/ VerifyPhoneCode \/ Verify2FA \/ Logout
    \/ \E n \in Namespaces : SwitchAccount(n) \/ DeleteAccount(n) \/ StartQR(n) \/ Restart(n)
    \/ \E u \in Users, n \in Namespaces : SendPhoneCode(u, n)

WizardSpec == WizardInit /\ [][WizardNext]_wizardVars

-----------------------------------------------------------------------------
\* The wizard reports a login only while Telegram holds the session signed in,
\* whichever flows were started, abandoned and mixed before.
LoggedInIsAuthorized == wizard.loggedIn => session.stage = "in"
=============================================================================
