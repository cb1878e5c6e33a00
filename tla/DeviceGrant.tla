------------------------------ MODULE DeviceGrant ------------------------------
(***************************************************************************)
(* One sign-in with a code: the terminal that polls (auth/mod.rs), the     *)
(* browser tabs that type the code, sign in and decide (device-routes.ts,  *)
(* routes.ts, device-continue.ts), and the two rows between them, the      *)
(* grant (device.ts) and the parked authorization (pending.ts).            *)
(*                                                                         *)
(* Every statement on D1 is a step of its own, and requests interleave     *)
(* between any two.  A parked authorization is named by the tab that typed *)
(* the code, a minted code by the request that minted it.  The grant runs  *)
(* out once; a parked authorization does so later and is not told apart.   *)
(***************************************************************************)
EXTENDS Naturals, FiniteSets

CONSTANTS
  Tabs,      \* browser tabs in which the code is typed
  Requests,  \* what those tabs send once they hold a page
  Polls,     \* polls of the terminal that may be at the gateway at once
  MaxFaults  \* requests that die, statements that fail, answers that are lost

ASSUME ConstantsAssumption ==
  /\ IsFiniteSet(Tabs) /\ IsFiniteSet(Requests) /\ IsFiniteSet(Polls)
  /\ MaxFaults \in Nat

NoCode == "nothing"
NoTab == "no_tab"
Decisions == {"approve", "refuse"}
NoPoll == [at |-> "none", fresh |-> FALSE, wanted |-> FALSE, answer |-> NoCode]

VARIABLES
  grant,    \* status of the row, "none" before and "purged" after
  expired,  \* past expires_at
  parked,   \* tabs whose authorization is parked
  tab,      \* where the request that takes the code is
  req,      \* each request: of which tab, to do what, where it is
  page,     \* what each request ended by showing
  minted,   \* requests that had the provider mint a code
  poll,     \* each poll at the gateway
  cli,      \* the terminal
  handed,   \* codes that were taken from the row
  faults

row == <<grant, expired>>
browser == <<parked, tab, req, page, minted>>
terminal == <<poll, cli, handed>>
vars == <<row, browser, terminal, faults>>

Fault == faults > 0 /\ faults' = faults - 1

----------------------------------------------------------------------------
(* The terminal asks for a code, and a tab gets it *)

CreateGrant ==
  /\ grant = "none"
  /\ grant' = "pending"
  /\ cli' = "waiting"
  /\ UNCHANGED <<expired, browser, poll, handed, faults>>

\* lookupDeviceGrantByUserCode.
EnterCode(t) ==
  /\ tab[t] = "none"
  /\ grant = "pending" /\ ~expired
  /\ tab' = [tab EXCEPT ![t] = "found"]
  /\ UNCHANGED <<row, parked, req, page, minted, terminal, faults>>

Park(t) ==
  /\ tab[t] = "found"
  /\ parked' = parked \cup {t}
  /\ tab' = [tab EXCEPT ![t] = "parked"]
  /\ UNCHANGED <<row, req, page, minted, terminal, faults>>

\* Mutant: any code that still runs may be begun.
Unexpired == grant \in {"pending", "completing"} /\ ~expired

\* The condition of beginDeviceAuthorization's update.
Untaken == grant = "pending" /\ ~expired

Begin(t) ==
  /\ tab[t] = "parked"
  /\ IF Untaken
     THEN grant' = "completing" /\ tab' = [tab EXCEPT ![t] = "opening"]
     ELSE UNCHANGED grant /\ tab' = [tab EXCEPT ![t] = "lost"]
  /\ UNCHANGED <<expired, parked, req, page, minted, terminal, faults>>

\* A tab that came second takes its parked authorization back.
TakeBack(t) ==
  /\ tab[t] = "lost"
  /\ parked' = parked \ {t}
  /\ tab' = [tab EXCEPT ![t] = "over"]
  /\ UNCHANGED <<row, req, page, minted, terminal, faults>>

\* Mutant: what fails once the grant is begun shows an error and nothing more.
Uncaught == "over"

\* The catch of both handlers refuses the grant.
Caught == "denying"

\* The page on which the person decides, or something before it fails.
OpenPage(t) ==
  /\ tab[t] = "opening"
  /\ \/ tab' = [tab EXCEPT ![t] = "begun"] /\ UNCHANGED faults
     \/ tab' = [tab EXCEPT ![t] = Caught] /\ Fault
  /\ UNCHANGED <<row, parked, req, page, minted, terminal>>

\* abandonParkedDeviceGrant, of a page that could not be made: no other request
\* has been given its state.
Abandon(t) ==
  /\ tab[t] = "denying"
  /\ parked' = parked \ {t}
  /\ tab' = [tab EXCEPT ![t] = "abandoning"]
  /\ UNCHANGED <<row, req, page, minted, terminal, faults>>

TabDies(t) ==
  /\ tab[t] \in {"found", "parked", "lost", "opening", "denying", "abandoning"} /\ Fault
  /\ tab' = [tab EXCEPT ![t] = IF @ \in {"found", "parked", "lost"} THEN "dead" ELSE "stuck"]
  /\ UNCHANGED <<row, parked, req, page, minted, terminal>>

----------------------------------------------------------------------------
(* The decision: /oauth/approve, or a sign-in that cannot go on *)

At(r, at) == req[r].at = at
Goto(r, at) == req' = [req EXCEPT ![r].at = at]
Show(r, what) == page' = [page EXCEPT ![r] = what] /\ Goto(r, "over")

\* peekAuthorization.  A sign-in that fails, a session that is over and a
\* browser that holds no continuation refuse the grant as a person does.
Decide(r, t, what) ==
  /\ At(r, "none")
  /\ tab[t] = "begun" /\ t \in parked
  /\ req' = [req EXCEPT ![r] = [of |-> t, does |-> what, at |-> "peeked"]]
  /\ UNCHANGED <<row, parked, tab, page, minted, terminal, faults>>

\* Mutant: what was peeked is taken for claimed.
Peeked(r) == TRUE

\* DELETE ... RETURNING finds the row.
Claimed(r) == req[r].of \in parked

Claim(r) ==
  /\ At(r, "peeked")
  /\ parked' = parked \ {req[r].of}
  /\ IF Claimed(r)
     THEN Goto(r, IF req[r].does = "approve" THEN "claimed" ELSE "denying") /\ UNCHANGED page
     ELSE Show(r, "error")
  /\ UNCHANGED <<row, tab, minted, terminal, faults>>

\* complete(): the provider mints a code, or something before it fails.
Mint(r) ==
  /\ At(r, "claimed")
  /\ \/ minted' = minted \cup {r} /\ Goto(r, "minted") /\ UNCHANGED faults
     \/ Fault /\ Goto(r, Caught) /\ UNCHANGED minted
  /\ UNCHANGED <<row, parked, tab, page, terminal>>

\* The condition of captureDeviceAuthorization's and denyDeviceAuthorization's
\* updates.
Undecided == grant = "completing" /\ ~expired

\* The update may fail, or its answer be lost after it took effect.
Capture(r) ==
  /\ At(r, "minted")
  /\ \/ Undecided /\ grant' = "authorized" /\ Show(r, "authorized") /\ UNCHANGED faults
     \/ ~Undecided /\ Goto(r, "denying") /\ UNCHANGED <<grant, page, faults>>
     \/ Undecided /\ grant' = "authorized" /\ Goto(r, Caught) /\ Fault /\ UNCHANGED page
     \/ Undecided /\ Goto(r, Caught) /\ Fault /\ UNCHANGED <<grant, page>>
  /\ UNCHANGED <<expired, parked, tab, minted, terminal>>

Deny(r) ==
  /\ At(r, "denying")
  /\ grant' = IF Undecided THEN "denied" ELSE grant
  /\ Show(r, IF req[r].does = "approve" THEN "error" ELSE "denied")
  /\ UNCHANGED <<expired, parked, tab, minted, terminal, faults>>

\* denyDeviceAuthorization, of the tab.
GiveUp(t) ==
  /\ tab[t] = "abandoning"
  /\ grant' = IF Undecided THEN "denied" ELSE grant
  /\ tab' = [tab EXCEPT ![t] = "over"]
  /\ UNCHANGED <<expired, parked, req, page, minted, terminal, faults>>

\* One that only peeked leaves what it peeked to the next.
RequestDies(r) ==
  /\ req[r].at \in {"peeked", "claimed", "minted", "denying"} /\ Fault
  /\ Goto(r, IF At(r, "peeked") THEN "over" ELSE "dead")
  /\ UNCHANGED <<row, parked, tab, page, minted, terminal>>

----------------------------------------------------------------------------
(* pollDeviceGrant *)

\* What the whole poll takes for the time is when it began.
PollArrives(p) ==
  /\ cli = "waiting" /\ poll[p] = NoPoll
  /\ poll' = [poll EXCEPT ![p] = [at |-> "start", fresh |-> ~expired, wanted |-> TRUE,
                                  answer |-> NoCode]]
  /\ cli' = "asking"
  /\ UNCHANGED <<row, browser, handed, faults>>

Answers(p, what) == poll' = [poll EXCEPT ![p].at = "done", ![p].answer = what]

\* While the browser is at work one poll of an interval is told to wait, and
\* the others to slow down; intervals are not told apart.
Throttle(p) ==
  /\ poll[p].at = "start"
  /\ \/ poll[p].fresh /\ grant \in {"pending", "completing"} /\ Answers(p, "pending")
     \/ poll' = [poll EXCEPT ![p].at = "read"]
  /\ UNCHANGED <<row, browser, cli, handed, faults>>

Refusal(p) ==
  IF grant = "purged" \/ ~poll[p].fresh
  THEN "expired"
  ELSE CASE grant \in {"pending", "completing"} -> "slow"
         [] grant = "denied" -> "declined"
         [] OTHER -> "invalid"

Read(p) ==
  /\ poll[p].at = "read"
  /\ IF grant = "authorized" /\ poll[p].fresh
     THEN poll' = [poll EXCEPT ![p].at = "claim"]
     ELSE Answers(p, Refusal(p))
  /\ UNCHANGED <<row, browser, cli, handed, faults>>

Consume(p) ==
  /\ poll[p].at = "claim"
  /\ IF grant = "authorized"
     THEN /\ grant' = "consumed" /\ Answers(p, "code")
          /\ handed' = handed + 1
     ELSE Answers(p, "invalid") /\ UNCHANGED <<grant, handed>>
  /\ UNCHANGED <<expired, browser, cli, faults>>

\* A statement of the poll fails, the last one perhaps after it took effect.
PollFails(p) ==
  /\ poll[p].at \in {"start", "read", "claim"} /\ Fault
  /\ Answers(p, "failed")
  /\ \/ UNCHANGED <<grant, handed>>
     \/ /\ poll[p].at = "claim" /\ grant = "authorized"
        /\ grant' = "consumed" /\ handed' = handed + 1
  /\ UNCHANGED <<expired, browser, cli>>

----------------------------------------------------------------------------
(* The terminal, and time *)

\* Mutant: the terminal gives up when it is told to slow down.
SlowIsFinal(what) ==
  CASE what = "code" -> "signed_in" [] what = "pending" -> "waiting" [] OTHER -> what

\* What the loop of login_code does with an answer.
Hears(what) ==
  CASE what = "code" -> "signed_in"
    [] what \in {"pending", "slow"} -> "waiting"
    [] OTHER -> what

Hear(p) ==
  /\ poll[p].at = "done" /\ poll[p].wanted
  /\ cli' = Hears(poll[p].answer)
  /\ poll' = [poll EXCEPT ![p] = NoPoll]
  /\ UNCHANGED <<row, browser, handed, faults>>

\* The terminal no longer waits for this one's answer.
Unheard(p) ==
  /\ poll[p].at = "done" /\ ~poll[p].wanted
  /\ poll' = [poll EXCEPT ![p] = NoPoll]
  /\ UNCHANGED <<row, browser, cli, handed, faults>>

\* The request did not get through for the terminal: it is lost, wherever it
\* was, or it is still at the gateway.
PollBreaks(p) ==
  /\ poll[p].wanted /\ Fault
  /\ cli' = "waiting"
  /\ \/ poll' = [poll EXCEPT ![p] = NoPoll]
     \/ poll' = [poll EXCEPT ![p].wanted = FALSE]
  /\ UNCHANGED <<row, browser, handed>>

\* The terminal's own deadline is not before the grant's.
TimesOut ==
  /\ cli = "waiting" /\ expired
  /\ cli' = "expired"
  /\ UNCHANGED <<row, browser, poll, handed, faults>>

Expires ==
  /\ grant # "none" /\ ~expired
  /\ expired' = TRUE
  /\ UNCHANGED <<grant, browser, terminal, faults>>

\* purgeExpiredDeviceGrants.
Purge ==
  /\ expired /\ grant # "purged"
  /\ grant' = "purged"
  /\ UNCHANGED <<expired, browser, terminal, faults>>

----------------------------------------------------------------------------
Init ==
  /\ grant = "none" /\ expired = FALSE
  /\ parked = {}
  /\ tab = [t \in Tabs |-> "none"]
  /\ req = [r \in Requests |-> [of |-> NoTab, does |-> "refuse", at |-> "none"]]
  /\ page = [r \in Requests |-> "none"]
  /\ minted = {}
  /\ poll = [p \in Polls |-> NoPoll] /\ cli = "none" /\ handed = 0
  /\ faults = MaxFaults

Tab(t) == Park(t) \/ Begin(t) \/ TakeBack(t) \/ OpenPage(t) \/ Abandon(t) \/ GiveUp(t)
Request(r) == Claim(r) \/ Mint(r) \/ Capture(r) \/ Deny(r)
Poll(p) == Throttle(p) \/ Read(p) \/ Consume(p) \/ Hear(p) \/ Unheard(p)

Next ==
  \/ CreateGrant
  \/ \E t \in Tabs : EnterCode(t) \/ Tab(t) \/ TabDies(t)
  \/ \E r \in Requests : \/ \E t \in Tabs, what \in Decisions : Decide(r, t, what)
                         \/ Request(r) \/ RequestDies(r)
  \/ \E p \in Polls : PollArrives(p) \/ Poll(p) \/ PollFails(p) \/ PollBreaks(p)
  \/ TimesOut \/ Expires \/ Purge

\* Requests at the gateway go on, the terminal polls until it has an answer,
\* and time passes.  Nobody is obliged to type the code or to decide.
Fairness ==
  /\ \A t \in Tabs : WF_vars(Tab(t))
  /\ \A r \in Requests : WF_vars(Request(r))
  /\ \A p \in Polls : WF_vars(Poll(p))
  /\ WF_vars(\E p \in Polls : PollArrives(p))
  /\ WF_vars(TimesOut)

SafetySpec == Init /\ [][Next]_vars
Spec == SafetySpec /\ Fairness

----------------------------------------------------------------------------
PollRecord == [at : {"none", "start", "read", "claim", "done"}, fresh : BOOLEAN,
               wanted : BOOLEAN,
               answer : {NoCode, "pending", "slow", "declined", "invalid", "expired",
                         "code", "failed"}]

TypeOK ==
  /\ grant \in {"none", "pending", "completing", "authorized", "denied", "consumed", "purged"}
  /\ expired \in BOOLEAN
  /\ parked \subseteq Tabs
  /\ tab \in [Tabs -> {"none", "found", "parked", "opening", "begun", "lost", "denying",
                      "abandoning", "over", "dead", "stuck"}]
  /\ req \in [Requests -> [of : Tabs \cup {NoTab}, does : Decisions,
                           at : {"none", "peeked", "claimed", "minted", "denying", "over", "dead"}]]
  /\ page \in [Requests -> {"none", "authorized", "denied", "error"}]
  /\ minted \subseteq Requests
  /\ poll \in [Polls -> PollRecord]
  /\ cli \in {"none", "waiting", "asking", "signed_in", "declined", "invalid", "expired",
              "failed"}
  /\ handed \in 0 .. Cardinality(Polls)
  /\ faults \in 0 .. MaxFaults

\* Two tabs, two submissions of one form and two polls of one terminal have
\* one code between them (pending.ts, device.ts).
OneCode == Cardinality(minted) <= 1 /\ handed <= 1

Shown(what) == \E r \in Requests : page[r] = what

\* Whoever decided is told what became of it: no code is handed out behind a
\* page that says denied, and none is denied behind one that says authorized.
PagesTellTruth ==
  /\ Shown("denied") => handed = 0 /\ grant \notin {"authorized", "consumed"}
  /\ Shown("authorized") => /\ grant \in {"authorized", "consumed", "purged"}
                            /\ cli # "declined"

\* Somebody holds the page, and has not decided.
MayDecide == \E t \in Tabs : tab[t] = "begun" /\ t \in parked

\* A request died once the grant was begun, and before it decided.
Cut == (\E r \in Requests : At(r, "dead")) \/ \E t \in Tabs : tab[t] = "stuck"

\* Whatever fails, a page that says authorized means that the terminal gets the
\* code, unless the code runs out, the gateway answers a poll with an error, or
\* the code was taken for an answer that is lost; and a grant that was begun
\* waits only for a page that somebody holds, or for a request that died.
SignInEnds ==
  /\ Shown("authorized") ~> (\/ cli \in {"signed_in", "failed"} \/ expired
                             \/ cli = "invalid" /\ handed = 1)
  /\ (grant = "completing") ~> (grant # "completing" \/ expired \/ MayDecide \/ Cut)
=============================================================================
