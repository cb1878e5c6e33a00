--------------------------- MODULE DeviceGrantProofs ---------------------------
(***************************************************************************)
(* What DeviceGrant guarantees for any number of tabs, requests and polls: *)
(* its types, that one code is minted and one handed out, and that no page *)
(* says the opposite of what becomes of the code.                          *)
(***************************************************************************)
EXTENDS DeviceGrant, FiniteSetTheorems, TLAPS

----------------------------------------------------------------------------
(* The invariant *)

\* Requests that took the parked authorization, and what they left behind.
Deciders ==
  {r \in Requests : \/ req[r].at \in {"claimed", "minted", "denying"}
                    \/ r \in minted
                    \/ page[r] \in {"authorized", "denied"}}

\* Where a tab may be that began the grant, before it shows its page.
Opened == {"opening", "begun", "denying", "abandoning", "stuck"}

\* One tab begins, what it parked is taken once, and so one request decides, or
\* none if the page could not be made.
OneDecider ==
  /\ \A t \in Tabs : tab[t] \in Opened => grant \notin {"none", "pending"}
  /\ \A t, u \in Tabs : tab[t] \in Opened /\ tab[u] \in Opened => t = u
  /\ \A r \in Requests : req[r].at # "none" => req[r].of \in Tabs /\ tab[req[r].of] = "begun"
  /\ \A r \in Deciders : req[r].at # "none" /\ req[r].of \notin parked
  /\ \A r, s \in Deciders : r = s

\* Only a decision to approve mints, and only a minted code leaves.
DecisionInv ==
  /\ \A r \in Requests : /\ req[r].at = "claimed" \/ r \in minted => req[r].does = "approve"
                         /\ req[r].at = "minted" => r \in minted
                         /\ page[r] = "denied" => req[r].does = "refuse"
                         /\ page[r] = "authorized" => grant \in {"authorized", "consumed", "purged"}
  /\ grant \in {"authorized", "consumed"} \/ handed > 0 => minted # {}
  /\ handed <= 1 /\ (handed > 0 => grant \in {"consumed", "purged"})

\* Who was told that the code was declined was told so of a denied grant.
DeclinedInv ==
  /\ \A p \in Polls : poll[p].at = "done" => poll[p].answer # NoCode
  /\ cli = "declined" \/ (\E p \in Polls : poll[p].answer = "declined") =>
       /\ grant \in {"denied", "purged"}
       /\ ~Shown("authorized")

GrantInv == TypeOK /\ OneDecider /\ DecisionInv /\ DeclinedInv

----------------------------------------------------------------------------
(* Types *)

LEMMA FaultType ==
  ASSUME TypeOK, Fault
  PROVE  faults' \in 0 .. MaxFaults
  BY ConstantsAssumption, SMT DEF ConstantsAssumption, TypeOK, Fault

LEMMA BrowserType ==
  ASSUME TypeOK, NEW t \in Tabs, EnterCode(t) \/ Tab(t) \/ TabDies(t)
  PROVE  TypeOK'
  <1> USE DEF TypeOK, row, terminal
  <1>1. CASE EnterCode(t)
    BY <1>1, SMT DEF EnterCode
  <1>2. CASE Park(t)
    BY <1>2, SMT DEF Park
  <1>3. CASE Begin(t)
    BY <1>3, SMT DEF Begin, Untaken
  <1>4. CASE TakeBack(t)
    BY <1>4, SMT DEF TakeBack
  <1>5. CASE TabDies(t)
    <2>1. faults' \in 0 .. MaxFaults
      BY <1>5, FaultType DEF TabDies
    <2> QED BY <1>5, <2>1, SMT DEF TabDies
  <1>6. CASE OpenPage(t)
    <2>1. faults' \in 0 .. MaxFaults
      BY <1>6, FaultType DEF OpenPage
    <2> QED BY <1>6, <2>1, SMT DEF OpenPage, Caught
  <1>7. CASE Abandon(t)
    BY <1>7, SMT DEF Abandon
  <1>8. CASE GiveUp(t)
    BY <1>8, SMT DEF GiveUp
  <1> QED BY <1>1, <1>2, <1>3, <1>4, <1>5, <1>6, <1>7, <1>8 DEF Tab

LEMMA RequestType ==
  ASSUME TypeOK, NEW r \in Requests,
         \/ \E t \in Tabs, what \in Decisions : Decide(r, t, what)
         \/ Request(r) \/ RequestDies(r)
  PROVE  TypeOK'
  <1> USE DEF TypeOK, Decisions, Goto, Show, Caught, row, terminal
  <1>1. ASSUME NEW t \in Tabs, NEW what \in Decisions, Decide(r, t, what) PROVE TypeOK'
    BY <1>1, SMT DEF Decide
  <1>2. CASE Claim(r)
    BY <1>2, SMT DEF Claim
  <1>3. CASE Mint(r)
    <2>1. faults' \in 0 .. MaxFaults
      BY <1>3, FaultType DEF Mint
    <2> QED BY <1>3, <2>1, SMT DEF Mint
  <1>4. CASE Capture(r)
    <2>1. faults' \in 0 .. MaxFaults
      BY <1>4, FaultType DEF Capture
    <2> QED BY <1>4, <2>1, SMT DEF Capture
  <1>5. CASE Deny(r)
    BY <1>5, SMT DEF Deny
  <1>6. CASE RequestDies(r)
    <2>1. faults' \in 0 .. MaxFaults
      BY <1>6, FaultType DEF RequestDies
    <2> QED BY <1>6, <2>1, SMT DEF RequestDies
  <1> QED BY <1>1, <1>2, <1>3, <1>4, <1>5, <1>6 DEF Request

LEMMA PutType ==
  ASSUME NEW S, NEW T, NEW f \in [S -> T], NEW x \in S, NEW v \in T
  PROVE  [f EXCEPT ![x] = v] \in [S -> T]
  OBVIOUS

LEMMA AnswersType ==
  ASSUME TypeOK, NEW p \in Polls, NEW what, Answers(p, what),
         what \in {NoCode, "pending", "slow", "declined", "invalid", "expired", "code", "failed"}
  PROVE  /\ poll' \in [Polls -> PollRecord]
         /\ poll'[p].at = "done" /\ poll'[p].answer = what
  <1>1. poll[p] \in PollRecord
    BY DEF TypeOK
  <1>2. poll' = [poll EXCEPT ![p] = [poll[p] EXCEPT !.at = "done", !.answer = what]]
    BY Zenon DEF Answers, TypeOK
  <1>3. /\ [poll[p] EXCEPT !.at = "done", !.answer = what] \in PollRecord
        /\ [poll[p] EXCEPT !.at = "done", !.answer = what].at = "done"
        /\ [poll[p] EXCEPT !.at = "done", !.answer = what].answer = what
    BY <1>1, Zenon DEF PollRecord
  <1> QED BY <1>2, <1>3, Zenon DEF TypeOK

PollSteps(p) == PollArrives(p) \/ Poll(p) \/ PollFails(p) \/ PollBreaks(p)

LEMMA PollType ==
  ASSUME TypeOK, OneDecider, DecisionInv, DeclinedInv, NEW p \in Polls, PollSteps(p)
  PROVE  TypeOK'
  <1> USE DEF TypeOK, PollRecord, NoCode, NoPoll, browser, row
  <1>1. CASE PollArrives(p)
    BY <1>1, SMT DEF PollArrives
  <1>2. CASE Throttle(p)
    BY <1>2, SMT DEF Throttle, Answers
  <1>3. CASE Read(p)
    <2>1. Refusal(p) \in {"expired", "slow", "declined", "invalid"}
      BY SMT DEF Refusal
    <2> HIDE DEF TypeOK
    <2>2. UNCHANGED <<row, browser, cli, handed, faults>>
      BY <1>3 DEF Read
    <2>3. poll' \in [Polls -> PollRecord]
      BY <1>3, <2>1, SMT DEF Read, Answers, TypeOK
    <2> QED BY <2>2, <2>3, SMT DEF TypeOK
  <1>4. CASE Consume(p)
    <2>1. Cardinality(Polls) \in Nat /\ Cardinality(Polls) # 0
      BY ConstantsAssumption, FS_CardinalityType, FS_EmptySet
    <2>2. grant = "authorized" => handed = 0
      BY SMT DEF DecisionInv
    <2>3. handed' \in 0 .. Cardinality(Polls)
      BY <1>4, <2>1, <2>2, SMT DEF Consume
    <2>4. poll' \in [Polls -> PollRecord]
      BY <1>4, AnswersType DEF Consume
    <2>5. UNCHANGED <<expired, browser, cli, faults>> /\ grant' \in {grant, "consumed"}
      BY <1>4 DEF Consume
    <2> QED BY <2>3, <2>4, <2>5, SMT
  <1>5. CASE Hear(p)
    <2>1. Hears(poll[p].answer) \in {"signed_in", "waiting", "declined", "invalid", "expired",
                                     "failed"}
      BY <1>5, SMT DEF Hear, Hears, DeclinedInv
    <2> QED BY <1>5, <2>1, SMT DEF Hear
  <1>6. CASE Unheard(p)
    BY <1>6, SMT DEF Unheard
  <1>7. CASE PollFails(p)
    <2>1. Cardinality(Polls) \in Nat /\ Cardinality(Polls) # 0
      BY ConstantsAssumption, FS_CardinalityType, FS_EmptySet
    <2>2. grant = "authorized" => handed = 0
      BY SMT DEF DecisionInv
    <2>3. handed' \in 0 .. Cardinality(Polls)
      BY <1>7, <2>1, <2>2, SMT DEF PollFails
    <2>4. faults' \in 0 .. MaxFaults
      BY <1>7, FaultType DEF PollFails
    <2>5. poll' \in [Polls -> PollRecord]
      BY <1>7, AnswersType DEF PollFails
    <2>6. UNCHANGED <<expired, browser, cli>> /\ grant' \in {grant, "consumed"}
      BY <1>7 DEF PollFails
    <2> QED BY <2>3, <2>4, <2>5, <2>6, SMT
  <1>8. CASE PollBreaks(p)
    <2>1. faults' \in 0 .. MaxFaults
      BY <1>8, FaultType DEF PollBreaks
    <2>2. poll' \in [Polls -> PollRecord]
      <3>1. poll[p] \in PollRecord /\ NoPoll \in PollRecord
        BY DEF TypeOK, PollRecord, NoPoll
      <3>2. [poll[p] EXCEPT !.wanted = FALSE] \in PollRecord
        <4>1. poll[p] \in PollRecord
          BY <3>1
        <4> HIDE DEF TypeOK
        <4> QED BY <4>1, Zenon
      <3> HIDE DEF PollRecord, NoPoll
      <3>3. \/ poll' = [poll EXCEPT ![p] = NoPoll]
            \/ poll' = [poll EXCEPT ![p] = [poll[p] EXCEPT !.wanted = FALSE]]
        BY <1>8, Zenon DEF PollBreaks
      <3>4. poll \in [Polls -> PollRecord]
        BY DEF TypeOK
      <3> HIDE DEF TypeOK
      <3> HIDE DEF NoCode
      <3>5. /\ [poll EXCEPT ![p] = NoPoll] \in [Polls -> PollRecord]
            /\ [poll EXCEPT ![p] = [poll[p] EXCEPT !.wanted = FALSE]] \in [Polls -> PollRecord]
        BY <3>1, <3>2, <3>4, PutType, Zenon
      <3> QED BY <3>3, <3>5, Zenon
    <2>3. UNCHANGED <<row, browser, handed>> /\ cli' = "waiting"
      BY <1>8 DEF PollBreaks
    <2> QED BY <2>1, <2>2, <2>3, SMT
  <1> QED BY <1>1, <1>2, <1>3, <1>4, <1>5, <1>6, <1>7, <1>8 DEF Poll, PollSteps

Surroundings == CreateGrant \/ TimesOut \/ Expires \/ Purge

LEMMA SurroundingsType ==
  ASSUME TypeOK, Surroundings
  PROVE  TypeOK'
  <1>1. faults' \in 0 .. MaxFaults
    BY SMT DEF TypeOK, Surroundings, CreateGrant, TimesOut, Expires, Purge
  <1>3. CASE CreateGrant
    BY <1>1, <1>3 DEF TypeOK, CreateGrant, browser
  <1>4. CASE TimesOut
    BY <1>1, <1>4 DEF TypeOK, TimesOut, browser, row
  <1>5. CASE Expires
    BY <1>1, <1>5 DEF TypeOK, Expires, browser, terminal
  <1>6. CASE Purge
    BY <1>1, <1>6 DEF TypeOK, Purge, browser, terminal
  <1> QED BY <1>3, <1>4, <1>5, <1>6 DEF Surroundings

----------------------------------------------------------------------------
(* One decider *)

LEMMA BrowserDecider ==
  ASSUME GrantInv, NEW t \in Tabs, EnterCode(t) \/ Tab(t) \/ TabDies(t)
  PROVE  OneDecider' /\ DecisionInv' /\ DeclinedInv'
  <1> USE DEF GrantInv, TypeOK, row, terminal
  <1>1. Deciders' = Deciders /\ UNCHANGED <<req, page, minted, poll, cli, handed>>
    BY SMT DEF Deciders, EnterCode, Tab, Park, Begin, TakeBack, OpenPage, Abandon, GiveUp, TabDies
  <1>2. OneDecider'
    <2>1. CASE Begin(t)
      BY <1>1, <2>1, SMT DEF OneDecider, Begin, Untaken, Opened
    <2>2. CASE Park(t)
      BY <1>1, <2>2, SMT DEF OneDecider, Park, Opened, Deciders
    <2>3. CASE EnterCode(t) \/ TakeBack(t) \/ TabDies(t)
      BY <1>1, <2>3, SMT DEF OneDecider, EnterCode, TakeBack, TabDies, Opened, Deciders
    <2>4. CASE OpenPage(t)
      BY <1>1, <2>4, SMT DEF OneDecider, OpenPage, Caught, Opened, Deciders
    <2>5. CASE Abandon(t) \/ GiveUp(t)
      BY <1>1, <2>5, SMT DEF OneDecider, Abandon, GiveUp, Undecided, Opened, Deciders
    <2> QED BY <2>1, <2>2, <2>3, <2>4, <2>5 DEF Tab
  <1>3. grant' = grant \/ (grant = "pending" /\ grant' = "completing")
          \/ (grant = "completing" /\ grant' = "denied")
    BY SMT DEF EnterCode, Tab, Park, Begin, Untaken, TakeBack, OpenPage, Abandon, GiveUp, Undecided, TabDies
  <1>4. DecisionInv' /\ DeclinedInv'
    BY <1>1, <1>3, SMT DEF DecisionInv, DeclinedInv, Shown
  <1> QED BY <1>2, <1>4

LEMMA RequestDecider ==
  ASSUME GrantInv, NEW r \in Requests,
         \/ \E t \in Tabs, what \in Decisions : Decide(r, t, what)
         \/ Request(r) \/ RequestDies(r)
  PROVE  OneDecider' /\ DecisionInv' /\ DeclinedInv'
  <1> USE DEF GrantInv, TypeOK, At, Goto, Show, Caught, row, terminal
  <1>1. ASSUME NEW t \in Tabs, NEW what \in Decisions, Decide(r, t, what)
        PROVE  OneDecider' /\ DecisionInv' /\ DeclinedInv'
    <2>1. OneDecider'
      BY <1>1, SMT DEF Decide, OneDecider, Opened, Deciders
    <2>2. DecisionInv' /\ DeclinedInv'
      BY <1>1, SMT DEF Decide, OneDecider, Deciders, DecisionInv, DeclinedInv, Shown
    <2> QED BY <2>1, <2>2
  <1>2. CASE Claim(r)
    <2>1. OneDecider'
      <3>1. CASE Claimed(r)
        <4>1. Deciders' = Deciders \cup {r} /\ Deciders = {}
          <5>1. Deciders = {}
            <6>1. req[r].of \in parked /\ req[r].of \in Tabs /\ tab[req[r].of] \in Opened
              BY <1>2, <3>1, SMT DEF Claim, Claimed, OneDecider, Opened
            <6>2. ASSUME NEW q \in Deciders PROVE req[q].of = req[r].of
              <7>1. q \in Requests /\ req[q].at # "none"
                BY DEF OneDecider, Deciders
              <7>2. req[q].of \in Tabs /\ tab[req[q].of] \in Opened
                BY <7>1, SMT DEF OneDecider, Opened
              <7> QED BY <6>1, <7>2 DEF OneDecider
            <6> QED BY <6>1, <6>2 DEF OneDecider
          <5>4. req' = [req EXCEPT ![r].at = IF req[r].does = "approve" THEN "claimed" ELSE "denying"]
            BY <1>2, <3>1 DEF Claim
          <5>2. req'[r].at \in {"claimed", "denying"} /\ UNCHANGED <<minted, page>>
            <6>1. UNCHANGED <<minted, page>>
              BY <1>2, <3>1 DEF Claim
            <6>2. req'[r].at = IF req[r].does = "approve" THEN "claimed" ELSE "denying"
              BY <5>4, SMT
            <6> QED BY <6>1, <6>2
          <5>3. \A q \in Requests : q # r => req'[q] = req[q]
            BY <5>4, Zenon
          <5> QED BY <5>1, <5>2, <5>3, SMT DEF Deciders
        <4> QED BY <1>2, <3>1, <4>1, SMT DEF Claim, OneDecider
      <3>2. CASE ~Claimed(r)
        <4>1. Deciders' \subseteq Deciders
          BY <1>2, <3>2, SMT DEF Claim, Deciders
        <4>2. \A q \in Requests : /\ req'[q].of = req[q].of
                                  /\ req'[q].at = "none" <=> req[q].at = "none"
          BY <1>2, <3>2, SMT DEF Claim
        <4>3. parked' \subseteq parked /\ UNCHANGED <<tab, grant>>
          BY <1>2, SMT DEF Claim
        <4>4. \A q \in Requests : req'[q].at # "none" => req'[q].of \in Tabs /\ tab'[req'[q].of] = "begun"
          BY <4>2, <4>3, SMT DEF OneDecider
        <4>5. \A q \in Deciders' : req'[q].at # "none" /\ req'[q].of \notin parked'
          BY <4>1, <4>2, <4>3, SMT DEF OneDecider, Deciders
        <4> QED BY <4>1, <4>3, <4>4, <4>5, Zenon DEF OneDecider
      <3> QED BY <3>1, <3>2
    <2>2. DecisionInv' /\ DeclinedInv'
      BY <1>2, SMT DEF Claim, DecisionInv, DeclinedInv, Shown, Decisions
    <2> QED BY <2>1, <2>2
  <1>3. CASE Mint(r)
    <2>1. OneDecider'
      <3>1. Deciders' = Deciders
        BY <1>3, SMT DEF Mint, Deciders, OneDecider
      <3>2. \A q \in Requests : /\ req'[q].of = req[q].of
                                /\ req'[q].at = "none" <=> req[q].at = "none"
        BY <1>3, SMT DEF Mint
      <3>3. UNCHANGED <<parked, tab, grant>>
        BY <1>3, SMT DEF Mint
      <3>4. \A q \in Requests : req'[q].at # "none" => req'[q].of \in Tabs /\ tab'[req'[q].of] = "begun"
        BY <3>2, <3>3, SMT DEF OneDecider
      <3>5. \A q \in Deciders' : req'[q].at # "none" /\ req'[q].of \notin parked'
        BY <3>1, <3>2, <3>3, SMT DEF OneDecider, Deciders
      <3> QED BY <3>1, <3>3, <3>4, <3>5, Zenon DEF OneDecider
    <2>2. DecisionInv' /\ DeclinedInv'
      BY <1>3, SMT DEF Mint, DecisionInv, DeclinedInv, Shown
    <2> QED BY <2>1, <2>2
  <1>4. CASE Capture(r)
    <2>1. OneDecider'
      BY <1>4, SMT DEF Capture, Undecided, OneDecider, Deciders
    <2>2. DecisionInv'
      BY <1>4, SMT DEF Capture, Undecided, OneDecider, Deciders, DecisionInv
    <2>3. DeclinedInv'
      BY <1>4, SMT DEF Capture, Undecided, DeclinedInv, Shown
    <2> QED BY <2>1, <2>2, <2>3
  <1>5. CASE Deny(r)
    <2>1. OneDecider'
      BY <1>5, SMT DEF Deny, Undecided, OneDecider, Deciders
    <2>2. DecisionInv'
      BY <1>5, SMT DEF Deny, Undecided, DecisionInv, Decisions
    <2>3. DeclinedInv'
      BY <1>5, SMT DEF Deny, Undecided, DeclinedInv, Shown
    <2> QED BY <2>1, <2>2, <2>3
  <1>6. CASE RequestDies(r)
    <2>1. OneDecider'
      BY <1>6, SMT DEF RequestDies, OneDecider, Deciders
    <2>2. DecisionInv' /\ DeclinedInv'
      BY <1>6, SMT DEF RequestDies, DecisionInv, DeclinedInv, Shown
    <2> QED BY <2>1, <2>2
  <1> QED BY <1>1, <1>2, <1>3, <1>4, <1>5, <1>6 DEF Request

LEMMA PollDecider ==
  ASSUME GrantInv, NEW p \in Polls, PollSteps(p)
  PROVE  OneDecider' /\ DecisionInv' /\ DeclinedInv'
  <1> USE DEF GrantInv, PollSteps, browser, row
  <1>1. grant' = grant \/ (grant = "authorized" /\ grant' = "consumed")
    BY SMT DEF PollArrives, Poll, Throttle, Read, Consume, Hear, Unheard, PollFails, PollBreaks
  <1>2. UNCHANGED <<parked, tab, req, page, minted>>
    BY SMT DEF PollArrives, Poll, Throttle, Read, Consume, Hear, Unheard, PollFails, PollBreaks
  <1>3. OneDecider'
    BY <1>1, <1>2, SMT DEF OneDecider, Deciders
  <1>4. DecisionInv'
    <2>1. \/ UNCHANGED <<grant, handed>>
          \/ grant = "authorized" /\ grant' = "consumed" /\ handed' = handed + 1
      BY SMT DEF PollArrives, Poll, Throttle, Read, Consume, Hear, Unheard, PollFails, PollBreaks
    <2> QED BY <1>2, <2>1, SMT DEF DecisionInv, TypeOK
  <1>5. DeclinedInv'
    <2>1. /\ grant = "denied" => ~Shown("authorized")
          /\ ~Shown("authorized") => ~Shown("authorized")'
      BY <1>2, SMT DEF DecisionInv, Shown
    <2>2. TypeOK
      OBVIOUS
    <2>3. \A q \in Polls : q # p => poll'[q] = poll[q]
      BY Zenon DEF TypeOK, PollArrives, Poll, Throttle, Read, Consume, Hear, Unheard, PollFails,
                   PollBreaks, Answers
    <2>4. /\ poll'[p].at = "done" => poll'[p].answer # NoCode
          /\ poll'[p].answer = "declined" => grant = "denied" \/ poll[p].answer = "declined"
      <3> USE DEF NoCode
      <3>1. CASE PollArrives(p)
        <4>1. poll'[p] = [at |-> "start", fresh |-> ~expired, wanted |-> TRUE, answer |-> NoCode]
          BY <2>2, <3>1, Zenon DEF PollArrives, TypeOK
        <4> QED BY <4>1
      <3>2. CASE Throttle(p)
        <4>1. CASE Answers(p, "pending")
          BY <2>2, <4>1, AnswersType
        <4>2. CASE poll' = [poll EXCEPT ![p].at = "read"]
          BY <2>2, <4>2, SMT DEF TypeOK, PollRecord
        <4> QED BY <3>2, <4>1, <4>2 DEF Throttle
      <3>3. CASE Read(p)
        <4>1. /\ Refusal(p) # NoCode /\ (Refusal(p) = "declined" => grant = "denied")
              /\ Refusal(p) \in {"expired", "slow", "declined", "invalid"}
          BY SMT DEF Refusal
        <4>2. CASE Answers(p, Refusal(p))
          BY <2>2, <4>1, <4>2, AnswersType
        <4>3. CASE poll' = [poll EXCEPT ![p].at = "claim"]
          BY <2>2, <4>3, SMT DEF TypeOK, PollRecord
        <4> QED BY <3>3, <4>2, <4>3 DEF Read
      <3>4. CASE Consume(p)
        BY <2>2, <3>4, AnswersType DEF Consume
      <3>5. CASE Hear(p) \/ Unheard(p)
        <4>1. poll'[p] = NoPoll
          BY <2>2, <3>5, Zenon DEF Hear, Unheard, TypeOK
        <4> QED BY <4>1, SMT DEF NoPoll
      <3>6. CASE PollFails(p)
        BY <2>2, <3>6, AnswersType DEF PollFails
      <3>7. CASE PollBreaks(p)
        <4>1. poll' = [poll EXCEPT ![p] = NoPoll] \/ poll' = [poll EXCEPT ![p].wanted = FALSE]
          BY <3>7 DEF PollBreaks
        <4>2. poll' = [poll EXCEPT ![p] = NoPoll] => poll'[p] = NoPoll
          BY <2>2, Zenon DEF TypeOK
        <4>3. poll' = [poll EXCEPT ![p].wanted = FALSE] =>
                poll'[p].at = poll[p].at /\ poll'[p].answer = poll[p].answer
          BY <2>2, SMT DEF TypeOK, PollRecord
        <4> QED BY <4>1, <4>2, <4>3, SMT DEF DeclinedInv, NoPoll
      <3> QED BY <3>1, <3>2, <3>3, <3>4, <3>5, <3>6, <3>7 DEF Poll
    <2>5. cli' = "declined" => cli = "declined" \/ poll[p].answer = "declined"
      BY SMT DEF PollArrives, Poll, Throttle, Read, Consume, Hear, Hears, Unheard, PollFails, PollBreaks
    <2> QED BY <1>1, <2>1, <2>3, <2>4, <2>5, SMT DEF DeclinedInv
  <1> QED BY <1>3, <1>4, <1>5

LEMMA SurroundingsDecider ==
  ASSUME GrantInv, Surroundings
  PROVE  OneDecider' /\ DecisionInv' /\ DeclinedInv'
  <1> USE DEF GrantInv, TypeOK, NoCode, NoPoll, browser, row, terminal
  <1>1. UNCHANGED <<parked, tab, req, page, minted, handed>>
    BY SMT DEF Surroundings, CreateGrant, TimesOut, Expires, Purge
  <1>2. grant' = grant \/ (grant = "none" /\ grant' = "pending") \/ grant' = "purged"
    BY SMT DEF Surroundings, CreateGrant, TimesOut, Expires, Purge
  <1>3. OneDecider'
    <2>1. grant = "none" => \A t \in Tabs : tab[t] \notin Opened
      BY SMT DEF OneDecider
    <2> QED BY <1>1, <1>2, <2>1, SMT DEF OneDecider, Deciders
  <1>4. DecisionInv'
    BY <1>1, <1>2, SMT DEF DecisionInv
  <1>5. DeclinedInv'
    BY <1>1, SMT DEF Surroundings, CreateGrant, TimesOut, Expires, Purge, DeclinedInv, Shown
  <1> QED BY <1>3, <1>4, <1>5

----------------------------------------------------------------------------
(* What holds of every behaviour *)

LEMMA GrantInvariant == SafetySpec => []GrantInv
  <1>1. Init => GrantInv
    <2> SUFFICES ASSUME Init PROVE GrantInv
      OBVIOUS
    <2>1. Cardinality(Polls) \in Nat
      BY ConstantsAssumption, FS_CardinalityType DEF ConstantsAssumption
    <2>2. TypeOK
      <3>1. poll \in [Polls -> PollRecord]
        BY SMT DEF Init, PollRecord, NoPoll, NoCode
      <3>2. req \in [Requests -> [of : Tabs \cup {NoTab}, does : Decisions,
                                 at : {"none", "peeked", "claimed", "minted", "denying", "over",
                                       "dead"}]]
        BY SMT DEF Init, NoTab, Decisions
      <3>3. handed \in 0 .. Cardinality(Polls) /\ faults \in 0 .. MaxFaults
        BY <2>1, ConstantsAssumption, SMT DEF ConstantsAssumption, Init
      <3>4. /\ tab \in [Tabs -> {"none", "found", "parked", "opening", "begun", "lost", "denying",
                               "abandoning", "over", "dead", "stuck"}]
            /\ page \in [Requests -> {"none", "authorized", "denied", "error"}]
        BY SMT DEF Init
      <3> QED BY <3>1, <3>2, <3>3, <3>4, Zenon DEF Init, TypeOK
    <2>3. OneDecider /\ DecisionInv /\ DeclinedInv
      BY SMT DEF Init, NoPoll, NoCode, OneDecider, Opened, Deciders, DecisionInv, DeclinedInv
    <2> QED BY <2>2, <2>3 DEF GrantInv
  <1>2. GrantInv /\ [Next]_vars => GrantInv'
    <2> SUFFICES ASSUME GrantInv, [Next]_vars PROVE GrantInv'
      OBVIOUS
    <2>1. ASSUME NEW t \in Tabs, EnterCode(t) \/ Tab(t) \/ TabDies(t) PROVE GrantInv'
      BY <2>1, BrowserType, BrowserDecider DEF GrantInv
    <2>2. ASSUME NEW r \in Requests,
                 \/ \E t \in Tabs, what \in Decisions : Decide(r, t, what)
                 \/ Request(r) \/ RequestDies(r)
          PROVE  GrantInv'
      BY <2>2, RequestType, RequestDecider DEF GrantInv
    <2>3. ASSUME NEW p \in Polls, PollSteps(p) PROVE GrantInv'
      BY <2>3, PollType, PollDecider DEF GrantInv
    <2>4. CASE Surroundings
      BY <2>4, SurroundingsType, SurroundingsDecider DEF GrantInv
    <2>5. CASE UNCHANGED vars
      BY <2>5, SMT DEF vars, row, browser, terminal, GrantInv, TypeOK, OneDecider, Deciders, DecisionInv,
                       DeclinedInv, Shown
    <2> QED BY <2>1, <2>2, <2>3, <2>4, <2>5 DEF Next, Surroundings, PollSteps
  <1> QED BY <1>1, <1>2, PTL DEF SafetySpec

\* The rows, the pages and the polls have the values that device.ts, pending.ts
\* and the terminal give them.
THEOREM TypeCorrect == SafetySpec => []TypeOK
  BY GrantInvariant, PTL DEF GrantInv

\* However many tabs, submissions and polls there are, one code is minted and
\* one is handed out (pending.ts, device.ts).
THEOREM OneCodeOnly == SafetySpec => []OneCode
  <1>1. GrantInv => OneCode
    <2> SUFFICES ASSUME GrantInv PROVE Cardinality(minted) <= 1
      BY DEF OneCode, GrantInv, DecisionInv
    <2>1. \A r, s \in minted : r = s
      BY DEF GrantInv, TypeOK, OneDecider, Deciders
    <2>2. CASE minted = {}
      <3>1. Cardinality(minted) = 0
        BY <2>2, FS_EmptySet
      <3> QED BY <3>1, SMT
    <2>3. CASE minted # {}
      <3>1. PICK r : r \in minted
        BY <2>3
      <3>2. minted = {r}
        BY <2>1, <3>1
      <3>3. Cardinality(minted) = 1
        BY <3>2, FS_Singleton
      <3> QED BY <3>3, SMT
    <2> QED BY <2>2, <2>3
  <1> QED BY <1>1, GrantInvariant, PTL

\* No code leaves behind a page that says denied, and none is denied behind a
\* page that says authorized (device-routes.ts, completion.ts).
THEOREM PagesAreRight == SafetySpec => []PagesTellTruth
  <1>1. GrantInv => PagesTellTruth
    <2> SUFFICES ASSUME GrantInv PROVE PagesTellTruth
      OBVIOUS
    <2>1. ASSUME NEW r \in Requests, page[r] = "denied" PROVE minted = {}
      BY <2>1, SMT DEF GrantInv, TypeOK, OneDecider, Deciders, DecisionInv
    <2> QED BY <2>1, SMT DEF PagesTellTruth, Shown, GrantInv, TypeOK, DecisionInv, DeclinedInv
  <1> QED BY <1>1, GrantInvariant, PTL
=============================================================================
