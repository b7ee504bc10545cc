--------------------------- MODULE ClientAppProofs ---------------------------
(***************************************************************************)
(* Theorems about ClientApp, for any number of programs on a host and any  *)
(* numbers typed at the packet drop prompt.                                *)
(***************************************************************************)
EXTENDS ClientApp, TLAPS

-----------------------------------------------------------------------------
(* Types, and the traffic thread. *)

Inv == AppTypeOK /\ NoThreadOutlives

LEMMA LimitedType == ASSUME NEW v \in Int PROVE Limited(v) \in 0..100
BY DEF Limited

LEMMA InitInv == Init => Inv
BY DEF Init, Inv, AppTypeOK, Ats, NoThreadOutlives

\* The answers at the drop prompt and the three places that set a loss keep it
\* a percentage; the others leave the interface alone.
LEMMA StepType ==
    ASSUME AppTypeOK, [Next]_vars
    PROVE  AppTypeOK'
<1>1. ASSUME NEW p \in Progs, UserStep(p) PROVE AppTypeOK'
  <2>1. CASE \E v \in Answers : AnswerDrop(p, v)
    <3>1. PICK v \in Answers : AnswerDrop(p, v)
      BY <2>1
    <3>2. Limited(v) \in 0..100
      BY AnswersAssumption, LimitedType
    <3> QED  BY <3>1, <3>2 DEF AnswerDrop, AppTypeOK, Goes, Ats, generator
  <2>2. CASE Launch(p)
    <3>1. at' \in [Progs -> Ats] /\ UNCHANGED <<generator, loss, eof, tcFails>>
      BY <2>2 DEF Launch, AppTypeOK, Goes, Ats
    <3>2. disturbed' \in [Progs -> BOOLEAN]
      BY <2>2, Zenon DEF Launch, AppTypeOK
    <3> QED  BY <3>1, <3>2 DEF AppTypeOK, generator, loss
  <2>3. CASE AskAuth(p) \/ ChooseExit(p) \/ Say(p) \/ InputEnds(p)
    BY <2>3 DEF AskAuth, ChooseExit, Say, InputEnds, AppTypeOK, Goes, Ats, Chatting,
                generator, loss
  <2> QED  BY <1>1, <2>1, <2>2, <2>3 DEF UserStep
<1>2. ASSUME NEW p \in Progs, ProgramStep(p) PROVE AppTypeOK'
  <2>1. CASE ConnectFails(p) \/ Connected(p) \/ AuthAnswered(p) \/ ChatAnswered(p)
    BY <2>1 DEF ConnectFails, Connected, AuthAnswered, ChatAnswered, AppTypeOK, Goes, Ats,
                Chatting, generator, loss
  <2>2. CASE DeleteOld(p) \/ AddLoss(p) \/ CleanUp(p)
    <3>1. qdisc' \in 0..100 \cup {NoLoss}
      BY <2>2 DEF DeleteOld, AddLoss, CleanUp, Deletes, AppTypeOK
    <3>2. /\ UNCHANGED <<generator, p_drop_val, asked, eof, disturbed, tcFails>>
          /\ at' \in [Progs -> Ats]
      BY <2>2 DEF DeleteOld, AddLoss, CleanUp, AppTypeOK, Goes, Ats
    <3> QED  BY <3>1, <3>2 DEF AppTypeOK, generator
  <2>3. CASE Stop(p) \/ Join(p)
    BY <2>3 DEF Stop, ResetRunning, Join, AppTypeOK, Goes, Ats, Chatting, loss
  <2>4. CASE End(p)
    BY <2>4 DEF End, Forgets, AppTypeOK, Goes, Ats
  <2> QED  BY <1>2, <2>1, <2>2, <2>3, <2>4 DEF ProgramStep
<1>3. ASSUME NEW p \in Progs, PromptStep(p) PROVE AppTypeOK'
  <2>1. CASE AnswerNonsense(p)
    BY <2>1 DEF AnswerNonsense, Forgets, AppTypeOK, Goes, Ats, generator
  <2>2. CASE StartBackground(p) \/ NoBackground(p) \/ LeaveChat(p)
    BY <2>2 DEF StartBackground, NoBackground, LeaveChat, AppTypeOK, Goes, Ats, Chatting,
                generator, loss
  <2> QED  BY <1>3, <2>1, <2>2 DEF PromptStep
<1>4. ASSUME NEW p \in Progs, WorkerStep(p) PROVE AppTypeOK'
  BY <1>4 DEF WorkerStep, WorkerChecks, WorkerSends, AppTypeOK, loss
<1>5. ASSUME NEW p \in Progs, Kill(p) PROVE AppTypeOK'
  BY <1>5 DEF Kill, Forgets, AppTypeOK, Ats
<1>6. CASE UNCHANGED vars
  BY <1>6 DEF vars, AppTypeOK
<1> QED  BY <1>1, <1>2, <1>3, <1>4, <1>5, <1>6 DEF Next

\* The thread starts where the chat does, and no step leaves the chat while it
\* runs: Join waits for it, and a kill takes it along.
LEMMA StepThread ==
    ASSUME Inv, [Next]_vars
    PROVE  NoThreadOutlives'
<1>1. ASSUME NEW p \in Progs, UserStep(p) PROVE NoThreadOutlives'
  BY <1>1 DEF UserStep, AnswerDrop, Launch, AskAuth, ChooseExit, Say, InputEnds,
              Inv, AppTypeOK, NoThreadOutlives, Goes, Chatting, generator
<1>2. ASSUME NEW p \in Progs, ProgramStep(p) PROVE NoThreadOutlives'
  <2>1. CASE Join(p)
    BY <2>1 DEF Join, Joinable, Inv, AppTypeOK, NoThreadOutlives, Goes, Chatting
  <2>2. CASE ~Join(p)
    BY <1>2, <2>2 DEF ProgramStep, ConnectFails, Connected, AuthAnswered, DeleteOld, AddLoss,
              ChatAnswered, Stop, CleanUp, End, Inv, AppTypeOK, NoThreadOutlives, Goes,
              Chatting, generator
  <2> QED  BY <2>1, <2>2
<1>3. ASSUME NEW p \in Progs, PromptStep(p) PROVE NoThreadOutlives'
  BY <1>3 DEF PromptStep, AnswerNonsense, StartBackground, NoBackground, LeaveChat,
              Inv, AppTypeOK, NoThreadOutlives, Goes, Chatting, generator
<1>4. ASSUME NEW p \in Progs, WorkerStep(p) PROVE NoThreadOutlives'
  BY <1>4 DEF WorkerStep, WorkerChecks, WorkerSends, Inv, AppTypeOK, NoThreadOutlives
<1>5. ASSUME NEW p \in Progs, Kill(p) PROVE NoThreadOutlives'
  BY <1>5 DEF Kill, Inv, AppTypeOK, NoThreadOutlives
<1>6. CASE UNCHANGED vars
  BY <1>6 DEF vars, Inv, NoThreadOutlives
<1> QED  BY <1>1, <1>2, <1>3, <1>4, <1>5, <1>6 DEF Next

LEMMA StepInv == Inv /\ [Next]_vars => Inv'
BY StepType, StepThread DEF Inv

\* Whatever numbers are typed, the emulated loss is a percentage.
THEOREM AppTypeCorrect == Spec => []AppTypeOK
<1>1. Inv => AppTypeOK
  BY DEF Inv
<1> QED  BY <1>1, InitInv, StepInv, PTL DEF Spec

\* No way out of the chat, and no exception before it, leaves the traffic
\* thread behind, in any number of programs.
THEOREM ThreadIsJoined == Spec => []NoThreadOutlives
<1>1. Inv => NoThreadOutlives
  BY DEF Inv
<1> QED  BY <1>1, InitInv, StepInv, PTL DEF Spec
-----------------------------------------------------------------------------
(* The emulated loss. *)

\* The nearest percentage is the one the two limits leave.
LEMMA NearestIsLimited == ASSUME NEW v \in Int PROVE Nearest(v) = Limited(v)
<1> DEFINE w == Limited(v)
           IsNearest(y) == \A x \in 0..100 : (y - v) * (y - v) <= (x - v) * (x - v)
<1>1. w \in 0..100
  BY LimitedType
<1>2. ASSUME NEW x \in 0..100, x # w
      PROVE  (w - v) * (w - v) < (x - v) * (x - v)
  <2>1. CASE v \in 0..100
    <3>1. w - v = 0 /\ x - v \in Int /\ x - v # 0
      BY <1>2, <2>1 DEF Limited
    <3>2. ASSUME NEW d \in Int, d # 0 PROVE 0 < d * d
      BY <3>2
    <3> HIDE DEF w
    <3> QED  BY <3>1, <3>2
  <2>2. CASE v > 100
    <3>1. w = 100 /\ v - w \in Nat /\ v - x \in Nat /\ v - w < v - x
      BY <1>2, <2>2 DEF Limited
    <3>2. ASSUME NEW a \in Nat, NEW b \in Nat, a < b PROVE a * a < b * b
      BY <3>2
    <3>3. (w - v) * (w - v) = (v - w) * (v - w) /\ (x - v) * (x - v) = (v - x) * (v - x)
      BY <1>1
    <3> HIDE DEF w
    <3> QED  BY <3>1, <3>2, <3>3
  <2>3. CASE v < 0
    <3>1. w = 0 /\ w - v \in Nat /\ x - v \in Nat /\ w - v < x - v
      BY <1>2, <2>3 DEF Limited
    <3>2. ASSUME NEW a \in Nat, NEW b \in Nat, a < b PROVE a * a < b * b
      BY <3>2
    <3> HIDE DEF w
    <3> QED  BY <3>1, <3>2
  <2> QED  BY <2>1, <2>2, <2>3
<1>3. IsNearest(w)
  <2> SUFFICES ASSUME NEW x \in 0..100
               PROVE  (w - v) * (w - v) <= (x - v) * (x - v)
    OBVIOUS
  <2>1. (w - v) * (w - v) \in Int /\ (x - v) * (x - v) \in Int
    BY <1>1
  <2>2. CASE x = w
    <3> HIDE DEF w
    <3> QED  BY <2>1, <2>2
  <2>3. CASE x # w
    <3>1. (w - v) * (w - v) < (x - v) * (x - v)
      BY <1>2, <2>3
    <3> HIDE DEF w
    <3> QED  BY <2>1, <3>1
  <2> QED  BY <2>2, <2>3
<1>4. \A y \in 0..100 : IsNearest(y) => y = w
  <2> SUFFICES ASSUME NEW y \in 0..100, IsNearest(y), y # w PROVE FALSE
    OBVIOUS
  <2>1. (y - v) * (y - v) <= (w - v) * (w - v) /\ (w - v) * (w - v) < (y - v) * (y - v)
    BY <1>1, <1>2
  <2>2. (y - v) * (y - v) \in Int /\ (w - v) * (w - v) \in Int
    BY <1>1
  <2> QED  BY <2>1, <2>2
<1> HIDE DEF w
<1>5. Nearest(v) = w
  BY <1>1, <1>3, <1>4 DEF Nearest
<1> QED  BY <1>5 DEF w

\* An undisturbed program has the host to itself.
Alone == \A p, q \in Progs : ~disturbed[p] /\ at[p] # "down" /\ at[q] # "down" => p = q

\* What an undisturbed program knows of the interface, place by place.
Emulating(p) ==
    /\ at[p] \in {"connecting", "auth", "authWaits", "dropPrompt", "deleting", "adding"} =>
          qdisc = NoLoss
    /\ at[p] = "leaving" => qdisc = NoLoss \/ "del" \in tcFails
    /\ at[p] \in {"deleting", "adding"} => p_drop_val[p] = Limited(asked[p])
    /\ at[p] \in Chatting \cup {"bgPrompt"} => qdisc = Limited(asked[p]) \/ "add" \in tcFails

\* LosesAsAsked and LeavesNoTrace are of single places; a program gets from
\* one to the other by the places between them.
LossInv ==
    /\ Inv
    /\ Alone
    /\ \A p \in Progs : ~disturbed[p] => Emulating(p)
    /\ (\A p \in Progs : ~disturbed[p] /\ at[p] = "down") =>
          qdisc = NoLoss \/ "del" \in tcFails

LEMMA InitLoss == Init => LossInv
BY InitInv DEF Init, LossInv, Alone, Emulating, Chatting

\* A step of a program that is up touches nobody else's state, and whoever is
\* undisturbed beside it is down: only the program itself has to be looked at.
LEMMA OneActs ==
    ASSUME LossInv, Inv', NEW p \in Progs, at[p] # "down",
           \A q \in Progs \ {p} : at'[q] = at[q] /\ disturbed'[q] = disturbed[q],
           ~disturbed'[p] => ~disturbed[p] /\ Emulating(p)',
           ~disturbed'[p] /\ at'[p] = "down" => qdisc' = NoLoss \/ "del" \in tcFails,
           tcFails' = tcFails
    PROVE  LossInv'
<1>1. Alone'
  BY DEF LossInv, Alone
<1>2. ASSUME NEW q \in Progs, q # p, ~disturbed'[q] PROVE Emulating(q)'
  <2>1. at'[q] = "down"
    BY <1>2 DEF LossInv, Alone
  <2> QED  BY <2>1 DEF Emulating, Chatting
<1>3. (\A q \in Progs : ~disturbed'[q] /\ at'[q] = "down") =>
          qdisc' = NoLoss \/ "del" \in tcFails'
  OBVIOUS
<1> QED  BY <1>1, <1>2, <1>3 DEF LossInv

LEMMA LaunchLoss == ASSUME LossInv, Inv', NEW p \in Progs, Launch(p) PROVE LossInv'
<1>1. /\ at[p] = "down" /\ at'[p] = "connecting" /\ qdisc' = qdisc /\ tcFails' = tcFails
      /\ \A q \in Progs : q # p => at'[q] = at[q]
      /\ ~disturbed'[p] => qdisc = NoLoss /\ \A r \in Progs \ {p} : at[r] = "down"
      /\ \A q \in Progs : q # p /\ ~disturbed'[q] => at[q] = "down"
  BY DEF Launch, Goes, loss, LossInv, Inv, AppTypeOK
<1>2. Alone'
  BY <1>1 DEF Alone
<1>3. ASSUME NEW q \in Progs, ~disturbed'[q] PROVE Emulating(q)'
  BY <1>1, <1>3 DEF Emulating, Chatting
<1> QED  BY <1>1, <1>2, <1>3 DEF LossInv

\* One step for each action of a program that is up.
LEMMA UserLoss ==
    ASSUME LossInv, Inv', NEW p \in Progs, UserStep(p)
    PROVE  LossInv'
<1> USE DEF Goes, loss, Emulating, Chatting
<1>1. at \in [Progs -> Ats]
  BY DEF LossInv, Inv, AppTypeOK
<1>2. CASE AskAuth(p) \/ ChooseExit(p) \/ Say(p) \/ InputEnds(p)
  BY <1>1, <1>2, OneActs DEF LossInv, AskAuth, ChooseExit, Say, InputEnds
<1>3. ASSUME NEW v \in Answers, AnswerDrop(p, v) PROVE LossInv'
  <2>1. /\ at[p] = "dropPrompt" /\ disturbed' = disturbed /\ qdisc' = qdisc
        /\ tcFails' = tcFails
        /\ at'[p] \in {"adding", "deleting"}
        /\ p_drop_val'[p] = Limited(v) /\ asked'[p] = v
        /\ \A q \in Progs \ {p} : at'[q] = at[q]
    BY <1>1, <1>3 DEF AnswerDrop, LossInv, Inv, AppTypeOK
  <2> QED  BY <2>1, OneActs DEF LossInv
<1> QED  BY <1>2, <1>3, LaunchLoss DEF UserStep

LEMMA ProgramLoss ==
    ASSUME LossInv, Inv', NEW p \in Progs, ProgramStep(p)
    PROVE  LossInv'
<1> USE DEF Goes, loss, Emulating, Chatting
<1>1. at \in [Progs -> Ats]
  BY DEF LossInv, Inv, AppTypeOK
<1>2. CASE ConnectFails(p) \/ Connected(p) \/ AuthAnswered(p) \/ ChatAnswered(p)
  BY <1>1, <1>2, OneActs DEF LossInv, ConnectFails, Connected, AuthAnswered, ChatAnswered
<1>3. CASE DeleteOld(p) \/ CleanUp(p)
  BY <1>1, <1>3, OneActs DEF LossInv, DeleteOld, CleanUp, Deletes
<1>4. CASE AddLoss(p)
  BY <1>1, <1>4, OneActs DEF LossInv, AddLoss
<1>5. CASE Stop(p) \/ Join(p)
  BY <1>1, <1>5, OneActs DEF LossInv, Stop, Join
<1>6. CASE End(p)
  BY <1>1, <1>6, OneActs DEF LossInv, End
<1> QED  BY <1>2, <1>3, <1>4, <1>5, <1>6 DEF ProgramStep

LEMMA PromptLoss ==
    ASSUME LossInv, Inv', NEW p \in Progs, PromptStep(p)
    PROVE  LossInv'
<1> USE DEF Goes, loss, Emulating, Chatting
<1>1. at \in [Progs -> Ats]
  BY DEF LossInv, Inv, AppTypeOK
<1>2. CASE AnswerNonsense(p)
  BY <1>1, <1>2, OneActs DEF LossInv, AnswerNonsense
<1>3. CASE StartBackground(p) \/ NoBackground(p) \/ LeaveChat(p)
  BY <1>1, <1>3, OneActs DEF LossInv, StartBackground, NoBackground, LeaveChat
<1> QED  BY <1>2, <1>3 DEF PromptStep

LEMMA StepLoss == LossInv /\ [Next]_vars => LossInv'
<1> SUFFICES ASSUME LossInv, [Next]_vars PROVE LossInv'
  OBVIOUS
<1>1. Inv'
  BY StepInv DEF LossInv
<1>2. ASSUME NEW p \in Progs, Kill(p) PROVE LossInv'
  <2>1. /\ at[p] # "down" /\ disturbed'[p] /\ tcFails' = tcFails
        /\ \A q \in Progs \ {p} : at'[q] = at[q] /\ disturbed'[q] = disturbed[q]
    BY <1>2 DEF Kill, LossInv, Inv, AppTypeOK
  <2> QED  BY <1>1, <2>1, OneActs
<1>3. ASSUME NEW p \in Progs, WorkerStep(p) PROVE LossInv'
  <2>1. UNCHANGED <<at, disturbed, p_drop_val, qdisc, asked, tcFails>>
    BY <1>3 DEF WorkerStep, WorkerChecks, WorkerSends, loss
  <2> QED  BY <1>1, <2>1 DEF LossInv, Alone, Emulating
<1>4. CASE UNCHANGED vars
  BY <1>1, <1>4 DEF vars, LossInv, Alone, Emulating
<1> QED  BY <1>1, <1>2, <1>3, <1>4, UserLoss, ProgramLoss, PromptLoss DEF Next

LEMMA LossInvHolds == Spec => []LossInv
BY InitLoss, StepLoss, PTL DEF Spec

\* A program that is alone on its host chats over an interface that loses the
\* percentage its user typed, or 0 or 100 where the number lies outside, unless
\* tc fails to add it.
THEOREM LossIsApplied == Spec => []LosesAsAsked
<1>1. LossInv => LosesAsAsked
  <2> SUFFICES ASSUME LossInv, "add" \notin tcFails, NEW p \in Progs, ~disturbed[p],
                      at[p] \in Chatting \cup {"bgPrompt"}
               PROVE  qdisc = Nearest(asked[p])
    BY DEF LosesAsAsked
  <2>1. asked[p] \in Int
    <3>1. asked[p] \in Answers \cup {0}
      BY DEF LossInv, Inv, AppTypeOK
    <3>2. Answers \cup {0} \subseteq Int
      BY AnswersAssumption
    <3> QED  BY <3>1, <3>2
  <2>2. qdisc = Limited(asked[p])
    BY DEF LossInv, Emulating
  <2> QED  BY <2>1, <2>2, NearestIsLimited
<1> QED  BY <1>1, LossInvHolds, PTL

\* A program that was alone on a clean host leaves it clean, on every way out
\* short of a kill, unless tc fails to delete the loss.
THEOREM LossIsRemoved == Spec => []LeavesNoTrace
<1>1. LossInv => LeavesNoTrace
  BY DEF LossInv, LeavesNoTrace
<1> QED  BY <1>1, LossInvHolds, PTL
=============================================================================
