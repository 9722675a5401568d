--------------------------- MODULE RemoteCallsProofs ---------------------------
(***************************************************************************)
(* What a call of RemoteCalls that has ended means, for any service, any   *)
(* calls and any number of faults.  Each client has an inductive invariant *)
(* of its own; SharePoint's is the subject of SharePointProofs, and the    *)
(* last section puts them together.                                        *)
(***************************************************************************)
EXTENDS RemoteCalls, SharePointProofs

------------------------------------------------------------------------------
(***************************************************************************)
(* HexResource: runs started are at most one more than the answers lost or *)
(* not read, and a timed run that is not over at its timeout is killed.    *)
(***************************************************************************)
HexAct == HexNext \/ HexTimer \/ HexProgress

(* The run is asked for, or one is followed. *)
HexStarting == at \in {"run_project", "run_project again"}
HexFollowing == at \in {"run_status", "cancel_run", "run_status again", "cancel_run again"}
HexTyped ==
  /\ call.op \in HexOps /\ DOMAIN remote = HexRuns \cup {"timer"}
  /\ HexStarting \/ HexFollowing \/ at \in {"get_project", "get_project again", "ended"}
  /\ HexFollowing => call.op = "run_and_poll" /\ HexRun \in HexStarted
  /\ HexStarting => call.op # "get_project"
  /\ at \in {"get_project", "get_project again"} => call.op = "get_project"
(* No more runs than answers lost or not read, and one more. *)
HexCount ==
  /\ Cardinality(HexStarted) <= missed + 1
  /\ HexStarting => Cardinality(HexStarted) <= missed
(* Without such an answer the only run is the one that is followed. *)
HexOnly ==
  call.op = "run_and_poll" /\ missed = 0 =>
    /\ HexStarting => HexStarted = {}
    /\ HexFollowing => HexStarted = {HexRun}
    /\ told = "raised" /\ call.kill => \A x \in HexRuns : remote[x] \notin HexActive
HexKept ==
  told = "returned" /\ call.op = "run_and_poll" =>
    HexRun \in HexRuns /\ remote[HexRun] = "COMPLETED"
HexInv == HexTyped /\ HexCount /\ HexOnly /\ HexKept

(* What every step of a Hex run leaves alone, and what it may count.       *)
LEMMA HexShape ==
  ASSUME Base, HexInv, HexAct
  PROVE  Shape /\ call.client = "hex"
<1> USE DEF Base, Goto, Return, Raise, NoTrouble, Miss, Trouble, troubles
<1>1. CASE HexBoth
  BY <1>1, ServiceKept DEF HexBoth, Shape, Ending, Counted
<1>2. CASE HexSuccess
  <2>1. steady' = steady \cap Facts(remote')
    BY <1>2, ServiceBecomes DEF HexSuccess
  <2>2. \/ at' = at /\ told' = told
        \/ told = "none" /\ told' = "none" /\ at' # "ended"
        \/ told = "none" /\ told' \in {"returned", "raised"} /\ at' = "ended"
    BY <1>2 DEF HexSuccess, HexAsking, HexAnswered, HexJudge, HexProject, HexValid, HexTerminal, HexActive, Ending, HexRequests
  <2> QED BY <1>2, <2>1, <2>2 DEF HexSuccess, Shape, HexAsking, HexRequests
<1>3. CASE HexRefused
  BY <1>3, ServiceKept DEF HexRefused, HexAsking, Shape, Ending, Counted, HexRequests
<1>4. CASE HexDenied
  BY <1>4, ServiceKept DEF HexDenied, HexAsking, Shape, Ending, Counted, HexRequests
<1>5. CASE HexRetry
  <2>1. steady' = steady \cap Facts(remote')
    BY <1>5, ServiceBecomes DEF HexRetry
  <2> QED BY <1>5, <2>1 DEF HexRetry, HexAsking, Shape, Ending, Counted, HexRequests
<1>6. CASE HexNotJson
  <2>1. steady' = steady \cap Facts(remote') /\ missed' \in {missed, missed + 1}
    BY <1>6, ServiceBecomes DEF HexNotJson
  <2>2. told = "none" /\ at' # "ended"
    BY <1>6 DEF HexNotJson, HexAsking, HexRequests, HexAgain, Ending
  <2> QED BY <1>6, <2>1, <2>2 DEF HexNotJson, HexAsking, Shape, Ending, Counted, HexRequests
<1>9. CASE HexGarbled
  <2>1. steady' = steady \cap Facts(remote')
    BY <1>9, ServiceBecomes DEF HexGarbled
  <2> QED BY <1>9, <2>1 DEF HexGarbled, HexAsking, HexRequests, Shape, Ending, Counted
<1>10. CASE HexTurn
  BY <1>10, ServiceKept DEF HexTurn, HexRequests, HexAgain, Shape, Ending, Counted
<1>7. CASE HexTimer
  BY <1>7, ServiceBecomes DEF HexTimer, Shape, Set
<1>8. CASE HexProgress
  BY <1>8, ServiceBecomes DEF HexProgress, Shape, Set
<1> QED BY <1>1, <1>2, <1>3, <1>4, <1>5, <1>6, <1>7, <1>8, <1>9, <1>10 DEF HexAct, HexNext

(* A Hex run begins with its invariant.                                    *)
LEMMA HexInitial ==
  ASSUME HexBegin
  PROVE  Base /\ HexInv /\ call.client = "hex"
<1>1. PICK c \in Calls : c.client = "hex" /\
        Begin(c, IF c.op = "run_and_poll" THEN "run_project" ELSE c.op, << >>,
              [x \in HexRuns \cup {"timer"} |-> IF x = "timer" THEN "set" ELSE "none"])
  BY DEF HexBegin
<1>2. c.op \in HexOps
  BY <1>1, HexAssumption
<1>3. Base
  BY <1>1, <1>2, BeginBase DEF HexOps
<1>4. HexStarted = {}
  BY <1>1, HexAssumption DEF HexStarted, Begin
<1>5. HexTyped
  BY <1>1, <1>2 DEF HexTyped, HexOps, Begin, HexStarting, HexFollowing
<1>6. HexCount
  <2>1. Cardinality(HexStarted) = 0 /\ missed = 0
    BY <1>1, <1>4, FS_EmptySet DEF Begin
  <2>2. Cardinality(HexStarted) <= missed + 1 /\ Cardinality(HexStarted) <= missed
    BY <2>1
  <2> QED BY <2>2 DEF HexCount
<1>7. HexOnly /\ HexKept
  BY <1>1, <1>2, <1>4 DEF HexOnly, HexKept, HexOps, Begin, HexStarting, HexFollowing
<1> QED BY <1>1, <1>3, <1>5, <1>6, <1>7 DEF HexInv, Begin

(* The runs started are finitely many.                                     *)
LEMMA HexSize ==
  ASSUME HexInv
  PROVE  IsFiniteSet(HexStarted) /\ Cardinality(HexStarted) \in Nat
<1>1. HexStarted \subseteq HexRuns
  BY DEF HexStarted
<1> QED BY <1>1, HexAssumption, FS_Subset, FS_CardinalityType

(* What a request that was carried out does to the runs. *)
LEMMA HexCarriedOut ==
  ASSUME HexInv, HexAsking, NEW r \in HexCarried, Becomes(r)
  PROVE  /\ DOMAIN remote' = DOMAIN remote
         /\ \/ /\ at = "run_project"
               /\ \E x \in HexRuns \ HexStarted :
                    remote' = [remote EXCEPT ![x] = "PENDING"] /\ HexStarted' = HexStarted \cup {x}
            \/ /\ at = "cancel_run" /\ remote[HexRun] \in HexActive /\ HexStarted' = HexStarted
               /\ remote' = [remote EXCEPT ![HexRun] = "KILLED"]
            \/ at \in {"run_status", "get_project"} /\ remote' = remote /\ HexStarted' = HexStarted
<1>1. remote' = r
  BY DEF Becomes
<1>2. CASE at = "run_project"
  <2>1. PICK x \in HexRuns \ HexStarted : r = [remote EXCEPT ![x] = "PENDING"]
    BY <1>2 DEF HexCarried, HexStart
  <2>2. x \in DOMAIN remote
    BY <2>1 DEF HexInv, HexTyped, HexStarting, HexFollowing
  <2>3. HexStarted' = HexStarted \cup {x}
    BY <1>1, <2>1, <2>2 DEF HexStarted, HexInv, HexTyped, HexStarting, HexFollowing
  <2> QED BY <1>1, <1>2, <2>1, <2>2, <2>3
<1>3. CASE at = "cancel_run"
  <2>1. HexRun \in HexStarted /\ r = [remote EXCEPT ![HexRun] = "KILLED"]
         /\ remote[HexRun] \in HexActive
    BY <1>3 DEF HexCarried, HexCancel, HexInv, HexTyped, HexStarting, HexFollowing
  <2>2. HexStarted' = HexStarted
    BY <1>1, <2>1 DEF HexStarted, HexInv, HexTyped, HexStarting, HexFollowing
  <2> QED BY <1>1, <1>3, <2>1, <2>2
<1>4. CASE at \in {"run_status", "get_project"}
  <2>1. remote' = remote
    BY <1>1, <1>4 DEF HexCarried
  <2> QED BY <1>4, <2>1 DEF HexStarted
<1> QED BY <1>2, <1>3, <1>4 DEF HexAsking, HexRequests

(* A request starts at most one run, and only run_project does.            *)
LEMMA HexGrows ==
  ASSUME HexInv, HexAsking, NEW r \in HexCarried, Becomes(r)
  PROVE  /\ HexStarted \subseteq HexStarted' /\ Cardinality(HexStarted') \in Nat
         /\ Cardinality(HexStarted') <= Cardinality(HexStarted) + 1
<1>1. IsFiniteSet(HexStarted) /\ Cardinality(HexStarted) \in Nat
  BY HexSize
<1>2. HexStarted' = HexStarted \/ at = "run_project"
  BY HexCarriedOut
<1>3. CASE at = "run_project"
  <2>1. PICK x \in HexRuns \ HexStarted : HexStarted' = HexStarted \cup {x}
    BY HexCarriedOut, <1>3
  <2>2. Cardinality(HexStarted \cup {x}) = Cardinality(HexStarted) + 1
    BY <1>1, <2>1, FS_AddElement
  <2> QED BY <1>1, <1>3, <2>1, <2>2
<1> QED BY <1>1, <1>2, <1>3

(* An answer to a request keeps the invariant: the run polled is the run   *)
(* started.                                                                *)
LEMMA HexAnswer ==
  ASSUME Base, HexInv, HexSuccess
  PROVE  HexInv'
<1> USE DEF Goto, Return, Raise, NoTrouble, troubles
<1>0. HexTyped /\ HexCount /\ HexOnly /\ Ending /\ Counted /\ HexAsking /\ call' = call
       /\ missed' = missed /\ HexAnswered
  BY DEF HexInv, Base, HexSuccess
<1>1. PICK r \in HexCarried : Becomes(r)
  BY DEF HexSuccess
<1>2. DOMAIN remote' = DOMAIN remote
  BY <1>0, <1>1, HexCarriedOut
<1>m. missed \in Nat
  BY <1>0 DEF Counted
<1>s. IsFiniteSet(HexStarted) /\ Cardinality(HexStarted) \in Nat
  BY HexSize
<1>3. CASE at = "run_project"
  <2>1. PICK x \in HexRuns \ HexStarted :
          remote' = [remote EXCEPT ![x] = "PENDING"] /\ HexStarted' = HexStarted \cup {x}
    BY <1>0, <1>1, <1>3, HexCarriedOut
  <2>2. remote[x] = "none" /\ x \in DOMAIN remote
    BY <2>1, <1>0 DEF HexStarted, HexTyped, HexStarting, HexFollowing
  <2>3. left' = <<x>>
    BY <1>0, <1>3, <2>1, <2>2 DEF HexAnswered, HexProject
  <2>4. HexRun' = x
    BY <2>3 DEF HexRun
  <2>5. Cardinality(HexStarted') <= Cardinality(HexStarted) + 1 /\ Cardinality(HexStarted') \in Nat
    BY <1>0, <1>1, <1>3, HexGrows
  <2>6. at' = (IF call.op = "run_project" THEN "ended" ELSE "run_status")
         /\ told' = (IF call.op = "run_project" THEN "returned" ELSE told)
    BY <1>0, <1>3 DEF HexAnswered, HexProject
  <2>7. HexTyped'
    BY <1>0, <1>2, <1>3, <2>1, <2>4, <2>6 DEF HexTyped, HexOps, HexStarting, HexFollowing
  <2>8. HexCount'
    BY <1>0, <1>m, <1>s, <1>3, <2>1, <2>5, <2>6 DEF HexCount, HexStarting, HexFollowing
  <2>9. HexOnly' /\ HexKept'
    BY <1>0, <1>3, <2>1, <2>4, <2>6 DEF HexOnly, HexKept, Ending, HexStarting, HexFollowing
  <2> QED BY <2>7, <2>8, <2>9 DEF HexInv
<1>4. CASE at = "cancel_run"
  <2>1. /\ HexStarted' = HexStarted /\ remote' = [remote EXCEPT ![HexRun] = "KILLED"]
        /\ HexRun \in HexStarted
    BY <1>0, <1>1, <1>4, HexCarriedOut DEF HexTyped, HexStarting, HexFollowing
  <2>2. at' = "ended" /\ told' = "raised"
    BY <1>0, <1>4 DEF HexAnswered, HexProject
  <2>3. HexTyped' /\ HexKept'
    BY <1>0, <1>2, <2>2 DEF HexTyped, HexKept, HexStarting, HexFollowing
  <2>4. HexCount'
    BY <1>0, <1>m, <1>s, <1>4, <2>1, <2>2 DEF HexCount, HexStarting, HexFollowing
  <2>5. HexOnly'
    <3> SUFFICES ASSUME call.op = "run_and_poll", missed = 0, NEW y \in HexRuns
                 PROVE  remote'[y] \notin HexActive
      BY <1>0, <2>2 DEF HexOnly, HexStarting, HexFollowing
    <3>1. HexStarted = {HexRun}
      BY <1>0, <1>4 DEF HexOnly, HexStarting, HexFollowing
    <3>2. CASE y = HexRun
      BY <2>1, <3>2, <1>0 DEF HexActive, HexTyped, HexStarting, HexFollowing
    <3>3. CASE y # HexRun
      <4>1. remote[y] = "none" /\ y \in DOMAIN remote
        BY <3>1, <3>3, <1>0 DEF HexStarted, HexTyped
      <4> QED BY <2>1, <3>3, <4>1 DEF HexActive
    <3> QED BY <3>2, <3>3
  <2> QED BY <2>3, <2>4, <2>5 DEF HexInv
<1>5. CASE at = "get_project"
  <2>1. remote' = remote /\ HexStarted' = HexStarted /\ at' = "ended" /\ told' = "returned"
    BY <1>0, <1>1, <1>5, HexCarriedOut DEF HexAnswered, HexProject
  <2> QED BY <1>0, <1>5, <2>1 DEF HexTyped, HexOps, HexCount, HexOnly, HexKept, HexInv, HexStarting, HexFollowing
<1>6. CASE at = "run_status"
  <2>1. remote' = remote /\ HexStarted' = HexStarted /\ left' = left /\ HexJudge(remote[HexRun])
    BY <1>0, <1>1, <1>6, HexCarriedOut DEF HexAnswered, HexProject
  <2>2. HexRun' = HexRun /\ HexRun \in HexStarted /\ HexRun \in HexRuns /\ call.op = "run_and_poll"
    BY <1>0, <1>6, <2>1 DEF HexRun, HexTyped, HexStarted, HexStarting, HexFollowing
  <2>3. \/ at' \in {"run_status", "cancel_run"} /\ told' = told
        \/ at' = "ended" /\ told' = "returned" /\ remote[HexRun] = "COMPLETED"
        \/ at' = "ended" /\ told' = "raised" /\ (call.kill => remote[HexRun] \notin HexActive)
    BY <2>1 DEF HexJudge, HexValid, HexTerminal, HexActive
  <2>4. HexTyped'
    BY <1>0, <2>1, <2>2, <2>3 DEF HexTyped, HexStarting, HexFollowing
  <2>5. HexCount'
    BY <1>0, <1>6, <1>s, <2>1, <2>3 DEF HexCount, HexStarting, HexFollowing
  <2>6. HexKept'
    BY <1>0, <1>6, <2>1, <2>2, <2>3 DEF HexKept, Ending
  <2>7. ASSUME missed = 0, NEW y \in HexRuns, y # HexRun
        PROVE  remote[y] \notin HexActive
    BY <1>0, <1>6, <2>2, <2>7 DEF HexOnly, HexActive, HexStarted, HexStarting, HexFollowing
  <2>8. HexOnly'
    BY <1>0, <1>6, <2>1, <2>2, <2>3, <2>7 DEF HexOnly, Ending, HexStarting, HexFollowing
  <2> QED BY <2>4, <2>5, <2>6, <2>8 DEF HexInv
<1> QED BY <1>0, <1>3, <1>4, <1>5, <1>6 DEF HexAsking, HexRequests

(* A request whose answer is lost or not read may have started one run,    *)
(* and is counted.                                                         *)
LEMMA HexCounts ==
  ASSUME HexInv, missed \in Nat, missed' = missed + 1, HexStarting' => HexStarting,
         Cardinality(HexStarted') \in Nat, Cardinality(HexStarted') <= Cardinality(HexStarted) + 1
  PROVE  HexCount'
<1>1. Cardinality(HexStarted) \in Nat /\ HexCount
  BY HexSize DEF HexInv
<1>2. Cardinality(HexStarted) <= missed + 1
  BY <1>1 DEF HexCount
<1>3. Cardinality(HexStarted') <= missed' + 1
  BY <1>1, <1>2
<1>4. ASSUME HexStarting' PROVE Cardinality(HexStarted') <= missed'
  <2>1. Cardinality(HexStarted) <= missed
    BY <1>1, <1>4 DEF HexCount
  <2> QED BY <1>1, <2>1
<1> QED BY <1>3, <1>4 DEF HexCount

(* Of a call with such a request nothing is said but the count.            *)
LEMMA HexMissed ==
  ASSUME missed \in Nat, missed' = missed + 1
  PROVE  HexOnly'
<1>1. missed' # 0
  OBVIOUS
<1> QED BY <1>1 DEF HexOnly

(* Every step of a Hex run keeps its invariant.                            *)
LEMMA HexStep ==
  ASSUME Base, HexInv, HexAct
  PROVE  HexInv'
<1> USE DEF Goto, Return, Raise, NoTrouble, Miss, Trouble, troubles
<1>0. HexTyped /\ HexCount /\ HexOnly /\ HexKept /\ Ending /\ Counted
  BY DEF HexInv, Base
<1>m. missed \in Nat
  BY <1>0 DEF Counted
<1>s. IsFiniteSet(HexStarted) /\ Cardinality(HexStarted) \in Nat
  BY HexSize
<1>1. CASE HexBoth
  BY <1>0, <1>m, <1>1, <1>s DEF HexBoth, HexInv, HexTyped, HexCount, HexOnly, HexKept, HexRun, HexStarted, service, HexStarting, HexFollowing
<1>2. CASE HexSuccess
  BY <1>2, HexAnswer
<1>3. CASE HexRefused
  <2>0. remote' = remote /\ call' = call /\ at' = "ended" /\ told' = "raised" /\ missed' = missed
         /\ HexStarted' = HexStarted /\ HexAsking
    BY <1>3 DEF HexRefused, service, HexStarted
  <2>1. ASSUME call.op = "run_and_poll", missed = 0, NEW y \in HexRuns
        PROVE  remote[y] \notin HexActive
    <3>1. CASE at = "run_project"
      BY <1>3, <3>1, <1>0, <2>1 DEF HexRefused, HexCarried, HexStart, HexOnly, HexStarting, HexFollowing
    <3>2. CASE at = "cancel_run"
      <4>1. HexStarted = {HexRun} /\ remote[HexRun] \notin HexActive
        BY <1>3, <3>2, <1>0, <2>1 DEF HexRefused, HexCarried, HexCancel, HexOnly, HexStarting, HexFollowing
      <4> QED BY <4>1, <2>1 DEF HexStarted, HexActive
    <3>3. CASE at \in {"run_status", "get_project"}
      BY <1>3, <3>3 DEF HexRefused, HexCarried
    <3> QED BY <2>0, <3>1, <3>2, <3>3 DEF HexAsking, HexRequests
  <2>2. HexOnly'
    BY <1>0, <2>0, <2>1 DEF HexOnly, HexStarting, HexFollowing
  <2>3. HexCount'
    BY <1>0, <1>m, <1>s, <2>0 DEF HexCount, HexStarting, HexFollowing
  <2> QED BY <1>0, <2>0, <2>2, <2>3 DEF HexTyped, HexKept, HexInv, HexStarting, HexFollowing
<1>4. CASE HexDenied
  <2>0. remote' = remote /\ call' = call /\ at' = "ended" /\ told' = "raised" /\ missed' = missed + 1
         /\ HexStarted' = HexStarted
    BY <1>4 DEF HexDenied, service, HexStarted
  <2>1. HexCount'
    BY <1>m, <1>s, <2>0, HexCounts DEF HexStarting
  <2>2. HexOnly'
    BY <1>m, <2>0, HexMissed
  <2> QED BY <1>0, <2>0, <2>1, <2>2 DEF HexTyped, HexKept, HexInv, HexStarting, HexFollowing
<1>5. CASE HexRetry
  <2>0. call' = call /\ missed' = missed + 1 /\ left' = left /\ HexAsking
         /\ ((at' = at /\ told' = told) \/ (at' = "ended" /\ told' = "raised"))
    BY <1>5 DEF HexRetry
  <2>1. \E r \in HexCarried \cup {remote} : Becomes(r)
    BY <1>5 DEF HexRetry
  <2>s. HexStarting' => HexStarting
    BY <2>0 DEF HexStarting
  <2>o. HexOnly'
    BY <1>m, <2>0, HexMissed
  <2>2. CASE remote' = remote
    <3>1. HexStarted' = HexStarted
      BY <2>2 DEF HexStarted
    <3>2. HexCount'
      BY <1>m, <1>s, <2>0, <2>s, <3>1, HexCounts
    <3> QED BY <1>0, <2>0, <2>2, <2>o, <3>1, <3>2 DEF HexTyped, HexKept, HexInv, HexRun, HexStarting, HexFollowing
  <2>3. CASE \E r \in HexCarried : Becomes(r)
    <3>0. PICK r \in HexCarried : Becomes(r)
      BY <2>3
    <3>1. DOMAIN remote' = DOMAIN remote /\ HexStarted \subseteq HexStarted'
      BY <2>0, <3>0, HexCarriedOut
    <3>3. HexTyped'
      BY <1>0, <2>0, <3>1 DEF HexTyped, HexRun, HexStarting, HexFollowing
    <3>2. Cardinality(HexStarted') <= Cardinality(HexStarted) + 1
           /\ Cardinality(HexStarted') \in Nat
      BY <2>0, <3>0, HexGrows
    <3>4. HexCount'
      BY <1>m, <1>s, <2>0, <2>s, <3>2, HexCounts
    <3>5. HexKept'
      BY <1>0, <2>0 DEF HexKept, Ending, HexAsking, HexRequests
    <3> QED BY <2>o, <3>3, <3>4, <3>5 DEF HexInv
  <2> QED BY <2>1, <2>2, <2>3 DEF Becomes
<1>6. CASE HexNotJson
  <2>0. call' = call /\ left' = left /\ HexAsking /\ told' = told /\ at' = HexAgain(at)
    BY <1>6 DEF HexNotJson
  <2>1. PICK r \in HexCarried \cup {remote} :
          Becomes(r) /\ missed' = IF r = remote THEN missed ELSE missed + 1
    BY <1>6 DEF HexNotJson
  <2>2. /\ (HexStarting' <=> HexStarting) /\ (HexFollowing' <=> HexFollowing)
        /\ at = "get_project" => call.op = "get_project"
        /\ at' = "get_project again" => at = "get_project"
        /\ at' # "get_project" /\ at' # "ended" /\ at # "ended"
        /\ HexStarting' \/ HexFollowing' \/ at' = "get_project again"
    BY <1>0, <2>0 DEF HexTyped, HexAsking, HexRequests, HexAgain, HexStarting, HexFollowing
  <2>k. HexKept'
    BY <1>0, <2>0, <2>2 DEF HexKept, Ending
  <2>3. CASE r = remote
    <3>1. remote' = remote /\ HexStarted' = HexStarted /\ missed' = missed /\ HexRun' = HexRun
      BY <2>0, <2>1, <2>3 DEF Becomes, HexStarted, HexRun
    <3>2. HexTyped'
      BY <1>0, <2>0, <2>2, <3>1 DEF HexTyped
    <3>3. HexCount' /\ HexOnly'
      BY <1>0, <1>m, <1>s, <2>0, <2>2, <3>1 DEF HexCount, HexOnly
    <3> QED BY <2>k, <3>2, <3>3 DEF HexInv
  <2>4. CASE r # remote
    <3>0. r \in HexCarried /\ missed' = missed + 1 /\ HexRun' = HexRun
      BY <2>0, <2>1, <2>4 DEF HexRun
    <3>1. DOMAIN remote' = DOMAIN remote /\ HexStarted \subseteq HexStarted'
      BY <2>0, <2>1, <3>0, HexCarriedOut
    <3>2. Cardinality(HexStarted') <= Cardinality(HexStarted) + 1
           /\ Cardinality(HexStarted') \in Nat
      BY <2>0, <2>1, <3>0, HexGrows
    <3>3. HexCount'
      BY <1>m, <1>s, <2>2, <3>0, <3>2, HexCounts
    <3>4. HexTyped'
      BY <1>0, <2>0, <2>2, <3>0, <3>1 DEF HexTyped
    <3>5. HexOnly'
      BY <1>m, <3>0, HexMissed
    <3> QED BY <2>k, <3>3, <3>4, <3>5 DEF HexInv
  <2> QED BY <2>3, <2>4
<1>9. CASE HexGarbled
  <2>0. /\ call' = call /\ missed' = missed + 1 /\ HexAsking /\ at' = "ended" /\ told' = "raised"
        /\ ~HexStarting' /\ ~HexFollowing'
    BY <1>9 DEF HexGarbled, HexStarting, HexFollowing
  <2>1. PICK r \in HexCarried : Becomes(r)
    BY <1>9 DEF HexGarbled
  <2>2. DOMAIN remote' = DOMAIN remote /\ HexStarted \subseteq HexStarted'
    BY <2>0, <2>1, HexCarriedOut
  <2>3. Cardinality(HexStarted') <= Cardinality(HexStarted) + 1
         /\ Cardinality(HexStarted') \in Nat
    BY <2>0, <2>1, HexGrows
  <2>4. HexCount'
    BY <1>m, <1>s, <2>0, <2>3, HexCounts
  <2>5. HexOnly'
    BY <1>m, <2>0, HexMissed
  <2>6. HexTyped' /\ HexKept'
    BY <1>0, <2>0, <2>2 DEF HexTyped, HexKept
  <2> QED BY <2>4, <2>5, <2>6 DEF HexInv
<1>10. CASE HexTurn
  <2>0. /\ call' = call /\ left' = left /\ told' = told /\ missed' = missed /\ remote' = remote
        /\ HexStarted' = HexStarted /\ HexRun' = HexRun
    BY <1>10 DEF HexTurn, service, HexStarted, HexRun
  <2>1. /\ (HexStarting' <=> HexStarting) /\ (HexFollowing' <=> HexFollowing)
        /\ at' = "get_project" <=> at = "get_project again"
        /\ at' \in HexRequests /\ at \notin HexRequests /\ at # "ended"
    BY <1>10 DEF HexTurn, HexRequests, HexAgain, HexStarting, HexFollowing
  <2> QED BY <1>0, <1>s, <2>0, <2>1 DEF HexTyped, HexCount, HexOnly, HexKept, HexInv, Ending, HexRequests, HexStarting, HexFollowing
<1>7. CASE HexTimer
  <2>1. remote' = [remote EXCEPT !["timer"] = "passed"] /\ call' = call /\ at' = at /\ told' = told
         /\ left' = left /\ missed' = missed /\ told = "none"
    BY <1>7 DEF HexTimer, Set, Becomes
  <2>2. HexStarted' = HexStarted
    BY <2>1, <1>0, HexAssumption DEF HexStarted, HexTyped, HexStarting, HexFollowing
  <2> QED BY <1>0, <1>s, <2>1, <2>2 DEF HexTyped, HexCount, HexOnly, HexKept, HexInv, HexRun, HexStarting, HexFollowing
<1>8. CASE HexProgress
  <2>1. call' = call /\ at' = at /\ told' = told /\ left' = left /\ missed' = missed
    BY <1>8 DEF HexProgress
  <2>2. PICK x \in HexStarted, s \in {"RUNNING", "KILLED"} \cup HexTerminal :
          remote' = [remote EXCEPT ![x] = s] /\ remote[x] \in HexActive
    BY <1>8 DEF HexProgress, Set, Becomes, HexActive
  <2>3. HexStarted' = HexStarted
    BY <2>2, <1>0 DEF HexStarted, HexTyped, HexTerminal, HexStarting, HexFollowing
  <2>4. \A y \in HexRuns : remote[y] \notin HexActive => remote'[y] = remote[y]
    BY <2>2, <1>0 DEF HexTyped, HexStarting, HexFollowing
  <2>5. HexKept'
    BY <1>0, <2>1, <2>4 DEF HexKept, HexRun, HexActive
  <2>6. HexOnly'
    BY <1>0, <2>1, <2>3, <2>4 DEF HexOnly, HexRun, HexStarting, HexFollowing
  <2> QED BY <1>0, <1>s, <2>1, <2>2, <2>3, <2>5, <2>6 DEF HexTyped, HexCount, HexInv, HexRun, HexStarting, HexFollowing
<1> QED BY <1>1, <1>2, <1>3, <1>4, <1>5, <1>6, <1>7, <1>8, <1>9, <1>10 DEF HexAct, HexNext

(* What the invariant says of a Hex run that has ended.                    *)
LEMMA HexMeans ==
  ASSUME Base, HexInv
  PROVE  (told = "returned" => HexDone) /\ (told # "none" => HexNoStrays)
<1>1. HexTyped /\ HexCount /\ HexOnly /\ HexKept /\ Ending /\ Counted
  BY DEF HexInv, Base
<1>2. Cardinality(HexStarted) \in Nat
  BY HexSize
<1>3. missed \in Nat
  BY <1>1 DEF Counted
<1>4. Cardinality(HexStarted) <= 1 + missed
  BY <1>1, <1>2, <1>3 DEF HexCount
<1> QED BY <1>1, <1>4 DEF HexKept, HexOnly, HexDone, HexNoStrays, Ending

------------------------------------------------------------------------------
(***************************************************************************)
(* CloudRunLauncher: one execution at most, and none going on unasked      *)
(* after the run was terminated.                                           *)
(***************************************************************************)
CrAct == CrNext \/ CrBeside
CrStarted == {x \in CrExecutions : remote[x] # "none"}

CrTyped ==
  /\ DOMAIN remote = CrExecutions \cup {"tag", "run", "quota"}
  /\ remote["tag"] \in CrExecutions \cup {"none"}
  /\ at \in {"launch", "environment", "run job", "tag", "launched", "cancel", "canceled", "ended"}
(* A launcher starts one execution at most, and tags no other. *)
CrOne ==
  /\ at \in {"launch", "environment", "run job"} => CrStarted = {}
  /\ \A x \in CrStarted, y \in CrStarted : x = y
  /\ at = "tag" => left[1] \in CrStarted /\ remote["tag"] = "none"
  /\ remote["tag"] # "none" => remote["tag"] \in CrStarted
  /\ at \in {"cancel", "canceled"} => remote["tag"] # "none"
(* Unless a request has failed, what is not tagged was not started. *)
CrTagged ==
  missed = 0 /\ at \in {"launched", "ended"} /\ remote["tag"] = "none" => CrStarted = {}
CrOver ==
  /\ at = "canceled" => CrRunning = {}
  /\ at = "ended" /\ missed = 0 => CrRunning = {}
  /\ told = "returned" => \/ answer = FALSE
                          \/ answer = TRUE /\ CrRunning = {} /\ remote["run"] = "canceled"
CrInv == CrTyped /\ CrOne /\ CrTagged /\ CrOver

(* A Cloud Run launch begins with its invariant.                           *)
LEMMA CrInitial ==
  ASSUME CrBegin
  PROVE  Base /\ CrInv /\ call.client = "cloud run"
<1>1. PICK c \in Calls : c.client = "cloud run" /\
        Begin(c, "launch", << >>,
          [x \in CrExecutions \cup {"tag", "run", "quota"} |->
             CASE x = "run" -> "starting" [] x = "quota" -> "free" [] OTHER -> "none"])
  BY DEF CrBegin
<1>2. Base
  BY <1>1, BeginBase
<1>3. CrStarted = {} /\ remote["tag"] = "none"
  BY <1>1, CrAssumption DEF CrStarted, Begin
<1>4. CrInv
  BY <1>1, <1>3 DEF CrInv, CrTyped, CrOne, CrTagged, CrOver, Begin
<1> QED BY <1>1, <1>2, <1>4 DEF Begin

(* What every step of a Cloud Run launch leaves alone, and what it may     *)
(* count.                                                                  *)
LEMMA CrShape ==
  ASSUME Base, CrInv, CrAct
  PROVE  Shape /\ call.client = "cloud run"
<1> USE DEF Base, Goto, Return, Raise, NoTrouble, Miss, Trouble, troubles, CrFailed, CrKept, Cr
<1>1. CASE CrJob
  <2>1. steady' = steady \cap Facts(remote')
    BY <1>1, ServiceKept, ServiceBecomes DEF CrJob, Set
  <2> QED BY <1>1, <2>1 DEF CrJob, Shape, Ending, Counted
<1>2. CASE CrEnvironment
  <2>1. steady' = steady \cap Facts(remote')
    BY <1>2, ServiceKept, ServiceBecomes DEF CrEnvironment, Set
  <2> QED BY <1>2, <2>1 DEF CrEnvironment, Shape, Ending, Counted
<1>3. CASE CrExecute
  <2>1. steady' = steady \cap Facts(remote')
    BY <1>3, ServiceKept, ServiceBecomes DEF CrExecute, Set
  <2> QED BY <1>3, <2>1 DEF CrExecute, Shape, Ending, Counted
<1>4. CASE CrTag
  <2>1. steady' = steady \cap Facts(remote')
    BY <1>4, ServiceKept, ServiceBecomes DEF CrTag, Set
  <2> QED BY <1>4, <2>1 DEF CrTag, Shape, Ending, Counted
<1>5. CASE CrTerminate
  <2>1. steady' = steady \cap Facts(remote')
    BY <1>5, ServiceKept, ServiceBecomes DEF CrTerminate, Set
  <2> QED BY <1>5, <2>1 DEF CrTerminate, Shape, Ending, Counted
<1>6. CASE CrCancel
  <2>1. steady' = steady \cap Facts(remote')
    BY <1>6, ServiceKept, ServiceBecomes DEF CrCancel, Set
  <2> QED BY <1>6, <2>1 DEF CrCancel, Shape, Ending, Counted
<1>7. CASE CrCanceled
  <2>1. steady' = steady \cap Facts(remote')
    BY <1>7, ServiceBecomes DEF CrCanceled, Set
  <2> QED BY <1>7, <2>1 DEF CrCanceled, Shape, Ending, Counted
<1>8. CASE CrMonitor
  <2>1. steady' = steady \cap Facts(remote')
    BY <1>8, ServiceBecomes DEF CrMonitor, Set
  <2> QED BY <1>8, <2>1 DEF CrMonitor, Shape, Ending, Counted
<1>9. CASE CrWorker
  <2>1. steady' = steady \cap Facts(remote')
    BY <1>9, ServiceBecomes DEF CrWorker, Set
  <2> QED BY <1>9, <2>1 DEF CrWorker, Shape, Ending, Counted
<1>10. CASE CrStop
  <2>1. steady' = steady \cap Facts(remote')
    BY <1>10, ServiceBecomes DEF CrStop, Set
  <2> QED BY <1>10, <2>1 DEF CrStop, Shape, Ending, Counted
<1> QED BY <1>1, <1>2, <1>3, <1>4, <1>5, <1>6, <1>7, <1>8, <1>9, <1>10 DEF CrAct, CrNext, CrBeside

CrLooks == /\ DOMAIN remote' = DOMAIN remote /\ CrStarted' = CrStarted
           /\ CrRunning' = CrRunning /\ remote'["tag"] = remote["tag"]

(* Setting the status of the Dagster run touches no execution.             *)
LEMMA CrSetRun ==
  ASSUME CrTyped, NEW s, Set("run", s) \/ UNCHANGED service
  PROVE  CrLooks /\ (Set("run", s) => remote'["run"] = s)
<1>1. CASE UNCHANGED service
  BY <1>1 DEF service, CrLooks, CrStarted, CrRunning, Set, Becomes, CrTyped
<1>2. CASE Set("run", s)
  <2>1. remote' = [remote EXCEPT !["run"] = s]
    BY <1>2 DEF Set, Becomes
  <2>2. \A x \in CrExecutions \cup {"tag"} : remote'[x] = remote[x]
    BY <2>1, CrAssumption DEF CrTyped
  <2> QED BY <2>1, <2>2 DEF CrLooks, CrStarted, CrRunning, CrTyped
<1> QED BY <1>1, <1>2

(* The first execution to start is the only one.                           *)
LEMMA CrBegun ==
  ASSUME CrTyped, NEW x \in CrExecutions, NEW r, CrStarted = {}, Becomes(r),
         \/ r = [remote EXCEPT ![x] = "running"]
         \/ r = [remote EXCEPT ![x] = "running", !["run"] = "failed"]
  PROVE  DOMAIN remote' = DOMAIN remote /\ CrStarted' = {x} /\ remote'["tag"] = remote["tag"]
<1>1. \A y \in CrExecutions : remote[y] = "none"
  BY DEF CrStarted
<1>2. DOMAIN remote' = DOMAIN remote /\ remote'["tag"] = remote["tag"] /\ remote'[x] = "running"
       /\ \A y \in CrExecutions : y # x => remote'[y] = remote[y]
  BY CrAssumption DEF CrTyped, Becomes
<1> QED BY <1>1, <1>2 DEF CrStarted

(* Every step of a Cloud Run launch keeps its invariant.                   *)
LEMMA CrStep ==
  ASSUME Base, CrInv, CrAct
  PROVE  CrInv'
<1> USE CrAssumption DEF Goto, Return, Raise, NoTrouble, Miss, Trouble, troubles, CrFailed, CrKept, Cr
<1>0. CrTyped /\ CrOne /\ CrTagged /\ CrOver /\ Ending /\ Counted
  BY DEF CrInv, Base
<1>r. CrRunning \subseteq CrStarted
  BY DEF CrRunning, CrStarted
<1>1. CASE CrJob
  <2>1. CrLooks
    BY <1>0, <1>1, CrSetRun DEF CrJob
  <2>2. /\ at = "launch" /\ at' \in {"environment", "launched"} /\ told' = told /\ missed' = missed
    BY <1>1 DEF CrJob
  <2> QED BY <1>0, <2>1, <2>2 DEF CrInv, CrTyped, CrOne, CrTagged, CrOver, CrLooks, Ending
<1>2. CASE CrEnvironment
  <2>1. CrLooks
    BY <1>0, <1>2, CrSetRun DEF CrEnvironment
  <2>2. /\ at = "environment" /\ at' \in {"run job", "launched"} /\ told' = told
    BY <1>2 DEF CrEnvironment
  <2> QED BY <1>0, <2>1, <2>2 DEF CrInv, CrTyped, CrOne, CrTagged, CrOver, CrLooks, Ending
<1>3. CASE CrExecute
  <2>0. CrStarted = {} /\ remote["tag"] = "none" /\ told = "none" /\ told' = told /\ at = "run job"
    BY <1>0, <1>3 DEF CrExecute, CrOne, Ending, CrStarted
  <2>1. CASE \E x \in CrExecutions : /\ remote[x] = "none" /\ Set(x, "running")
                                     /\ at' = "tag" /\ left' = <<x>> /\ NoTrouble
    <3>1. PICK x \in CrExecutions : /\ remote[x] = "none" /\ Set(x, "running")
                                    /\ at' = "tag" /\ left' = <<x>> /\ NoTrouble
      BY <2>1
    <3>2. CrStarted' = {x} /\ DOMAIN remote' = DOMAIN remote /\ remote'["tag"] = remote["tag"]
      BY <1>0, <2>0, <3>1, CrBegun DEF Set
    <3> QED BY <1>0, <2>0, <3>1, <3>2 DEF CrInv, CrTyped, CrOne, CrTagged, CrOver
  <2>2. CASE Trouble /\ UNCHANGED <<missed, service, at, left>>
    <3>1. CrLooks
      BY <1>0, <2>2, CrSetRun
    <3> QED BY <1>0, <2>0, <2>2, <3>1 DEF CrInv, CrTyped, CrOne, CrTagged, CrOver, CrLooks
  <2>3. CASE Miss /\ CrFailed /\ Set("run", "failed")
    <3>1. CrLooks
      BY <1>0, <2>3, CrSetRun
    <3> QED BY <1>0, <2>0, <2>3, <3>1 DEF CrInv, CrTyped, CrOne, CrTagged, CrOver, CrLooks
  <2>4. CASE /\ Miss /\ CrFailed
             /\ \E x \in CrExecutions : /\ remote[x] = "none"
                  /\ Becomes([remote EXCEPT ![x] = "running", !["run"] = "failed"])
    <3>1. PICK x \in CrExecutions : Becomes([remote EXCEPT ![x] = "running", !["run"] = "failed"])
      BY <2>4
    <3>2. CrStarted' = {x} /\ DOMAIN remote' = DOMAIN remote /\ remote'["tag"] = remote["tag"]
      BY <1>0, <2>0, <3>1, CrBegun
    <3>3. missed' # 0 /\ at' = "launched"
      BY <1>0, <2>4 DEF Counted
    <3> QED BY <1>0, <2>0, <3>2, <3>3 DEF CrInv, CrTyped, CrOne, CrTagged, CrOver
  <2> QED BY <1>3, <2>1, <2>2, <2>3, <2>4 DEF CrExecute
<1>4. CASE CrTag
  <2>0. left[1] \in CrStarted /\ left[1] \in CrExecutions /\ told = "none" /\ told' = "none" /\ at' = "launched"
         /\ CrStarted \subseteq {left[1]} /\ remote["tag"] = "none"
    BY <1>0, <1>4 DEF CrTag, CrOne, Ending, CrStarted
  <2>1. CASE Set("tag", left[1]) /\ NoTrouble
    <3>1. remote' = [remote EXCEPT !["tag"] = left[1]]
      BY <2>1 DEF Set, Becomes
    <3>2. \A x \in CrExecutions : remote'[x] = remote[x]
      BY <1>0, <3>1 DEF CrTyped
    <3>3. CrStarted' = CrStarted /\ remote'["tag"] = left[1] /\ DOMAIN remote' = DOMAIN remote
      BY <1>0, <3>1, <3>2 DEF CrStarted, CrTyped
    <3>4. left[1] # "none"
      BY <2>0
    <3> QED BY <1>0, <2>0, <2>1, <3>3, <3>4 DEF CrInv, CrTyped, CrOne, CrTagged, CrOver
  <2>2. CASE Miss /\ (Set("run", "failed") \/ UNCHANGED service)
    <3>1. CrLooks
      BY <1>0, <2>2, CrSetRun
    <3>2. missed' # 0
      BY <1>0, <2>2 DEF Counted
    <3> QED BY <1>0, <2>0, <3>1, <3>2 DEF CrInv, CrTyped, CrOne, CrTagged, CrOver, CrLooks
  <2> QED BY <1>4, <2>1, <2>2 DEF CrTag
<1>5. CASE CrTerminate
  <2>1. CrLooks
    BY <1>0, <1>5, CrSetRun DEF CrTerminate
  <2>2. /\ at = "launched" /\ missed' = missed /\ left' = left
        /\ \/ at' = "ended" /\ told' = "returned" /\ answer' = FALSE /\ remote["tag"] = "none"
           \/ at' = "cancel" /\ told' = told /\ remote["tag"] # "none"
    BY <1>5 DEF CrTerminate
  <2>3. missed = 0 /\ remote["tag"] = "none" => CrRunning = {}
    BY <1>0, <1>r, <2>2 DEF CrTagged
  <2> QED BY <1>0, <2>1, <2>2, <2>3 DEF CrInv, CrTyped, CrOne, CrTagged, CrOver, CrLooks, Ending
<1>6. CASE CrCancel
  <2>0. remote["tag"] \in CrStarted /\ remote["tag"] \in CrExecutions /\ CrStarted \subseteq {remote["tag"]} /\ told = "none"
         /\ at = "cancel"
    BY <1>0, <1>6 DEF CrCancel, CrOne, Ending, CrStarted
  <2>1. CASE Set(remote["tag"], "cancelling")
    <3>1. remote' = [remote EXCEPT ![remote["tag"]] = "cancelling"]
      BY <2>1 DEF Set, Becomes
    <3>2. remote'["tag"] = remote["tag"] /\ DOMAIN remote' = DOMAIN remote /\ remote'[remote["tag"]] = "cancelling"
           /\ \A x \in CrExecutions : x # remote["tag"] => remote'[x] = remote[x]
      BY <1>0, <2>0, <3>1 DEF CrTyped
    <3>3. CrStarted' = CrStarted
      BY <2>0, <3>2 DEF CrStarted
    <3>4. CrRunning' = {}
      BY <2>0, <3>2 DEF CrStarted, CrRunning
    <3>5. \/ at' = "canceled" /\ told' = told
          \/ at' = "ended" /\ (told' = "raised" \/ answer' = FALSE)
      BY <1>6, <2>0 DEF CrCancel
    <3> QED BY <1>0, <2>0, <3>2, <3>3, <3>4, <3>5 DEF CrInv, CrTyped, CrOne, CrTagged, CrOver
  <2>2. CASE UNCHANGED service
    <3>1. CrLooks
      BY <1>0, <2>2, CrSetRun
    <3>2. remote[remote["tag"]] # "running" => CrRunning = {}
      BY <2>0, <1>r DEF CrRunning
    <3>3. remote[remote["tag"]] # "running" \/ missed' # 0
      <4>1. CASE Set(remote["tag"], "cancelling")
        BY <2>0, <2>2, <4>1, <1>0 DEF service, Set, Becomes, CrTyped
      <4>2. CASE missed' = missed + 1
        BY <1>0, <4>2 DEF Counted
      <4> QED BY <1>6, <4>1, <4>2 DEF CrCancel
    <3>4. \/ at' = "canceled" /\ told' = told /\ remote[remote["tag"]] # "running"
          \/ at' = "ended" /\ (told' = "raised" \/ answer' = FALSE)
      <4>1. CASE Set(remote["tag"], "cancelling")
        BY <1>6, <2>0, <2>2, <4>1, <1>0 DEF service, Set, Becomes, CrTyped, CrCancel
      <4> QED BY <1>6, <4>1 DEF CrCancel
    <3> QED BY <1>0, <2>0, <3>1, <3>2, <3>3, <3>4 DEF CrInv, CrTyped, CrOne, CrTagged, CrOver, CrLooks
  <2> QED BY <1>6, <2>0, <2>1, <2>2 DEF CrCancel
<1>7. CASE CrCanceled
  <2>1. CrLooks /\ remote'["run"] = "canceled"
    BY <1>0, <1>7, CrSetRun DEF CrCanceled
  <2>2. at = "canceled" /\ at' = "ended" /\ answer' = TRUE
    BY <1>7 DEF CrCanceled
  <2> QED BY <1>0, <2>1, <2>2 DEF CrInv, CrTyped, CrOne, CrTagged, CrOver, CrLooks
<1>8. CASE CrMonitor
  <2>1. CrLooks
    BY <1>0, <1>8, CrSetRun DEF CrMonitor
  <2>2. at = "launched" /\ at' = at /\ told' = told /\ missed' = missed /\ left' = left
    BY <1>8 DEF CrMonitor
  <2> QED BY <1>0, <2>1, <2>2 DEF CrInv, CrTyped, CrOne, CrTagged, CrOver, CrLooks, Ending
<1>9. CASE CrWorker
  <2>1. PICK x \in CrRunning, s \in {"succeeded", "failed"} : Set(x, s)
    BY <1>9 DEF CrWorker
  <2>2. x \in CrExecutions /\ remote[x] = "running" /\ remote' = [remote EXCEPT ![x] = s]
    BY <2>1 DEF CrRunning, Set, Becomes
  <2>3. remote'["tag"] = remote["tag"] /\ DOMAIN remote' = DOMAIN remote /\ remote'[x] = s
         /\ \A y \in CrExecutions : y # x => remote'[y] = remote[y]
    BY <1>0, <2>2 DEF CrTyped
  <2>4. CrStarted' = CrStarted
    BY <2>2, <2>3 DEF CrStarted
  <2>5. CrRunning' \subseteq CrRunning
    BY <2>2, <2>3 DEF CrRunning
  <2>6. at # "ended" /\ at' = at /\ told' = told /\ missed' = missed /\ left' = left
    BY <1>9 DEF CrWorker
  <2> QED BY <1>0, <2>3, <2>4, <2>5, <2>6 DEF CrInv, CrTyped, CrOne, CrTagged, CrOver, Ending
<1>10. CASE CrStop
  <2>1. PICK x \in CrExecutions, s \in {"cancelled", "succeeded", "failed"} :
          remote[x] = "cancelling" /\ Set(x, s)
    BY <1>10 DEF CrStop
  <2>2. remote' = [remote EXCEPT ![x] = s]
    BY <2>1 DEF Set, Becomes
  <2>3. /\ remote'["tag"] = remote["tag"] /\ remote'["run"] = remote["run"]
        /\ DOMAIN remote' = DOMAIN remote /\ remote'[x] = s
        /\ \A y \in CrExecutions : y # x => remote'[y] = remote[y]
    BY <1>0, <2>2 DEF CrTyped
  <2>4. CrStarted' = CrStarted
    BY <2>1, <2>3 DEF CrStarted
  <2>5. CrRunning' \subseteq CrRunning
    BY <2>1, <2>3 DEF CrRunning
  <2>6. at' = at /\ told' = told /\ missed' = missed /\ left' = left /\ answer' = answer
    BY <1>10 DEF CrStop
  <2> QED BY <1>0, <2>3, <2>4, <2>5, <2>6 DEF CrInv, CrTyped, CrOne, CrTagged, CrOver
<1> QED BY <1>1, <1>2, <1>3, <1>4, <1>5, <1>6, <1>7, <1>8, <1>9, <1>10 DEF CrAct, CrNext, CrBeside

(* At most one execution is started.                                       *)
LEMMA CrSize ==
  ASSUME CrInv
  PROVE  Cardinality(CrStarted) \in {0, 1}
<1>1. CASE CrStarted = {}
  BY <1>1, FS_EmptySet
<1>2. ASSUME NEW x \in CrStarted
      PROVE  Cardinality(CrStarted) = 1
  <2>1. CrStarted = {x}
    BY DEF CrInv, CrOne
  <2> QED BY <2>1, FS_Singleton
<1> QED BY <1>1, <1>2

(* What the invariant says of a Cloud Run launch that has ended.           *)
LEMMA CrMeans ==
  ASSUME Base, CrInv
  PROVE  (told = "returned" => CrDone) /\ (told # "none" => CrNoStrays)
<1>1. CrOver /\ Ending /\ Counted
  BY DEF CrInv, Base
<1>2. told = "returned" => CrDone
  BY <1>1 DEF CrOver, CrDone
<1> QED BY <1>1, <1>2, CrSize DEF CrOver, CrNoStrays, CrStarted, Ending, Counted

------------------------------------------------------------------------------
(***************************************************************************)
(* ComputeCluster: each operation leaves the cluster in the state it is    *)
(* for.                                                                    *)
(***************************************************************************)
CcAct == CcNext \/ CcTimer \/ CcProgress \/ CcOthers

CcTyped ==
  /\ remote \in [lake: {"yes", "no"}, group: {"none", "there"}, profile: {"none"} \cup CcStates,
                 timer: {"set", "passed"}]
  /\ at \in {"verify", "group?", "create group", "profile?", "create profile", "drop profile",
             "drop group", "state?", "alter", "poll", "ended"}
  /\ call.op = "drop" => at \in {"verify", "drop profile", "drop group", "ended"}
  /\ call.op # "drop" => at \notin {"drop profile", "drop group"}
  /\ at = "drop group" => call.dropGroup
(* A profile that was dropped was not there all the while. *)
CcDropped == at = "drop group" => CcSteady = {}
CcInv == CcTyped /\ CcDropped /\ (told = "returned" => CcDone)

(* A compute cluster call begins with its invariant.                       *)
LEMMA CcInitial ==
  ASSUME CcBegin
  PROVE  Base /\ CcInv /\ call.client = "compute cluster"
<1>1. PICK c \in Calls, r \in CcDb : c.client = "compute cluster" /\ Begin(c, "verify", << >>, r)
  BY DEF CcBegin
<1>2. Base
  BY <1>1, BeginBase
<1>3. r \in [lake: {"yes", "no"}, group: {"none", "there"}, profile: {"none"} \cup CcStates,
             timer: {"set", "passed"}]
  BY DEF CcDb
<1>4. CcInv
  BY <1>1, <1>3 DEF CcInv, CcTyped, CcDropped, Begin
<1> QED BY <1>1, <1>2, <1>4 DEF Begin

(* Each step of a call, as its service and its place see it. *)
LEMMA CcShape ==
  ASSUME Base, CcInv, CcAct
  PROVE  Shape /\ call.client = "compute cluster"
<1> USE DEF Base, Goto, Return, Raise, NoTrouble, Miss, Trouble, troubles, CcKept, Cc, CcFails
<1>1. CASE CcVerify
  <2>1. steady' = steady \cap Facts(remote')
    BY <1>1, ServiceKept, ServiceBecomes DEF CcVerify
  <2> QED BY <1>1, <2>1 DEF CcVerify, Shape, Ending, Counted
<1>2. CASE CcGroup
  <2>1. steady' = steady \cap Facts(remote')
    BY <1>2, ServiceKept, ServiceBecomes DEF CcGroup, Set
  <2> QED BY <1>2, <2>1 DEF CcGroup, Shape, Ending, Counted
<1>3. CASE CcProfile
  <2>1. steady' = steady \cap Facts(remote')
    BY <1>3, ServiceKept, ServiceBecomes DEF CcProfile, Set
  <2> QED BY <1>3, <2>1 DEF CcProfile, Shape, Ending, Counted
<1>4. CASE CcDrop
  <2>1. steady' = steady \cap Facts(remote')
    BY <1>4, ServiceKept, ServiceBecomes DEF CcDrop, Set
  <2> QED BY <1>4, <2>1 DEF CcDrop, Shape, Ending, Counted
<1>5. CASE CcResume \/ CcSuspend
  <2>1. steady' = steady \cap Facts(remote')
    BY <1>5, ServiceKept, ServiceBecomes DEF CcResume, CcSuspend, CcAlter
  <2> QED BY <1>5, <2>1 DEF CcResume, CcSuspend, CcAlter, Shape, Ending, Counted
<1>6. CASE CcPoll
  <2>1. steady' = steady \cap Facts(remote')
    BY <1>6, ServiceKept, ServiceBecomes DEF CcPoll
  <2>2. /\ at = "poll" /\ call' = call
        /\ \/ at' = at /\ told' = told
           \/ told' \in {"returned", "raised"} /\ at' = "ended"
        /\ \/ faults' = faults /\ missed' = missed
           \/ faults' = faults + 1 /\ missed' = missed + 1
    BY <1>6 DEF CcPoll, CcRead, CcInv, CcTyped
  <2> QED BY <1>6, <2>1, <2>2 DEF CcPoll, Shape, Ending, Counted
<1>7. CASE CcTimer \/ CcProgress
  <2>1. steady' = steady \cap Facts(remote')
    BY <1>7, ServiceBecomes DEF CcTimer, CcProgress, Set
  <2> QED BY <1>7, <2>1 DEF CcTimer, CcProgress, CcMind, Shape, Ending, Counted
<1>8. CASE CcOthers
  <2>1. \E r : Others(r)
    BY <1>8 DEF CcOthers
  <2>2. steady' = steady \cap Facts(remote')
    BY <2>1, ServiceBecomes DEF Others
  <2> QED BY <1>8, <2>1, <2>2 DEF CcOthers, Others, Shape, Ending, Counted
<1> QED BY <1>1, <1>2, <1>3, <1>4, <1>5, <1>6, <1>7, <1>8 DEF CcAct, CcNext

(* Every step keeps the types.                                             *)
LEMMA CcTypes ==
  ASSUME Base, CcInv, CcAct
  PROVE  CcTyped'
<1> USE DEF Base, Goto, Return, Raise, Cc, CcFails, Set, Becomes, service, CcStates, CcKept
<1>0. CcTyped /\ Ending /\ call' = call
  BY CcShape DEF CcInv, Shape
<1>1. CASE CcVerify
  BY <1>0, <1>1 DEF CcVerify, CcTyped
<1>2. CASE CcGroup
  BY <1>0, <1>2 DEF CcGroup, CcTyped
<1>3. CASE CcProfile
  BY <1>0, <1>3 DEF CcProfile, CcTyped
<1>4. CASE CcDrop
  BY <1>0, <1>4 DEF CcDrop, CcTyped
<1>5. CASE CcResume \/ CcSuspend
  BY <1>0, <1>5 DEF CcResume, CcSuspend, CcAlter, CcTyped
<1>6. CASE CcPoll
  BY <1>0, <1>6 DEF CcPoll, CcRead, CcTyped
<1>7. CASE CcTimer \/ CcProgress
  BY <1>0, <1>7 DEF CcTimer, CcProgress, CcGoal, CcTyped
<1>8. CASE CcOthers
  <2>1. at' = at
    BY <1>8 DEF CcOthers, Others
  <2>2. remote' \in [lake: {"yes", "no"}, group: {"none", "there"}, profile: {"none"} \cup CcStates,
                     timer: {"set", "passed"}]
    BY <1>0, <1>8 DEF CcOthers, Others, CcTyped
  <2> QED BY <1>0, <2>1, <2>2 DEF CcTyped
<1> QED BY <1>1, <1>2, <1>3, <1>4, <1>5, <1>6, <1>7, <1>8 DEF CcAct, CcNext

(* Every step of a compute cluster call keeps its invariant.               *)
LEMMA CcStep ==
  ASSUME Base, CcInv, CcAct
  PROVE  CcInv'
<1> USE DEF Goto, Return, Raise, Cc, CcFails, CcKept
<1>0. CcTyped /\ CcTyped' /\ CcDropped /\ Ending /\ (told = "returned" => CcDone)
  BY CcTypes DEF CcInv, Base
<1>1. Shape /\ Base' /\ steady' \subseteq steady /\ steady' \subseteq Facts(remote') /\ call' = call
  BY CcShape, ShapeBase DEF Base, Known, Shape
<1>2. CcSteady' \subseteq CcSteady /\ CcGoal' = CcGoal
  BY <1>1 DEF CcSteady, CcGoal
<1>n. \A v : remote'.profile # v => <<"profile", v>> \notin steady'
  <2> SUFFICES ASSUME NEW v, remote'.profile # v PROVE <<"profile", v>> \notin steady'
    OBVIOUS
  <2> QED BY <1>1, NotSteady
<1>3. ASSUME told' = told, answer' = answer \/ told # "returned", at = "drop group" \/ at' # "drop group"
      PROVE  CcInv'
  <2>1. CcDropped'
    BY <1>0, <1>2, <1>3 DEF CcDropped
  <2>2. told' = "returned" => CcDone'
    <3> SUFFICES ASSUME told = "returned" PROVE CcDone'
      BY <1>3
    <3>1. CcDone /\ answer' = answer /\ call' = call
      BY <1>0, <1>1, <1>3
    <3>2. CASE call.op = "drop"
      BY <1>1, <1>2, <3>1, <3>2 DEF CcDone
    <3>3. CASE call.op = "create" /\ answer \in CcStates
      BY <1>1, <3>1, <3>3 DEF CcDone, CcStates
    <3>4. CASE call.op # "drop" /\ answer = "success"
      BY <1>1, <1>2, <3>1, <3>4 DEF CcDone, CcStates
    <3>5. CASE call.op # "drop" /\ ~(call.op = "create" /\ answer \in CcStates) /\ answer # "success"
      BY <3>1, <3>5 DEF CcDone
    <3> QED BY <3>2, <3>3, <3>4, <3>5
  <2> QED BY <1>0, <2>1, <2>2 DEF CcInv
<1>4. ASSUME told' = "raised", at' # "drop group"
      PROVE  CcInv'
  BY <1>0, <1>4 DEF CcInv, CcDropped
<1>5. CASE CcVerify
  BY <1>0, <1>3, <1>4, <1>5 DEF CcVerify
<1>6. CASE CcGroup
  BY <1>0, <1>3, <1>4, <1>6 DEF CcGroup
<1>7. CASE CcProfile
  <2>1. CASE Cc("profile?") /\ UNCHANGED service /\ remote.profile # "none" /\ Return(remote.profile)
    <3>1. answer' = remote'.profile /\ call.op # "drop" /\ remote'.profile # "none"
      BY <1>0, <2>1 DEF service, CcTyped
    <3>2. <<"profile", "none">> \notin steady'
      BY <1>n, <3>1
    <3>3. answer' # "success"
      BY <1>0, <3>1 DEF CcTyped, CcStates
    <3>4. CcDone'
      BY <1>1, <3>1, <3>2, <3>3 DEF CcDone
    <3> QED BY <1>0, <2>1, <3>4 DEF CcInv, CcDropped
  <2> QED BY <1>0, <1>3, <1>4, <1>7, <2>1 DEF CcProfile
<1>8. CASE CcDrop
  <2>1. CASE /\ Cc("drop profile") /\ Set("profile", "none")
             /\ IF call.dropGroup THEN Goto("drop group") ELSE Return("dropped")
    <3>1. remote'.profile = "none" /\ call.op = "drop"
      BY <1>0, <2>1 DEF Set, Becomes, CcTyped
    <3>2. CcSteady' = {}
      BY <1>n, <3>1 DEF CcSteady, CcStates
    <3>3. CcDone' \/ call.dropGroup
      BY <1>1, <3>1, <3>2 DEF CcDone
    <3>4. told' = told \/ ~call.dropGroup
      BY <2>1
    <3>5. told # "returned"
      BY <1>0, <2>1 DEF Ending
    <3> QED BY <1>0, <3>2, <3>3, <3>4, <3>5 DEF CcInv, CcDropped
  <2>2. CASE Cc("drop group") /\ Set("group", "none") /\ Return("dropped")
    <3>1. remote'["group"] = "none" /\ CcSteady' = {} /\ call.op = "drop"
      BY <1>0, <1>2, <2>2 DEF Set, Becomes, CcTyped, CcDropped
    <3>2. <<"group", "there">> \notin steady'
      BY <1>1, <3>1, NotSteady
    <3>3. CcDone'
      BY <1>1, <3>1, <3>2 DEF CcDone
    <3> QED BY <1>0, <3>1, <3>3 DEF CcInv, CcDropped
  <2> QED BY <1>0, <1>3, <1>4, <1>8, <2>1, <2>2 DEF CcDrop
<1>9. CASE CcResume \/ CcSuspend
  BY <1>0, <1>3, <1>4, <1>9 DEF CcResume, CcSuspend, CcAlter
<1>10. CASE CcPoll
  <2>1. call.op # "drop" /\ at = "poll"
    BY <1>0, <1>10 DEF CcPoll, CcTyped
  <2>2. CASE Return("missing") \/ Return("timeout")
    <3>1. CcDone'
      BY <1>1, <2>1, <2>2 DEF CcDone, CcStates
    <3> QED BY <1>0, <2>2, <3>1 DEF CcInv, CcDropped
  <2>3. CASE Return("success") /\ UNCHANGED service /\ remote.profile = CcGoal
    <3>1. remote'.profile = CcGoal
      BY <2>3 DEF service
    <3>2. CcSteady' \subseteq {CcGoal}
      BY <1>n, <3>1 DEF CcSteady
    <3>3. CcDone'
      BY <1>1, <1>2, <2>1, <2>3, <3>2 DEF CcDone, CcStates
    <3> QED BY <1>0, <2>3, <3>3 DEF CcInv, CcDropped
  <2> QED BY <1>0, <1>3, <1>4, <1>10, <2>1, <2>2, <2>3 DEF CcPoll, CcRead, CcTyped
<1>11. CASE CcTimer \/ CcProgress
  BY <1>0, <1>3, <1>11 DEF CcTimer, CcProgress
<1>12. CASE CcOthers
  <2>1. told' = told /\ answer' = answer /\ at' = at
    BY <1>12 DEF CcOthers, Others
  <2> QED BY <1>3, <2>1
<1> QED BY <1>5, <1>6, <1>7, <1>8, <1>9, <1>10, <1>11, <1>12 DEF CcAct, CcNext

------------------------------------------------------------------------------
(***************************************************************************)
(* TeradataResource: each statement is carried out or left, and what is    *)
(* dropped was not there all the while.                                    *)
(***************************************************************************)
TdAct == TdNext \/ TdOthers

TdTyped ==
  /\ DOMAIN remote = TdTables \cup TdStatements
  /\ at \in {"connect", "query band", "work", "ended"}
  /\ left \in Seq(TdTables \cup TdStatements)
  /\ call.op \in TdOnTables \cup TdOnOne \cup {"execute_queries"}
  /\ call.op \in TdOnTables => Range(call.todo) \subseteq TdTables
  /\ call.op \notin TdOnTables => left \in Seq(TdStatements) /\ Range(call.todo) \subseteq TdStatements
  /\ call.op \in TdOnOne /\ told = "none" => Len(left) <= 1
(* Each name or statement was dealt with, or is left. *)
TdHandled(x) ==
  IF call.op \in TdOnTables THEN <<x, "there">> \notin steady /\ <<x, "held">> \notin steady
  ELSE x \in DOMAIN remote /\ remote[x] = "done"
TdLeft ==
  /\ call.op = "fetch_last_updated_timestamps" => left = call.todo
  /\ call.op = "execute_queries" /\ call.fetch /\ told # "returned" => left = call.todo
  /\ call.op # "fetch_last_updated_timestamps" =>
       \A x \in Range(call.todo) : x \in Range(left) \/ TdHandled(x)
TdInv == TdTyped /\ TdLeft /\ (told = "returned" => TdDone)

(* A Teradata call begins with its invariant.                              *)
LEMMA TdInitial ==
  ASSUME TdBegin
  PROVE  Base /\ TdInv /\ call.client = "teradata"
<1>1. PICK c \in Calls, there \in [TdTables -> {"there", "none", "held"}] :
        /\ c.client = "teradata"
        /\ Begin(c, "connect", c.todo,
             [x \in TdTables \cup TdStatements |-> IF x \in TdTables THEN there[x] ELSE "none"])
  BY DEF TdBegin
<1>2. Base
  BY <1>1, BeginBase
<1>3. /\ c.op \in TdOnTables => c.todo \in Seq(TdTables)
      /\ c.op \notin TdOnTables => c.todo \in Seq(TdStatements)
      /\ c.op \in TdOnTables \cup TdOnOne \cup {"execute_queries"}
      /\ c.op \in TdOnOne => Len(c.todo) <= 1
  BY <1>1, TdAssumption DEF TdOnTables, TdOnOne
<1>4. c.todo \in Seq(TdTables \cup TdStatements)
  <2>1. CASE c.op \in TdOnTables
    BY <1>3, <2>1
  <2>2. CASE c.op \notin TdOnTables
    BY <1>3, <2>2
  <2> QED BY <2>1, <2>2
<1>5. /\ c.op \in TdOnTables => Range(c.todo) \subseteq TdTables
      /\ c.op \notin TdOnTables => Range(c.todo) \subseteq TdStatements
  BY <1>3 DEF Range
<1>6. TdTyped
  BY <1>1, <1>3, <1>4, <1>5 DEF TdTyped, Begin
<1>7. TdLeft /\ told # "returned"
  BY <1>1 DEF TdLeft, Begin
<1> QED BY <1>1, <1>2, <1>6, <1>7 DEF TdInv, Begin

(* What every step of a Teradata call leaves alone, and what it may count. *)
LEMMA TdShape ==
  ASSUME Base, TdInv, TdAct
  PROVE  Shape /\ call.client = "teradata"
<1> USE DEF Base, Goto, Return, Raise, NoTrouble, Miss, Trouble, troubles, TdKept, Td, TdFails, TdStatement
<1>1. CASE TdConnect
  BY <1>1, ServiceKept DEF TdConnect, Shape, Ending, Counted
<1>2. CASE TdQueryBand
  BY <1>2, ServiceKept DEF TdQueryBand, Shape, Ending, Counted
<1>3. CASE TdQuery \/ TdQueries \/ TdLoad
  <2>1. steady' = steady \cap Facts(remote')
    BY <1>3, ServiceKept, ServiceBecomes DEF TdQuery, TdQueries, TdLoad, Set
  <2> QED BY <1>3, <2>1 DEF TdQuery, TdQueries, TdLoad, Shape, Ending, Counted
<1>4. CASE TdDropDatabase \/ TdDropTable
  <2>1. steady' = steady \cap Facts(remote')
    BY <1>4, ServiceKept, ServiceBecomes DEF TdDropDatabase, TdDropTable, TdDrop, Set
  <2> QED BY <1>4, <2>1 DEF TdDropDatabase, TdDropTable, TdDrop, Shape, Ending, Counted
<1>5. CASE TdTimestamps \/ TdReturn
  BY <1>5, ServiceKept DEF TdTimestamps, TdReturn, Shape, Ending, Counted
<1>6. CASE TdOthers
  <2>1. PICK r : Others(r)
    BY <1>6 DEF TdOthers
  <2>2. steady' = steady \cap Facts(remote')
    BY <2>1, ServiceBecomes DEF Others
  <2> QED BY <1>6, <2>1, <2>2 DEF TdOthers, Others, Shape, Ending, Counted
<1> QED BY <1>1, <1>2, <1>3, <1>4, <1>5, <1>6 DEF TdAct, TdNext

(* Every step of a Teradata call keeps its invariant.                      *)
LEMMA TdStep ==
  ASSUME Base, TdInv, TdAct
  PROVE  TdInv'
<1> USE DEF Goto, Return, Raise, Td, TdFails, TdKept
<1>0. TdTyped /\ TdLeft /\ Ending /\ (told = "returned" => TdDone)
  BY DEF TdInv, Base
<1>1. Shape /\ Base' /\ steady' \subseteq steady /\ steady' \subseteq Facts(remote') /\ call' = call
  BY TdShape, ShapeBase DEF Base, Known, Shape
<1>2. ASSUME told = "none", told' # "returned", UNCHANGED <<left, remote>>, at' \in {"query band", "work", "ended"}
      PROVE  TdInv'
  <2>1. \A x \in Range(call.todo) : TdHandled(x) => TdHandled(x)'
    BY <1>0, <1>1, <1>2 DEF TdHandled
  <2> QED BY <1>0, <1>1, <1>2, <2>1 DEF TdInv, TdTyped, TdLeft
<1>3. CASE TdConnect
  BY <1>0, <1>2, <1>3 DEF TdConnect, Ending, service
<1>4. CASE TdQueryBand
  BY <1>0, <1>2, <1>4 DEF TdQueryBand, Ending, service
<1>5. CASE TdQuery \/ TdQueries \/ TdLoad
  <2>0. /\ at = "work" /\ left # << >> /\ call.op \in TdOnOne \cup {"execute_queries"} /\ told = "none"
    BY <1>0, <1>5 DEF TdQuery, TdQueries, TdLoad, TdOnOne, Ending
  <2>1. CASE TdFails
    BY <1>2, <2>0, <2>1 DEF service
  <2>2. CASE TdStatement
    <3>1. call.op \notin TdOnTables /\ left \in Seq(TdStatements)
      BY <1>0, <2>0 DEF TdOnTables, TdOnOne, TdTyped
    <3>2. /\ Head(left) \in TdStatements /\ Tail(left) \in Seq(TdStatements)
          /\ Range(left) = {Head(left)} \cup Range(Tail(left)) /\ Len(Tail(left)) = Len(left) - 1 /\ Len(left) \in Nat \ {0}
      BY <2>0, <3>1, HeadTail
    <3>3. /\ DOMAIN remote' = DOMAIN remote /\ remote'[Head(left)] = "done" /\ Head(left) \in DOMAIN remote
          /\ \A y \in DOMAIN remote : y # Head(left) => remote'[y] = remote[y]
      BY <1>0, <2>2, <3>2 DEF TdStatement, Set, Becomes, TdTyped
    <3>4. left' = Tail(left) /\ left' \in Seq(TdStatements) /\ left' \in Seq(TdTables \cup TdStatements)
      BY <2>2, <3>2 DEF TdStatement
    <3>5. \A x \in Range(call.todo) : x \in Range(left)' \/ TdHandled(x)'
      <4> SUFFICES ASSUME NEW x \in Range(call.todo), x \notin Range(left')
                   PROVE  TdHandled(x)'
        BY DEF Range
      <4>1. CASE x = Head(left)
        BY <1>1, <3>1, <3>3, <4>1 DEF TdHandled
      <4>2. CASE x # Head(left)
        <5>1. TdHandled(x)
          BY <1>0, <3>1, <3>2, <3>4, <4>2 DEF TdLeft, TdOnTables
        <5> QED BY <1>1, <3>1, <3>3, <4>2, <5>1 DEF TdHandled
      <4> QED BY <4>1, <4>2
    <3>6. at' \in {"work", "ended"}
      BY <1>5, <2>0 DEF TdQuery, TdQueries, TdLoad
    <3>7. TdLeft'
      <4>1. call.op = "execute_queries" /\ call.fetch => told' = "returned"
        <5>a. PICK n \in Nat : n = Len(left)
          BY <3>2
        <5>b. Len(left') = n - 1
          BY <3>2, <3>4, <5>a
        <5>c. n - 1 # n
          BY <5>a, SMT
        <5>1. left' # left
          BY <5>a, <5>b, <5>c
        <5> QED BY <1>5, <2>2, <5>1 DEF TdQuery, TdQueries, TdLoad, TdOnOne
      <4> QED BY <1>1, <3>1, <3>5, <4>1 DEF TdLeft, TdOnTables
    <3>8. TdTyped'
      <4>1. call.op \in TdOnOne => Len(left') <= 1
        BY <1>0, <2>0, <3>2, <3>4 DEF TdTyped
      <4> QED BY <1>0, <1>1, <3>1, <3>3, <3>4, <3>6, <4>1 DEF TdTyped
    <3>9. ASSUME told' = "returned" PROVE TdDone'
      <4>1. CASE call.op = "execute_queries"
        <5>1. call.fetch
          BY <1>5, <2>0, <2>2, <3>9, <4>1 DEF TdQuery, TdQueries, TdLoad
        <5>2. \A x \in {y \in {call.todo[i] : i \in DOMAIN call.todo} : y = call.todo[1]} : remote'[x] = "done"
          BY <1>0, <2>0, <3>3, <4>1, <5>1 DEF TdLeft
        <5> QED BY <1>1, <4>1, <5>1, <5>2 DEF TdDone, TdRun
      <4>2. CASE call.op \in TdOnOne
        <5>1. Len(left') = 0
          BY <1>0, <2>0, <3>2, <3>4, <4>2 DEF TdTyped
        <5>2. Range(left') = {}
          BY <3>4, <5>1 DEF Range
        <5>3. \A x \in Range(call.todo) : TdHandled(x)'
          BY <3>5, <5>2 DEF Range
        <5>4. \A x \in Range(call.todo) : remote'[x] = "done"
          BY <1>1, <3>1, <5>3 DEF TdHandled
        <5> QED BY <1>1, <3>1, <4>2, <5>4 DEF TdDone, TdRun, TdOnTables, TdOnOne, Range
      <4> QED BY <2>0, <4>1, <4>2
    <3> QED BY <3>7, <3>8, <3>9 DEF TdInv
  <2> QED BY <1>5, <2>1, <2>2 DEF TdQuery, TdQueries, TdLoad
<1>6. CASE TdDropDatabase \/ TdDropTable
  <2>0. /\ at = "work" /\ left # << >> /\ call.op \in {"drop_database", "drop_table"} /\ told = "none"
        /\ call.op \in TdOnTables
    BY <1>0, <1>6 DEF TdDropDatabase, TdDropTable, TdDrop, Ending, TdOnTables
  <2>1. CASE Raise /\ UNCHANGED <<left, service>>
    BY <1>2, <2>0, <2>1 DEF service
  <2>2. CASE left' = Tail(left) /\ Goto(at) /\ (Set(Head(left), "none") \/ (remote[Head(left)] = "none" /\ UNCHANGED service))
    <3>2. /\ Head(left) \in TdTables \cup TdStatements /\ Tail(left) \in Seq(TdTables \cup TdStatements)
          /\ Range(left) = {Head(left)} \cup Range(Tail(left)) /\ Len(Tail(left)) = Len(left) - 1 /\ Len(left) \in Nat \ {0}
      BY <1>0, <2>0, HeadTail DEF TdTyped
    <3>3. DOMAIN remote' = DOMAIN remote /\ remote'[Head(left)] = "none"
      BY <1>0, <2>2, <3>2 DEF Set, Becomes, service, TdTyped
    <3>4. PICK h : h = Head(left)
      OBVIOUS
    <3>5. TdHandled(h)'
      <4>1. remote'[h] # "there" /\ remote'[h] # "held"
        BY <3>3, <3>4
      <4>2. <<h, "there">> \notin steady' /\ <<h, "held">> \notin steady'
        BY <1>1, <4>1, NotSteady
      <4> QED BY <1>1, <2>0, <4>2 DEF TdHandled
    <3>6. \A x \in Range(call.todo) : TdHandled(x) => TdHandled(x)'
      BY <1>1, <2>0 DEF TdHandled
    <3>7. TdLeft'
      <4> SUFFICES ASSUME NEW x \in Range(call.todo), x \notin Range(left')
                   PROVE  TdHandled(x)'
        BY <1>1, <2>0 DEF TdLeft, Range
      <4> QED BY <1>0, <2>0, <2>2, <3>2, <3>4, <3>5, <3>6 DEF TdLeft
    <3>8. TdTyped'
      BY <1>0, <1>1, <2>0, <2>2, <3>2, <3>3 DEF TdTyped, TdOnOne
    <3> QED BY <2>0, <2>2, <3>7, <3>8 DEF TdInv
  <2> QED BY <1>6, <2>0, <2>1, <2>2 DEF TdDropDatabase, TdDropTable, TdDrop
<1>7. CASE TdTimestamps
  <2>0. at = "work" /\ call.op = "fetch_last_updated_timestamps" /\ told = "none" /\ left = call.todo
         /\ UNCHANGED <<left, service>>
    BY <1>0, <1>7 DEF TdTimestamps, TdLeft, Ending
  <2>1. CASE told' = "raised"
    BY <1>2, <1>7, <2>0, <2>1 DEF TdTimestamps, service
  <2>2. CASE Return(left) /\ \A i \in DOMAIN left : remote[left[i]] # "none"
    <3>1. \A x \in Range(call.todo) : <<x, "none">> \notin steady'
      <4> SUFFICES ASSUME NEW i \in DOMAIN left PROVE <<left[i], "none">> \notin steady'
        BY <2>0 DEF Range
      <4>1. remote'[left[i]] # "none"
        BY <2>0, <2>2 DEF service
      <4> QED BY <1>1, <4>1, NotSteady
    <3>2. TdDone'
      BY <1>1, <2>0, <3>1 DEF TdDone, TdRun, Range
    <3> QED BY <1>0, <1>1, <2>0, <2>2, <3>2 DEF TdInv, TdTyped, TdLeft, service
  <2> QED BY <1>7, <2>1, <2>2 DEF TdTimestamps
<1>8. CASE TdReturn
  <2>0. at = "work" /\ left = << >> /\ call.op # "fetch_last_updated_timestamps" /\ told' = "returned"
         /\ UNCHANGED <<left, remote, steady>> /\ at' = "ended"
    BY <1>8 DEF TdReturn, service
  <2>1. \A x \in Range(call.todo) : TdHandled(x)
    BY <1>0, <2>0 DEF TdLeft, Range
  <2>2. TdLeft'
    BY <1>0, <1>1, <2>0, <2>1 DEF TdLeft, TdHandled
  <2>3. TdDone'
    BY <1>0, <1>1, <2>0, <2>1 DEF TdDone, TdRun, TdHandled, TdTyped, TdOnTables, TdOnOne, Range
  <2> QED BY <1>0, <1>1, <2>0, <2>2, <2>3 DEF TdInv, TdTyped
<1>9. CASE TdOthers
  <2>1. PICK x \in TdTables : Others([remote EXCEPT ![x] = IF remote[x] = "none" THEN "there" ELSE "none"])
    BY <1>9 DEF TdOthers
  <2>2. /\ DOMAIN remote' = DOMAIN remote /\ UNCHANGED <<at, left, told>> /\ at # "ended" /\ told = "none"
        /\ \A y \in TdStatements : remote'[y] = remote[y]
    BY <1>0, <2>1, TdAssumption DEF Others, Becomes, TdTyped, Ending
  <2>3. \A y \in Range(call.todo) : TdHandled(y) => TdHandled(y)' \/ y \in Range(left)
    <3> SUFFICES ASSUME NEW y \in Range(call.todo), TdHandled(y), y \notin Range(left) PROVE TdHandled(y)'
      OBVIOUS
    <3>1. CASE call.op \in TdOnTables
      BY <1>1, <3>1 DEF TdHandled
    <3>2. CASE call.op \notin TdOnTables
      <4>1. y \in TdStatements
        BY <1>0, <3>2 DEF TdTyped, TdHandled
      <4> QED BY <1>1, <2>2, <3>2, <4>1 DEF TdHandled
    <3> QED BY <3>1, <3>2
  <2>4. TdLeft'
    BY <1>0, <1>1, <2>2, <2>3 DEF TdLeft, Range
  <2> QED BY <1>0, <1>1, <2>2, <2>4 DEF TdInv, TdTyped
<1> QED BY <1>3, <1>4, <1>5, <1>6, <1>7, <1>8, <1>9 DEF TdAct, TdNext

------------------------------------------------------------------------------
(***************************************************************************)
(* SalesforceResource: every record of a job is told of once, and results  *)
(* are read page by page.                                                  *)
(***************************************************************************)
SfAct == SfNext \/ SfTimer \/ SfJob \/ SfSessionEnds
SfStates == {"old", "new", "gone", "failed"}

SfTyped ==
  /\ DOMAIN remote = SfRecords \cup {"job", "timer", "session"}
  /\ \A x \in SfRecords : remote[x] \in SfStates
  /\ call.op \in {"query_to_csv", "upsert_records"} \cup SfSingles
  /\ at \in {"connect", "check", "describe", "create job", "wait", "download", "upsert",
             "results", "request", "ended"}
  /\ call.batches \in Seq(SUBSET SfRecords) /\ left \in Seq(SUBSET SfRecords)
  /\ call.op \in SfSingles => /\ \E x \in SfRecords : call.batches = <<{x}>>
                              /\ left = call.batches
(* Where a call of each kind may be. *)
SfPlaces ==
  /\ at \in {"create job", "wait", "download"} => call.op = "query_to_csv"
  /\ at \in {"upsert", "results"} => call.op = "upsert_records"
  /\ at = "request" => call.op \in SfSingles
  /\ at = "wait" => remote["job"] \in {"going", "complete", "failed"}
  /\ at \in {"connect", "check", "describe", "create job"} => remote["job"] = "none"
  /\ at \in {"connect", "check", "describe"} => answer = << >> /\ left = call.batches
  /\ at \in {"create job", "wait", "upsert"} => answer = << >>
(* The pages of a query that were read, and those that are left. *)
SfPaged ==
  call.op = "query_to_csv" /\ told # "raised" =>
    /\ answer \in Seq(SUBSET SfRecords) /\ Len(call.batches) = Len(answer) + Len(left)
    /\ \A i \in 1 .. Len(answer) : answer[i] = call.batches[i]
    /\ \A i \in 1 .. Len(left) : left[i] = call.batches[Len(answer) + i]
    /\ left = << >> <=> told = "returned"
    /\ at = "download" \/ told = "returned" => remote["job"] = "complete"
(* Of each record of a batch that is not left the answer has what became of *)
(* it, and of no record twice.                                              *)
SfToTell == UNION Range(left)
SfToldOnce ==
  /\ \A i, j \in 1 .. Len(answer) : answer[i][1] = answer[j][1] => i = j
  /\ \A i \in 1 .. Len(answer) : answer[i][1] \notin SfToTell
SfAllTold ==
  \A x \in UNION Range(call.batches) :
    x \in SfToTell \/ \E i \in 1 .. Len(answer) : answer[i] = <<x, remote[x]>>
SfTold ==
  call.op = "upsert_records" =>
    /\ \A i, j \in DOMAIN call.batches : i # j => call.batches[i] \cap call.batches[j] = {}
    /\ answer \in Seq(SfRecords \X SfStates)
    /\ at = "results" \/ told = "returned" =>
         /\ SfToldOnce /\ SfAllTold
         /\ \A i, j \in 1 .. Len(left) : i # j => left[i] \cap left[j] = {}
    /\ told = "returned" => left = << >>
SfInv == SfTyped /\ SfPlaces /\ SfPaged /\ SfTold /\ (told = "returned" => SfDone)

(* A Salesforce call begins with its invariant.                            *)
LEMMA SfInitial ==
  ASSUME SfBegin
  PROVE  Base /\ SfInv /\ call.client = "salesforce"
<1>1. PICK c \in Calls : c.client = "salesforce" /\
        Begin(c, "connect", c.batches,
          [x \in SfRecords \cup {"job", "timer", "session"} |->
             CASE x \in SfRecords -> "old" [] x = "timer" -> "set" [] OTHER -> "none"])
  BY DEF SfBegin
<1>2. Base
  BY <1>1, BeginBase
<1>3. /\ c.batches \in Seq(SUBSET SfRecords)
      /\ \/ c.op = "query_to_csv" /\ c.batches # << >>
         \/ c.op = "upsert_records" /\ \A i, j \in DOMAIN c.batches :
                                         i # j => c.batches[i] \cap c.batches[j] = {}
         \/ c.op \in SfSingles /\ \E x \in SfRecords : c.batches = <<{x}>>
  BY <1>1, SfAssumption
<1>4. call = c /\ left = c.batches /\ at = "connect" /\ answer = << >> /\ told = "none"
       /\ remote = [x \in SfRecords \cup {"job", "timer", "session"} |->
             CASE x \in SfRecords -> "old" [] x = "timer" -> "set" [] OTHER -> "none"]
  BY <1>1 DEF Begin
<1>5. SfTyped
  <2>1. \A x \in SfRecords : remote[x] \in SfStates
    BY <1>4, SfAssumption DEF SfStates
  <2> QED BY <1>3, <1>4, <2>1 DEF SfTyped, SfSingles
<1>6. SfPlaces /\ SfTold /\ told # "returned"
  BY <1>3, <1>4, SfAssumption DEF SfPlaces, SfTold, SfSingles
<1>7. SfPaged
  BY <1>3, <1>4 DEF SfPaged, SfSingles
<1> QED BY <1>1, <1>2, <1>4, <1>5, <1>6, <1>7 DEF SfInv

(* What every step of a Salesforce call leaves alone, and what it may      *)
(* count.                                                                  *)
LEMMA SfShape ==
  ASSUME Base, SfInv, SfAct
  PROVE  Shape /\ call.client = "salesforce"
<1> USE DEF Base, Goto, Return, Raise, NoTrouble, Miss, Trouble, troubles, SfKept, Sf, SfFails
<1>1. CASE SfConnect
  <2>1. steady' = steady \cap Facts(remote')
    BY <1>1, ServiceKept, ServiceBecomes DEF SfConnect, Set
  <2> QED BY <1>1, <2>1 DEF SfConnect, Shape, Ending, Counted
<1>2. CASE SfCheck \/ SfDescribe
  <2>1. SfStart # "ended"
    BY DEF SfStart
  <2> QED BY <1>2, <2>1, ServiceKept DEF SfCheck, SfDescribe, Shape, Ending, Counted
<1>3. CASE SfCreateJob
  <2>1. steady' = steady \cap Facts(remote')
    BY <1>3, ServiceKept, ServiceBecomes DEF SfCreateJob, Set
  <2> QED BY <1>3, <2>1 DEF SfCreateJob, Shape, Ending, Counted
<1>4. CASE SfWait
  <2>1. steady' = steady \cap Facts(remote') /\ at = "wait" /\ call' = call /\ call.client = "salesforce"
    BY <1>4, ServiceKept DEF SfWait
  <2>2. remote["job"] \in {"going", "complete", "failed"}
    BY <1>4, <2>1 DEF SfInv, SfPlaces
  <2>3. \/ UNCHANGED troubles /\ (Goto("download") \/ Raise \/ Goto(at))
        \/ Miss /\ Raise
    BY <1>4, <2>2 DEF SfWait
  <2>4. told = "none"
    BY <2>1 DEF Ending
  <2>5. CASE UNCHANGED troubles /\ (Goto("download") \/ Raise \/ Goto(at))
    BY <2>1, <2>4, <2>5 DEF Shape
  <2>6. CASE Miss /\ Raise
    BY <2>1, <2>4, <2>6 DEF Shape
  <2> QED BY <2>3, <2>5, <2>6
<1>5. CASE SfDownload
  BY <1>5, ServiceKept DEF SfDownload, Shape, Ending, Counted
<1>6. CASE SfUpsert
  <2>1. steady' = steady \cap Facts(remote')
    BY <1>6, ServiceKept, ServiceBecomes DEF SfUpsert
  <2> QED BY <1>6, <2>1 DEF SfUpsert, Shape, Ending, Counted
<1>7. CASE SfResults
  BY <1>7, ServiceKept DEF SfResults, Shape, Ending, Counted
<1>8. CASE SfCreate \/ SfUpdate \/ SfDelete
  <2>1. steady' = steady \cap Facts(remote')
    BY <1>8, ServiceKept, ServiceBecomes DEF SfCreate, SfUpdate, SfDelete, SfRequest, Set
  <2> QED BY <1>8, <2>1 DEF SfCreate, SfUpdate, SfDelete, SfRequest, Shape, Ending, Counted
<1>9. CASE SfTimer \/ SfJob
  <2>1. steady' = steady \cap Facts(remote')
    BY <1>9, ServiceBecomes DEF SfTimer, SfJob, Set
  <2> QED BY <1>9, <2>1 DEF SfTimer, SfJob, Shape, Ending, Counted
<1>10. CASE SfSessionEnds
  <2>1. PICK r : Others(r)
    BY <1>10 DEF SfSessionEnds
  <2>2. steady' = steady \cap Facts(remote')
    BY <2>1, ServiceBecomes DEF Others
  <2> QED BY <1>10, <2>1, <2>2 DEF SfSessionEnds, Others, Shape, Ending, Counted
<1> QED BY <1>1, <1>2, <1>3, <1>4, <1>5, <1>6, <1>7, <1>8, <1>9, <1>10 DEF SfAct, SfNext

(* Every step keeps the types.                                             *)
LEMMA SfTypes ==
  ASSUME Base, SfInv, SfAct
  PROVE  SfTyped'
<1> USE DEF Goto, Return, Raise, NoTrouble, SfKept, Sf, SfFails
<1>0. SfTyped /\ SfPlaces /\ SfPaged /\ call' = call /\ Ending
  BY SfShape DEF SfInv, Shape, Base
<1>a. \A n : n \in {"job", "timer", "session"} => n \notin SfRecords
  BY SfAssumption
<1>1. ASSUME UNCHANGED <<left, service>>, at' \in {"connect", "check", "describe", "create job", "wait", "download", "upsert",
             "results", "request", "ended"}
      PROVE  SfTyped'
  BY <1>0, <1>1 DEF SfTyped, service
<1>2. ASSUME NEW n \in {"job", "timer", "session"}, NEW v, Set(n, v), UNCHANGED left, at' \in {"check", "wait", at}
      PROVE  SfTyped'
  BY <1>0, <1>2, <1>a DEF SfTyped, Set, Becomes
<1>3. CASE SfConnect
  BY <1>1, <1>2, <1>3 DEF SfConnect
<1>4. CASE SfCheck \/ SfDescribe
  BY <1>1, <1>4 DEF SfCheck, SfDescribe, SfStart
<1>5. CASE SfCreateJob
  BY <1>1, <1>2, <1>5 DEF SfCreateJob
<1>6. CASE SfWait
  <2>1. at' \in {"wait", "download", "ended"}
    BY <1>0, <1>6 DEF SfWait, SfPlaces
  <2>2. UNCHANGED <<left, service>>
    BY <1>6 DEF SfWait
  <2> QED BY <1>1, <2>1, <2>2
<1>7. CASE SfDownload
  <2>1. left # << >> /\ call.op = "query_to_csv"
    BY <1>0, <1>7 DEF SfDownload, SfPaged, SfPlaces, Ending
  <2>2. Tail(left) \in Seq(SUBSET SfRecords)
    BY <1>0, <2>1, HeadTail DEF SfTyped
  <2> QED BY <1>0, <1>1, <1>7, <2>1, <2>2 DEF SfDownload, SfTyped, service, SfSingles
<1>8. CASE SfUpsert
  <2>0. call.op \notin SfSingles /\ at = "upsert"
    BY <1>0, <1>8 DEF SfUpsert, SfPlaces, SfSingles
  <2>1. CASE left # << >> /\ left' = Tail(left) /\ Goto(at) /\ \E refused \in SUBSET Head(left) :
             Becomes([x \in DOMAIN remote |->
                        IF x \notin Head(left) THEN remote[x]
                        ELSE IF x \in refused THEN "failed" ELSE "new"])
    <3>1. Tail(left) \in Seq(SUBSET SfRecords)
      BY <1>0, <2>1, HeadTail DEF SfTyped
    <3>2. DOMAIN remote' = DOMAIN remote /\ \A x \in SfRecords : remote'[x] \in SfStates
      BY <1>0, <2>1 DEF SfTyped, Becomes, SfStates
    <3> QED BY <1>0, <2>0, <2>1, <3>1, <3>2 DEF SfTyped
  <2>2. CASE Goto("results") /\ left' = call.batches /\ UNCHANGED service
    BY <1>0, <2>0, <2>2 DEF SfTyped, service
  <2>3. CASE Raise /\ UNCHANGED <<left, service>>
    BY <1>1, <2>3
  <2> QED BY <1>8, <2>1, <2>2, <2>3 DEF SfUpsert
<1>9. CASE SfResults
  <2>0. call.op \notin SfSingles /\ at = "results"
    BY <1>0, <1>9 DEF SfResults, SfPlaces, SfSingles
  <2>1. CASE left # << >> /\ left' = Tail(left) /\ UNCHANGED <<at, service>>
    <3>1. Tail(left) \in Seq(SUBSET SfRecords)
      BY <1>0, <2>1, HeadTail DEF SfTyped
    <3> QED BY <1>0, <2>0, <2>1, <3>1 DEF SfTyped, service
  <2> QED BY <1>1, <1>9, <2>1 DEF SfResults
<1>10. CASE SfCreate \/ SfUpdate \/ SfDelete
  <2>0. call.op \in SfSingles /\ left' = left /\ at' = "ended"
    BY <1>10 DEF SfCreate, SfUpdate, SfDelete, SfRequest, SfSingles
  <2>1. PICK x \in Head(left) : Set(x, SfChanged) \/ UNCHANGED service
    BY <1>10 DEF SfCreate, SfUpdate, SfDelete, SfRequest
  <2>2. x \in SfRecords
    <3>1. PICK y \in SfRecords : left = <<{y}>>
      BY <1>0, <2>0 DEF SfTyped
    <3>2. Head(left) = {y}
      BY <3>1, HeadOne
    <3> QED BY <2>1, <3>1, <3>2
  <2>3. SfChanged \in SfStates
    BY DEF SfChanged, SfStates
  <2>4. DOMAIN remote' = DOMAIN remote /\ \A y \in SfRecords : remote'[y] \in SfStates
    BY <1>0, <2>1, <2>2, <2>3 DEF SfTyped, Set, Becomes, service
  <2> QED BY <1>0, <2>0, <2>4 DEF SfTyped
<1>11. CASE SfTimer \/ SfJob
  BY <1>2, <1>11 DEF SfTimer, SfJob
<1>12. CASE SfSessionEnds
  BY <1>2, <1>12 DEF SfSessionEnds, Others, Set
<1> QED BY <1>3, <1>4, <1>5, <1>6, <1>7, <1>8, <1>9, <1>10, <1>11, <1>12 DEF SfAct, SfNext

(* A step of the beginning, a failure, or a change to another thing than a  *)
(* record or a finished job.                                                *)
LEMMA SfBesideKept ==
  ASSUME Base, SfInv, SfTyped', call' = call, UNCHANGED <<left, answer>>,
         \A x \in SfRecords : remote'[x] = remote[x],
         remote["job"] = "complete" => remote'["job"] = "complete",
         at' = "wait" => remote'["job"] \in {"going", "complete", "failed"},
         at' \in {"check", "describe", "create job", at} => remote'["job"] = remote["job"] \/ at' = "wait" \/ remote["job"] = "going",
         \/ at' = at /\ told' = told
         \/ at = "connect" /\ at' = "check" /\ told' = told /\ told = "none"
         \/ at = "check" /\ at' = "describe" /\ told' = told /\ told = "none"
         \/ at = "describe" /\ at' = SfStart /\ told' = told /\ told = "none"
         \/ at = "create job" /\ at' = "wait" /\ told' = told /\ told = "none"
         \/ at' = "ended" /\ told' = "raised"
  PROVE  SfInv'
<1>0. SfTyped /\ SfPlaces /\ SfPaged /\ SfTold /\ (told = "returned" => SfDone) /\ Ending
  BY DEF SfInv, Base
<1>1. SfPlaces'
  BY <1>0 DEF SfPlaces, SfStart, SfTyped, SfSingles
<1>2. SfPaged'
  BY <1>0 DEF SfPaged, SfStart
<1>3. SfTold'
  <2> SUFFICES ASSUME call.op = "upsert_records" PROVE SfTold'
    BY DEF SfTold
  <2>1. at' = "results" \/ told' = "returned" => at = "results" \/ told = "returned"
    BY <1>0 DEF SfStart
  <2>2. SfAllTold => SfAllTold'
    <3>1. UNION Range(call.batches) \subseteq SfRecords
      <4>1. Range(call.batches) \subseteq SUBSET SfRecords
        BY <1>0, SeqMembers DEF SfTyped
      <4> QED BY <4>1
    <3> QED BY <3>1 DEF SfAllTold, SfToTell
  <2>3. SfToldOnce => SfToldOnce'
    BY DEF SfToldOnce, SfToTell
  <2> QED BY <1>0, <2>1, <2>2, <2>3 DEF SfTold
<1>4. told' = "returned" => SfDone'
  <2> SUFFICES ASSUME told = "returned" PROVE SfDone'
    BY <1>0
  <2>1. CASE call.op = "query_to_csv"
    BY <1>0, <2>1 DEF SfDone, SfSingles
  <2>2. CASE call.op \in SfSingles
    <3>1. PICK x \in SfRecords : call.batches = <<{x}>>
      BY <1>0, <2>2 DEF SfTyped
    <3>2. Head(call.batches) = {x}
      BY <3>1, HeadOne
    <3>3. remote[x] = SfChanged
      BY <1>0, <2>2, <3>2 DEF SfDone, SfSingles
    <3>4. remote'[x] = SfChanged' /\ Head(call'.batches) = {x}
      BY <3>2, <3>3 DEF SfChanged
    <3> QED BY <2>2, <3>4 DEF SfDone, SfSingles
  <2>3. CASE call.op = "upsert_records"
    BY <2>3 DEF SfDone, SfSingles
  <2> QED BY <1>0, <2>1, <2>2, <2>3 DEF SfTyped
<1> QED BY <1>1, <1>2, <1>3, <1>4 DEF SfInv

(* Every step of a Salesforce call keeps its invariant.                    *)
LEMMA SfStep ==
  ASSUME Base, SfInv, SfAct
  PROVE  SfInv'
<1> USE DEF Goto, Return, Raise, NoTrouble, SfKept, Sf, SfFails
<1>0. SfTyped /\ SfPlaces /\ SfPaged /\ SfTold /\ (told = "returned" => SfDone) /\ Ending /\ call' = call /\ SfTyped'
  BY SfShape, SfTypes DEF SfInv, Base, Shape
<1>a. \A n : n \in {"job", "timer", "session"} => n \notin SfRecords
  BY SfAssumption
<1>1. ASSUME UNCHANGED <<left, answer, service>>,
             \/ at' = at /\ told' = told
             \/ at = "check" /\ at' = "describe" /\ told' = told
             \/ at = "describe" /\ at' = SfStart /\ told' = told
             \/ at' = "ended" /\ told' = "raised"
      PROVE  SfInv'
  <2>1. at = "check" \/ at = "describe" => told = "none"
    BY <1>0 DEF Ending
  <2>2. \A x \in SfRecords : remote'[x] = remote[x]
    BY <1>1 DEF service
  <2>3. remote'["job"] = remote["job"]
    BY <1>1 DEF service
  <2>4. at' = "wait" => remote'["job"] \in {"going", "complete", "failed"}
    BY <1>0, <1>1, <2>3 DEF SfPlaces, SfStart
  <2> QED BY <1>0, <1>1, <2>1, <2>2, <2>3, <2>4, SfBesideKept
<1>2. ASSUME NEW n \in {"job", "timer", "session"}, NEW v, Set(n, v), UNCHANGED <<left, answer, told>>,
             \/ at' = at \/ (at = "connect" /\ at' = "check") \/ (at = "create job" /\ at' = "wait"),
             n = "job" => /\ v \in {"going", "complete", "failed"}
                          /\ remote["job"] = "going" \/ (at = "create job" /\ at' = "wait"),
             n = "job" \/ at' = at \/ at = "connect"
      PROVE  SfInv'
  <2>1. at # at' => told = "none"
    BY <1>0, <1>2 DEF Ending
  <2>2. remote' = [remote EXCEPT ![n] = v]
    BY <1>2 DEF Set, Becomes
  <2>3. \A x \in SfRecords : remote'[x] = remote[x]
    BY <1>0, <1>2, <1>a, <2>2 DEF SfTyped
  <2>4. n # "job" => remote'["job"] = remote["job"]
    BY <2>2, <1>0 DEF SfTyped
  <2>5. n = "job" => remote'["job"] = v
    BY <2>2, <1>0 DEF SfTyped
  <2>6. remote["job"] = "complete" => remote'["job"] = "complete"
    BY <1>0, <1>2, <2>4, <2>5 DEF SfPlaces
  <2>7. at' = "wait" => remote'["job"] \in {"going", "complete", "failed"}
    BY <1>0, <1>2, <2>4, <2>5 DEF SfPlaces
  <2>8. at' \in {"check", "describe", "create job", at} => remote'["job"] = remote["job"] \/ at' = "wait" \/ remote["job"] = "going"
    BY <1>0, <1>2, <2>4, <2>5 DEF SfPlaces
  <2> QED BY <1>0, <1>2, <2>1, <2>3, <2>6, <2>7, <2>8, SfBesideKept
<1>3. CASE SfConnect
  BY <1>1, <1>2, <1>3 DEF SfConnect
<1>4. CASE SfCheck \/ SfDescribe
  BY <1>1, <1>4 DEF SfCheck, SfDescribe
<1>5. CASE SfCreateJob
  BY <1>1, <1>2, <1>5, <1>0 DEF SfCreateJob, SfPlaces
<1>6. CASE SfWait
  <2>0. at = "wait" /\ told = "none" /\ UNCHANGED <<left, answer, service>> /\ remote["job"] \in {"going", "complete", "failed"}
         /\ call.op = "query_to_csv" /\ left # << >>
    BY <1>0, <1>6 DEF SfWait, SfPlaces, Ending, SfPaged
  <2>1. \/ at' = "ended" /\ told' = "raised"
        \/ at' = at /\ told' = told
        \/ at' = "download" /\ told' = told /\ remote["job"] = "complete"
    BY <1>6, <2>0 DEF SfWait
  <2>2. CASE at' = "download" /\ told' = told /\ remote["job"] = "complete"
    BY <1>0, <2>0, <2>2 DEF SfInv, SfPlaces, SfPaged, SfTold, service
  <2> QED BY <1>1, <2>0, <2>1, <2>2
<1>7. CASE SfDownload
  <2>0. at = "download" /\ told = "none" /\ remote' = remote /\ call.op = "query_to_csv" /\ left # << >>
         /\ answer \in Seq(SUBSET SfRecords) /\ remote["job"] = "complete"
    BY <1>0, <1>7 DEF SfDownload, SfPlaces, SfPaged, Ending, service
  <2>1. CASE Raise /\ UNCHANGED <<left, service>>
    BY <1>1, <2>1
  <2>2. CASE /\ left' = Tail(left) /\ answer' = Append(answer, Head(left))
             /\ \/ left' = << >> /\ told' = "returned" /\ at' = "ended"
                \/ left' # << >> /\ UNCHANGED <<at, told>>
    <3>1. /\ Head(left) \in SUBSET SfRecords /\ Tail(left) \in Seq(SUBSET SfRecords)
          /\ Head(left) = left[1] /\ Len(Tail(left)) = Len(left) - 1 /\ Len(left) \in Nat \ {0}
          /\ \A i \in 1 .. Len(Tail(left)) : Tail(left)[i] = left[i + 1]
      BY <1>0, <2>0, HeadTail DEF SfTyped
    <3>2. /\ answer' \in Seq(SUBSET SfRecords) /\ Len(answer') = Len(answer) + 1 /\ Len(answer) \in Nat
          /\ answer'[Len(answer) + 1] = left[1] /\ \A i \in 1 .. Len(answer) : answer'[i] = answer[i]
      BY <2>0, <2>2, <3>1
    <3>0. /\ Len(call.batches) = Len(answer) + Len(left) /\ \A i \in 1 .. Len(answer) : answer[i] = call.batches[i]
          /\ \A i \in 1 .. Len(left) : left[i] = call.batches[Len(answer) + i]
      BY <1>0, <2>0 DEF SfPaged
    <3>3. /\ Len(call.batches) = Len(answer') + Len(left') /\ \A i \in 1 .. Len(answer') : answer'[i] = call.batches[i]
      <4>1. Len(call.batches) = Len(answer') + Len(left')
        BY <2>2, <3>0, <3>1, <3>2
      <4>2. left[1] = call.batches[Len(answer) + 1]
        BY <3>0, <3>1
      <4>3. ASSUME NEW i \in 1 .. Len(answer') PROVE answer'[i] = call.batches[i]
        <5>1. i \in 1 .. Len(answer) \/ i = Len(answer) + 1
          BY <3>2
        <5> QED BY <3>0, <3>2, <4>2, <5>1
      <4> QED BY <4>1, <4>3
    <3>4. \A i \in 1 .. Len(left') : left'[i] = call.batches[Len(answer') + i]
      BY <1>0, <2>0, <2>2, <3>1, <3>2 DEF SfPaged
    <3>5. SfPaged'
      BY <1>0, <2>0, <2>2, <3>2, <3>3, <3>4 DEF SfPaged
    <3> QED BY <1>0, <2>0, <2>2, <3>5 DEF SfInv, SfPlaces, SfTold, SfDone, SfSingles
  <2> QED BY <1>7, <2>1, <2>2 DEF SfDownload
<1>8. CASE SfUpsert
  <2>0. at = "upsert" /\ told = "none" /\ call.op = "upsert_records" /\ answer = << >>
    BY <1>0, <1>8 DEF SfUpsert, SfPlaces, Ending
  <2>1. CASE Goto(at)
    BY <1>0, <2>0, <2>1 DEF SfInv, SfPlaces, SfPaged, SfTold, SfDone, SfSingles
  <2>2. CASE Goto("results") /\ left' = call.batches /\ UNCHANGED service
    <3>1. SfToldOnce' /\ SfAllTold'
      BY <1>0, <2>0, <2>2 DEF SfToldOnce, SfAllTold, SfToTell
    <3>2. DOMAIN call.batches = 1 .. Len(call.batches)
      BY <1>0, SeqMembers DEF SfTyped
    <3>3. SfTold'
      BY <1>0, <2>0, <2>2, <3>1, <3>2 DEF SfTold
    <3> QED BY <1>0, <2>0, <2>2, <3>3 DEF SfInv, SfPlaces, SfPaged, SfDone, SfSingles
  <2>3. CASE Raise /\ UNCHANGED <<left, service>>
    BY <1>1, <2>3
  <2> QED BY <1>8, <2>1, <2>2, <2>3 DEF SfUpsert
<1>9. CASE SfResults
  <2>0. at = "results" /\ told = "none" /\ call.op = "upsert_records" /\ UNCHANGED service /\ remote' = remote
    BY <1>0, <1>9 DEF SfResults, SfPlaces, Ending, service
  <2>1. CASE Raise /\ UNCHANGED <<left, service>>
    BY <1>1, <2>1
  <2>2. CASE left = << >> /\ Return(answer) /\ UNCHANGED left
    <3>1. SfToldOnce' /\ SfAllTold'
      BY <1>0, <2>0, <2>2 DEF SfTold, SfToldOnce, SfAllTold, SfToTell
    <3> QED BY <1>0, <2>0, <2>2, <3>1 DEF SfInv, SfPlaces, SfPaged, SfTold, SfDone, SfSingles
  <2>3. CASE /\ left # << >> /\ left' = Tail(left) /\ UNCHANGED <<at, told>>
             /\ answer' = answer \o SetToSeq({<<x, remote[x]>> : x \in Head(left)})
    <3>h. PICK h : h = Head(left)
      OBVIOUS
    <3>t. PICK told1 : told1 = {<<x, remote[x]>> : x \in h}
      OBVIOUS
    <3>s. PICK s : s = SetToSeq(told1)
      OBVIOUS
    <3>1. /\ h \in SUBSET SfRecords /\ Tail(left) \in Seq(SUBSET SfRecords)
          /\ Range(left) = {h} \cup Range(Tail(left)) /\ h = left[1]
          /\ Len(Tail(left)) = Len(left) - 1 /\ Len(left) \in Nat \ {0}
          /\ \A i \in 1 .. Len(Tail(left)) : Tail(left)[i] = left[i + 1]
      BY <1>0, <2>3, <3>h, HeadTail DEF SfTyped
    <3>2. IsFiniteSet(told1)
      <4> DEFINE f == [x \in h |-> <<x, remote[x]>>]
      <4>1. f \in Surjection(h, told1)
        BY <3>t DEF Surjection
      <4>2. IsFiniteSet(h)
        BY <3>1, SfAssumption, FS_Subset
      <4> QED BY <4>1, <4>2, FS_Surjection
    <3>3. told1 \subseteq SfRecords \X SfStates
      <4>1. \A x \in h : <<x, remote[x]>> \in SfRecords \X SfStates
        BY <1>0, <3>1 DEF SfTyped
      <4> QED BY <3>t, <4>1
    <3>4. /\ s \in Seq(told1) /\ Range(s) = told1 /\ \A i, j \in 1 .. Len(s) : s[i] = s[j] => i = j
      BY <3>2, <3>s, SetToSeqIs
    <3>5. /\ s \in Seq(SfRecords \X SfStates) /\ Len(s) \in Nat
          /\ \A i \in 1 .. Len(s) : s[i] \in told1
      BY <3>3, <3>4, SeqMembers
    <3>6. \A i \in 1 .. Len(s) : s[i][1] \in h /\ s[i] = <<s[i][1], remote[s[i][1]]>>
      BY <3>5, <3>t
    <3>7. \A i, j \in 1 .. Len(s) : s[i][1] = s[j][1] => i = j
      BY <3>4, <3>6
    <3>8. answer \in Seq(SfRecords \X SfStates) /\ answer' = answer \o s /\ Len(answer) \in Nat
      BY <1>0, <2>0, <2>3, <3>h, <3>t, <3>s DEF SfTold
    <3>9. /\ answer' \in Seq(SfRecords \X SfStates) /\ Len(answer') = Len(answer) + Len(s)
          /\ \A i \in 1 .. Len(answer) : answer'[i] = answer[i]
          /\ \A i \in 1 .. Len(s) : answer'[Len(answer) + i] = s[i]
      BY <3>5, <3>8
    <3>10. \A i \in (Len(answer) + 1) .. Len(answer') :
              i - Len(answer) \in 1 .. Len(s) /\ answer'[i] = s[i - Len(answer)]
      <4> SUFFICES ASSUME NEW i \in (Len(answer) + 1) .. Len(answer')
                   PROVE  i - Len(answer) \in 1 .. Len(s) /\ answer'[i] = s[i - Len(answer)]
        OBVIOUS
      <4>1. i - Len(answer) \in 1 .. Len(s) /\ i = Len(answer) + (i - Len(answer))
        BY <3>5, <3>8, <3>9
      <4> QED BY <3>9, <4>1
    <3>11. SfToTell = h \cup SfToTell' /\ h \cap SfToTell' = {}
      <4>1. SfToTell = h \cup SfToTell'
        <5>1. PICK u : u = Range(Tail(left))
          OBVIOUS
        <5>2. SfToTell' = UNION u
          BY <2>3, <5>1 DEF SfToTell
        <5>3. SfToTell = UNION ({h} \cup u)
          BY <3>1, <5>1 DEF SfToTell
        <5> QED BY <5>2, <5>3
      <4>2. \A i \in 1 .. Len(Tail(left)) : Tail(left)[i] \cap h = {}
        <5> SUFFICES ASSUME NEW i \in 1 .. Len(Tail(left)) PROVE Tail(left)[i] \cap h = {}
          OBVIOUS
        <5>1. i + 1 \in 1 .. Len(left) /\ 1 \in 1 .. Len(left) /\ i + 1 # 1
          BY <3>1
        <5>2. left[i + 1] \cap left[1] = {}
          BY <1>0, <2>0, <5>1 DEF SfTold
        <5> QED BY <3>1, <5>2
      <4>3. DOMAIN Tail(left) = 1 .. Len(Tail(left))
        BY <3>1, SeqMembers
      <4>4. PICK u : u = Range(Tail(left))
        OBVIOUS
      <4>5. \A y \in u : y \cap h = {}
        BY <4>2, <4>3, <4>4 DEF Range
      <4>6. SfToTell' = UNION u
        BY <2>3, <4>4 DEF SfToTell
      <4> QED BY <4>1, <4>5, <4>6
    <3>12. SfToldOnce'
      <4>0. /\ \A i, j \in 1 .. Len(answer) : answer[i][1] = answer[j][1] => i = j
            /\ \A i \in 1 .. Len(answer) : answer[i][1] \notin SfToTell
        BY <1>0, <2>0 DEF SfTold, SfToldOnce
      <4>1. \A i \in 1 .. Len(answer') :
              \/ i \in 1 .. Len(answer) /\ answer'[i] = answer[i] /\ answer[i][1] \notin SfToTell
              \/ /\ i \in (Len(answer) + 1) .. Len(answer') /\ i - Len(answer) \in 1 .. Len(s)
                 /\ answer'[i] = s[i - Len(answer)] /\ answer'[i][1] \in h
        <5> SUFFICES ASSUME NEW i \in 1 .. Len(answer'), i \notin 1 .. Len(answer)
                     PROVE  i \in (Len(answer) + 1) .. Len(answer')
          BY <3>6, <3>9, <3>10, <4>0
        <5> QED BY <3>8, <3>9, <3>5
      <4>2. ASSUME NEW i \in 1 .. Len(answer'), NEW j \in 1 .. Len(answer'), answer'[i][1] = answer'[j][1]
            PROVE  i = j
        <5>1. CASE i \in 1 .. Len(answer) /\ answer[i][1] \notin SfToTell /\ answer'[i] = answer[i]
          <6>1. answer'[j][1] \notin h
            BY <3>11, <4>2, <5>1
          <6>2. j \in 1 .. Len(answer) /\ answer'[j] = answer[j]
            BY <4>1, <6>1
          <6> QED BY <4>0, <4>2, <5>1, <6>2
        <5>2. CASE i - Len(answer) \in 1 .. Len(s) /\ answer'[i] = s[i - Len(answer)] /\ answer'[i][1] \in h
          <6>1. answer'[j][1] \in h
            BY <4>2, <5>2
          <6>2. j - Len(answer) \in 1 .. Len(s) /\ answer'[j] = s[j - Len(answer)]
            BY <3>11, <4>1, <6>1
          <6>3. i - Len(answer) = j - Len(answer)
            BY <3>7, <4>2, <5>2, <6>2
          <6> QED BY <3>8, <3>9, <3>5, <6>3
        <5> QED BY <4>1, <5>1, <5>2
      <4>3. \A i \in 1 .. Len(answer') : answer'[i][1] \notin SfToTell'
        BY <3>11, <4>1
      <4> QED BY <4>2, <4>3 DEF SfToldOnce
    <3>13. SfAllTold'
      <4> SUFFICES ASSUME NEW x \in UNION Range(call.batches), x \notin SfToTell'
                   PROVE  \E i \in 1 .. Len(answer') : answer'[i] = <<x, remote[x]>>
        BY <1>0, <2>0 DEF SfAllTold
      <4>1. CASE x \in h
        <5>1. <<x, remote[x]>> \in Range(s)
          BY <3>t, <3>4, <4>1
        <5>2. PICK k \in 1 .. Len(s) : s[k] = <<x, remote[x]>>
          BY <3>5, <5>1, SeqMembers DEF Range
        <5>3. Len(answer) + k \in 1 .. Len(answer')
          BY <3>5, <3>8, <3>9
        <5> QED BY <3>9, <5>2, <5>3
      <4>2. CASE x \notin h
        <5>1. PICK i \in 1 .. Len(answer) : answer[i] = <<x, remote[x]>>
          BY <1>0, <2>0, <3>11, <4>2 DEF SfTold, SfAllTold
        <5>2. i \in 1 .. Len(answer')
          BY <3>5, <3>8, <3>9
        <5> QED BY <3>9, <5>1, <5>2
      <4> QED BY <4>1, <4>2
    <3>14. \A i, j \in 1 .. Len(left') : i # j => left'[i] \cap left'[j] = {}
      <4> SUFFICES ASSUME NEW i \in 1 .. Len(left'), NEW j \in 1 .. Len(left'), i # j
                   PROVE  left'[i] \cap left'[j] = {}
        OBVIOUS
      <4>1. i + 1 \in 1 .. Len(left) /\ j + 1 \in 1 .. Len(left) /\ i + 1 # j + 1
        BY <2>3, <3>1
      <4> QED BY <1>0, <2>0, <2>3, <3>1, <4>1 DEF SfTold
    <3>15. SfTold'
      BY <1>0, <2>0, <2>3, <3>9, <3>12, <3>13, <3>14 DEF SfTold
    <3> QED BY <1>0, <2>0, <2>3, <3>15 DEF SfInv, SfPlaces, SfPaged, SfDone, SfSingles
  <2> QED BY <1>9, <2>1, <2>2, <2>3 DEF SfResults
<1>10. CASE SfCreate \/ SfUpdate \/ SfDelete
  <2>0. at = "request" /\ call.op \in SfSingles /\ told = "none" /\ left' = left
    BY <1>0, <1>10 DEF SfCreate, SfUpdate, SfDelete, SfRequest, SfSingles, Ending
  <2>1. PICK x \in Head(left) : Raise \/ (Set(x, SfChanged) /\ Return(<<x>>))
    BY <1>10 DEF SfCreate, SfUpdate, SfDelete, SfRequest
  <2>2. PICK y \in SfRecords : left = <<{y}>> /\ call.batches = <<{y}>>
    BY <1>0, <2>0 DEF SfTyped
  <2>3. CASE Raise
    BY <1>0, <2>0, <2>3 DEF SfInv, SfPlaces, SfPaged, SfTold, SfSingles
  <2>4. CASE Set(x, SfChanged) /\ Return(<<x>>)
    <3>1. x = y /\ Head(call.batches) = {y}
      BY <2>1, <2>2, HeadOne
    <3>2. remote'[y] = SfChanged
      BY <1>0, <2>2, <2>4, <3>1 DEF Set, Becomes, SfTyped
    <3>3. SfChanged' = SfChanged
      BY <1>0 DEF SfChanged
    <3>4. SfDone'
      BY <1>0, <2>0, <3>1, <3>2, <3>3 DEF SfDone, SfSingles
    <3> QED BY <1>0, <2>0, <2>4, <3>4 DEF SfInv, SfPlaces, SfPaged, SfTold, SfSingles
  <2> QED BY <2>1, <2>3, <2>4
<1>11. CASE SfTimer \/ SfJob
  BY <1>2, <1>11 DEF SfTimer, SfJob
<1>12. CASE SfSessionEnds
  BY <1>2, <1>12 DEF SfSessionEnds, Others, Set
<1> QED BY <1>3, <1>4, <1>5, <1>6, <1>7, <1>8, <1>9, <1>10, <1>11, <1>12 DEF SfAct, SfNext

(* What the invariant says of a Salesforce call that has ended.            *)
LEMMA SfMeans ==
  ASSUME Base, SfInv
  PROVE  told = "returned" => SfDone /\ SfListing
<1> SUFFICES ASSUME told = "returned" PROVE SfListing
  BY DEF SfInv
<1>1. SfTyped /\ SfPaged /\ SfTold
  BY DEF SfInv
<1>2. ASSUME call.op = "query_to_csv" PROVE answer = call.batches
  <2>1. /\ answer \in Seq(SUBSET SfRecords) /\ Len(call.batches) = Len(answer) + Len(left) /\ left = << >>
        /\ \A i \in 1 .. Len(answer) : answer[i] = call.batches[i]
    BY <1>1, <1>2 DEF SfPaged
  <2>2. PICK b \in Seq(SUBSET SfRecords) : b = call.batches
    BY <1>1 DEF SfTyped
  <2>3. Len(b) = Len(answer) /\ \A i \in 1 .. Len(b) : answer[i] = b[i]
    BY <2>1, <2>2
  <2>4. answer = b
    BY <2>1, <2>3
  <2> QED BY <2>2, <2>4
<1>3. ASSUME call.op = "upsert_records", NEW x \in UNION {call.batches[i] : i \in DOMAIN call.batches}
      PROVE  /\ Cardinality({i \in DOMAIN answer : answer[i][1] = x}) = 1
             /\ \E i \in DOMAIN answer : answer[i] = <<x, remote[x]>>
  <2>1. answer \in Seq(SfRecords \X SfStates) /\ SfToldOnce /\ SfAllTold /\ left = << >>
    BY <1>1, <1>3 DEF SfTold
  <2>2. DOMAIN answer = 1 .. Len(answer)
    BY <2>1, SeqMembers
  <2>3. x \in UNION Range(call.batches) /\ x \notin SfToTell
    BY <1>3, <2>1 DEF Range, SfToTell
  <2>4. PICK i \in 1 .. Len(answer) : answer[i] = <<x, remote[x]>>
    BY <2>1, <2>3 DEF SfAllTold
  <2>5. {k \in DOMAIN answer : answer[k][1] = x} = {i}
    BY <2>1, <2>2, <2>4 DEF SfToldOnce
  <2> QED BY <2>2, <2>4, <2>5, FS_Singleton
<1> QED BY <1>2, <1>3 DEF SfListing

------------------------------------------------------------------------------
(***************************************************************************)
(* SftpResource: each path is dealt with or raised, and a listing has each *)
(* match once.                                                             *)
(***************************************************************************)
SftpAct == SftpNext \/ SftpOthers

SftpTyped ==
  /\ DOMAIN remote = SftpPaths \cup {"connection"}
  /\ at \in {"connect", "glob", "stat", "work", "remove", "ended"}
  /\ call.paths \in Seq(SftpPaths) /\ left \in Seq(SftpPaths)
  /\ call.op \in {"rename", "file_exists"} => left = call.paths
  /\ call.op = "rename" => Len(call.paths) = 2
(* The paths of a call that goes through them: each is left or dealt with. *)
SftpWork == call.op \in {"delete_file", "delete_files"} \/
            (call.op \in {"get_file", "put_file"} /\ call.handler # "ignore")
SftpWas == IF call.op \in {"delete_file", "delete_files"} THEN "file" ELSE "none"
SftpLeft ==
  SftpWork => /\ \A x \in Range(call.paths) : x \in Range(left) \/ <<x, SftpWas>> \notin steady
              /\ told = "returned" => left = << >>
(* The matches of a glob: those listed and those left have, while the       *)
(* connection lasts, every file that stays, once, and none that never was.  *)
SftpMatched ==
  call.op = "list_files" =>
    /\ call.only \in {"all", "files", "dirs", "both"} /\ answer \in Seq(SftpFiles)
    /\ at \in {"connect", "glob"} => answer = << >>
    /\ at \in {"glob", "stat"} => call.only # "both"
    /\ at \notin {"work", "remove"}
    /\ at = "stat" => left \in Seq(SftpFiles)
    /\ at = "stat" \/ told = "returned" =>
         /\ \A i, j \in 1 .. Len(answer) : answer[i] = answer[j] => i = j
         /\ \A p \in Range(answer) : <<p, "none">> \notin steady
    /\ at = "stat" =>
         /\ \A i, j \in 1 .. Len(left) : left[i] = left[j] => i = j
         /\ Range(answer) \cap Range(left) = {}
         /\ \A p \in Range(left) : <<p, "none">> \notin steady
         /\ Up /\ call.only # "dirs" => SftpStays("file") \subseteq Range(answer) \cup Range(left)
    /\ told = "returned" /\ Up /\ call.only # "dirs" => SftpStays("file") \subseteq Range(answer)
(* What the calls promise that do what they do in one step, or at the end. *)
SftpOnce ==
  told = "returned" =>
    /\ call.op = "rmtree" => SftpStays("file") = {} /\ <<SftpDir, "dir">> \notin steady
    /\ call.op = "mkdir" => <<SftpDir, "none">> \notin steady
    /\ call.op = "rename" => <<call.paths[1], "file">> \notin steady
                             /\ <<call.paths[2], "none">> \notin steady
    /\ call.op = "file_exists" => <<call.paths[1], IF answer THEN "none" ELSE "file">> \notin steady
SftpInv == SftpTyped /\ SftpLeft /\ SftpMatched /\ SftpOnce

(* A SFTP call begins with its invariant.                                  *)
LEMMA SftpInitial ==
  ASSUME SftpBegin
  PROVE  Base /\ SftpInv /\ call.client = "sftp"
<1>1. PICK c \in Calls, r \in SftpServers : c.client = "sftp" /\ Begin(c, "connect", c.paths, r)
  BY DEF SftpBegin
<1>2. Base
  BY <1>1, BeginBase
<1>3. DOMAIN r = SftpPaths \cup {"connection"}
  BY <1>1 DEF SftpServers
<1>4. call = c /\ left = c.paths /\ at = "connect" /\ answer = << >> /\ told = "none" /\ remote = r
  BY <1>1 DEF Begin
<1>5. /\ c.paths \in Seq(SftpPaths)
      /\ c.op = "rename" => Len(c.paths) = 2
      /\ c.op = "list_files" => c.only \in {"all", "files", "dirs", "both"}
  BY <1>1, SftpAssumption
<1>6. SftpTyped /\ SftpLeft
  BY <1>3, <1>4, <1>5, SeqMembers DEF SftpTyped, SftpLeft
<1>7. SftpMatched /\ SftpOnce
  BY <1>4, <1>5 DEF SftpMatched, SftpOnce
<1> QED BY <1>1, <1>2, <1>4, <1>6, <1>7 DEF SftpInv

(* What every step of a SFTP call leaves alone, and what it may count.     *)
LEMMA SftpShape ==
  ASSUME Base, SftpInv, SftpAct
  PROVE  Shape /\ call.client = "sftp"
<1> USE DEF Base, Goto, Return, Raise, NoTrouble, Miss, Trouble, troubles, SftpKept, Sftp
<1>1. CASE SftpConnect \/ SftpTest \/ SftpRefuse
  BY <1>1, ServiceKept DEF SftpConnect, SftpTest, SftpRefuse, Shape, Ending, Counted
<1>2. CASE SftpDrop
  <2>1. steady' = steady \cap Facts(remote')
    BY <1>2, ServiceBecomes DEF SftpDrop, Set
  <2> QED BY <1>2, <2>1 DEF SftpDrop, Shape, Ending, Counted
<1>3. CASE SftpGlob \/ SftpStat \/ SftpListed
  BY <1>3, ServiceKept DEF SftpGlob, SftpStat, SftpListed, Rest, Shape, Ending, Counted
<1>4. CASE SftpGet \/ SftpTransferred
  BY <1>4, ServiceKept DEF SftpGet, SftpTransferred, Transferred, NotTransferred, Rest, Shape, Ending, Counted
<1>5. CASE SftpPut
  <2>1. steady' = steady \cap Facts(remote')
    BY <1>5, ServiceKept, ServiceBecomes DEF SftpPut, Set
  <2> QED BY <1>5, <2>1 DEF SftpPut, Transferred, NotTransferred, Rest, Shape, Ending, Counted
<1>6. CASE SftpDelete
  <2>1. steady' = steady \cap Facts(remote')
    BY <1>6, ServiceKept, ServiceBecomes DEF SftpDelete, Set
  <2> QED BY <1>6, <2>1 DEF SftpDelete, Shape, Ending, Counted
<1>7. CASE SftpMkdir
  <2>1. steady' = steady \cap Facts(remote')
    BY <1>7, ServiceKept, ServiceBecomes DEF SftpMkdir, Set
  <2> QED BY <1>7, <2>1 DEF SftpMkdir, Shape, Ending, Counted
<1>8. CASE SftpRmtree
  <2>1. steady' = steady \cap Facts(remote')
    BY <1>8, ServiceKept, ServiceBecomes DEF SftpRmtree, Set
  <2> QED BY <1>8, <2>1 DEF SftpRmtree, Rest, Shape, Ending, Counted
<1>9. CASE SftpRename
  <2>1. steady' = steady \cap Facts(remote')
    BY <1>9, ServiceKept, ServiceBecomes DEF SftpRename
  <2> QED BY <1>9, <2>1 DEF SftpRename, Shape, Ending, Counted
<1>10. CASE SftpExists \/ SftpIsDir \/ SftpIsFile \/ SftpInfo
  BY <1>10, ServiceKept DEF SftpExists, SftpIsDir, SftpIsFile, SftpInfo, SftpAnswers, Shape, Ending, Counted
<1>11. CASE SftpOthers
  <2>1. PICK r : Others(r)
    BY <1>11 DEF SftpOthers
  <2>2. steady' = steady \cap Facts(remote')
    BY <2>1, ServiceBecomes DEF Others
  <2> QED BY <1>11, <2>1, <2>2 DEF SftpOthers, Others, Shape, Ending, Counted
<1> QED BY <1>1, <1>2, <1>3, <1>4, <1>5, <1>6, <1>7, <1>8, <1>9, <1>10, <1>11 DEF SftpAct, SftpNext

(* The matches of a listing are files, finitely many.                      *)
LEMMA SftpGlobbed ==
  IsFiniteSet(Globbed) /\ Globbed \subseteq SftpFiles
BY SftpAssumption, FS_Subset DEF Globbed

(* A glob's matches are each file that is there, once. *)
LEMMA SftpFound ==
  ASSUME NEW found \in SetToAllKPermutations(Globbed), Len(found) = Cardinality(Globbed)
  PROVE  /\ found \in Seq(SftpFiles) /\ Range(found) = Globbed
         /\ \A i, j \in 1 .. Len(found) : found[i] = found[j] => i = j
<1>1. PICK S \in SUBSET Globbed : found \in SetToSeqs(S)
  BY DEF SetToAllKPermutations
<1>2. IsFiniteSet(Globbed) /\ Globbed \subseteq SftpFiles /\ IsFiniteSet(S) /\ Cardinality(S) \in Nat
  BY SftpGlobbed, FS_Subset, FS_CardinalityType
<1>3. found \in [1 .. Cardinality(S) -> S]
       /\ \A i, j \in 1 .. Cardinality(S) : i # j => found[i] # found[j]
  BY <1>1 DEF SetToSeqs
<1>4. IsInjective(found)
  BY <1>3 DEF IsInjective
<1>5. found \in Seq(S) /\ Len(found) = Cardinality(S) /\ Range(found) = S
  BY <1>2, <1>3, <1>4, FullSequence
<1>6. S = Globbed
  BY <1>2, <1>5, FS_Subset
<1> QED BY <1>2, <1>3, <1>5, <1>6

(* Removing one member leaves the others.                                  *)
LEMMA RemovedAt ==
  ASSUME NEW S, NEW s \in Seq(S), NEW i \in 1 .. Len(s)
  PROVE  RemoveAt(s, i) \in Seq(S) /\ Range(s) \subseteq {s[i]} \cup Range(RemoveAt(s, i))
<1>c. \A u, v \in Seq(S) : u \o v \in Seq(S) /\ Range(u \o v) = Range(u) \cup Range(v)
  BY ConcatIs
<1> PICK n \in Nat : n = Len(s)
  OBVIOUS
<1> PICK a : a = SubSeq(s, 1, i - 1)
  OBVIOUS
<1> PICK b : b = SubSeq(s, i + 1, n)
  OBVIOUS
<1>1. /\ a \in Seq(S) /\ Len(a) = i - 1 /\ \A k \in 1 .. (i - 1) : a[k] = s[k]
  OBVIOUS
<1>2. /\ b \in Seq(S) /\ Len(b) = n - i /\ \A k \in 1 .. (n - i) : b[k] = s[k + i]
  OBVIOUS
<1>3. RemoveAt(s, i) = a \o b
  BY DEF RemoveAt
<1>4. a \o b \in Seq(S) /\ Range(a \o b) = Range(a) \cup Range(b)
  <2>1. a \in Seq(S) /\ b \in Seq(S)
    BY <1>1, <1>2
  <2> QED BY <2>1, <1>c
<1>5. \A k \in 1 .. n : k # i => s[k] \in Range(a) \cup Range(b)
  <2> SUFFICES ASSUME NEW k \in 1 .. n, k # i PROVE s[k] \in Range(a) \cup Range(b)
    OBVIOUS
  <2>0. DOMAIN a = 1 .. (i - 1) /\ DOMAIN b = 1 .. (n - i)
    BY <1>1, <1>2
  <2>1. CASE k < i
    <3>1. k \in 1 .. (i - 1)
      BY <2>1
    <3> QED BY <1>1, <2>0, <3>1 DEF Range
  <2>2. CASE k > i
    <3>1. k - i \in 1 .. (n - i) /\ (k - i) + i = k
      BY <2>2
    <3>2. b[k - i] = s[k]
      BY <1>2, <3>1
    <3> QED BY <2>0, <3>1, <3>2 DEF Range
  <2> QED BY <2>1, <2>2
<1>6. DOMAIN s = 1 .. n
  OBVIOUS
<1>7. Range(s) \subseteq {s[i]} \cup Range(a \o b)
  <2> SUFFICES ASSUME NEW x \in Range(s) PROVE x = s[i] \/ x \in Range(a \o b)
    OBVIOUS
  <2>1. PICK k \in 1 .. n : x = s[k]
    BY <1>6 DEF Range
  <2>2. k # i => x \in Range(a \o b)
    BY <1>4, <1>5, <2>1
  <2> QED BY <2>1, <2>2
<1> QED BY <1>3, <1>4, <1>7

(* What a raise keeps, a step of others, and a step with its answer alone. *)
LEMMA SftpKeeps ==
  ASSUME Base, SftpInv, Base', call' = call, steady' \subseteq steady, UNCHANGED left,
         DOMAIN remote' = DOMAIN remote, Up' => Up,
         \/ at' = at /\ told' = told /\ answer' = answer
         \/ at' = "ended" /\ told # "returned" /\ told' = "raised" /\ answer' = answer
         \/ at = "connect" /\ at' = "glob" /\ told' = told /\ answer' = answer /\ call.only # "both"
         \/ at = "connect" /\ at' = "work" /\ told' = told /\ answer' = answer /\ call.op # "list_files"
  PROVE  SftpInv'
<1>0. SftpTyped /\ SftpLeft /\ SftpMatched /\ SftpOnce /\ Ending /\ Ending'
  BY DEF SftpInv, Base
<1>1. SftpTyped'
  BY <1>0 DEF SftpTyped
<1>2. SftpLeft'
  <2>1. SftpWork' <=> SftpWork
    BY DEF SftpWork
  <2>2. SftpWas' = SftpWas
    BY DEF SftpWas
  <2> QED BY <1>0, <2>1, <2>2 DEF SftpLeft, Ending
<1>3. SftpStays("file")' \subseteq SftpStays("file")
  BY DEF SftpStays
<1>4. SftpMatched'
  <2> SUFFICES ASSUME call.op = "list_files" PROVE SftpMatched'
    BY DEF SftpMatched
  <2>1. told # "returned" \/ (told' = told /\ at' = at)
    BY <1>0 DEF Ending
  <2> QED BY <1>0, <1>3, <2>1 DEF SftpMatched, Ending
<1>5. SftpOnce'
  <2> SUFFICES ASSUME told = "returned", answer' = answer PROVE SftpOnce'
    BY <1>0 DEF SftpOnce, Ending
  <2>1. \A x : x \notin steady => x \notin steady'
    OBVIOUS
  <2> QED BY <1>0, <1>3, <2>1 DEF SftpOnce
<1> QED BY <1>1, <1>2, <1>4, <1>5 DEF SftpInv

(* A return of a call that keeps no list of what is left, and is no listing. *)
LEMMA SftpReturns ==
  ASSUME Base, SftpInv, call' = call, UNCHANGED left, DOMAIN remote' = DOMAIN remote,
         at' = "ended", ~SftpWork, call.op # "list_files", SftpOnce'
  PROVE  SftpInv'
<1>1. SftpTyped'
  BY DEF SftpInv, SftpTyped
<1>2. SftpLeft' /\ SftpMatched'
  BY DEF SftpLeft, SftpMatched, SftpWork
<1> QED BY <1>1, <1>2 DEF SftpInv

(* A step on from a path of a call that goes through them. *)
LEMMA SftpGoesOn ==
  ASSUME Base, SftpInv, call' = call, steady' \subseteq steady, DOMAIN remote' = DOMAIN remote,
         NEW x, left' \in Seq(SftpPaths), Range(left) \subseteq {x} \cup Range(left'),
         SftpWork => <<x, SftpWas>> \notin steady',
         at = "work", at' = at, told' = told,
         call.op \in {"delete_file", "delete_files", "get_file", "put_file"}
  PROVE  SftpInv'
<1>0. SftpTyped /\ SftpLeft /\ Ending /\ told = "none"
  BY DEF SftpInv, Base, Ending
<1>1. SftpTyped'
  BY <1>0 DEF SftpTyped
<1>2. SftpLeft'
  <2>1. SftpWork' <=> SftpWork
    BY DEF SftpWork
  <2>2. SftpWas' = SftpWas
    BY DEF SftpWas
  <2>3. ASSUME SftpWork, NEW y \in Range(call.paths), y \notin Range(left')
        PROVE  <<y, SftpWas>> \notin steady'
    BY <1>0, <2>3 DEF SftpLeft
  <2> QED BY <1>0, <2>1, <2>2, <2>3 DEF SftpLeft, Range
<1>3. SftpMatched' /\ SftpOnce'
  BY <1>0 DEF SftpMatched, SftpOnce
<1> QED BY <1>1, <1>2, <1>3 DEF SftpInv

(* Every step of a SFTP call keeps its invariant.                          *)
LEMMA SftpStep ==
  ASSUME Base, SftpInv, SftpAct
  PROVE  SftpInv'
<1> USE DEF Goto, Return, Raise, SftpKept, Sftp
<1>0. SftpTyped /\ SftpLeft /\ SftpMatched /\ SftpOnce /\ Ending
  BY DEF SftpInv, Base
<1>1. Shape /\ Base' /\ steady' \subseteq steady /\ steady' \subseteq Facts(remote') /\ call' = call
  BY SftpShape, ShapeBase DEF Base, Known, Shape
<1>d. /\ \A p \in SftpPaths : p # "connection"
      /\ SftpFiles \subseteq SftpPaths /\ SftpDir \in SftpPaths
  BY SftpAssumption DEF SftpPaths
<1>n. \A x, v : remote'[x] # v => <<x, v>> \notin steady'
  <2> SUFFICES ASSUME NEW x, NEW v, remote'[x] # v PROVE <<x, v>> \notin steady'
    OBVIOUS
  <2> QED BY <1>1, NotSteady
<1>r. ASSUME Raise, UNCHANGED left, DOMAIN remote' = DOMAIN remote, Up' => Up
      PROVE  SftpInv'
  <2>1. told # "returned"
    BY <1>1, <1>r DEF Shape
  <2> QED BY <1>1, <1>r, <2>1, SftpKeeps
<1>s. ASSUME UNCHANGED service
      PROVE  DOMAIN remote' = DOMAIN remote /\ (Up' <=> Up) /\ remote' = remote
  BY <1>s DEF service, Up
<1>2. CASE SftpConnect
  <2>1. UNCHANGED <<left, service>>
    BY <1>2 DEF SftpConnect
  <2>2. CASE Raise
    BY <1>r, <1>s, <2>1, <2>2
  <2>3. CASE Goto(IF Sftp("list_files") THEN "glob" ELSE "work")
    BY <1>1, <1>2, <1>s, <2>1, <2>3, SftpKeeps DEF SftpConnect
  <2> QED BY <1>2, <2>2, <2>3 DEF SftpConnect
<1>3. CASE SftpTest
  <2>0. left' = left /\ remote' = remote /\ call.op \in Tests
    BY <1>3 DEF SftpTest, service
  <2>1. SftpOnce'
    BY <1>1, <2>0 DEF SftpOnce, Tests
  <2>2. ~SftpWork /\ call.op # "list_files" /\ at' = "ended"
    BY <1>3, <2>0 DEF SftpWork, Tests, SftpTest
  <2> QED BY <1>1, <2>0, <2>1, <2>2, SftpReturns
<1>4. CASE SftpRefuse
  BY <1>4, <1>r, <1>s DEF SftpRefuse
<1>5. CASE SftpDrop
  <2>1. remote' = [remote EXCEPT !["connection"] = "down"]
    BY <1>5 DEF SftpDrop, Set, Becomes
  <2>2. DOMAIN remote' = DOMAIN remote /\ ~Up'
    BY <1>0, <2>1 DEF Up, SftpTyped
  <2> QED BY <1>1, <1>5, <2>2, SftpKeeps DEF SftpDrop
<1>6. CASE SftpGlob
  <2>0. at = "glob" /\ call.op = "list_files" /\ UNCHANGED service /\ told = "none" /\ answer = << >>
         /\ ~SftpWork
    BY <1>0, <1>6 DEF SftpGlob, SftpMatched, Ending, SftpWork
  <2>1. CASE Raise /\ UNCHANGED left
    BY <1>r, <1>s, <2>0, <2>1
  <2>2. CASE Return(<< >>) /\ (~Up \/ Globbed = {}) /\ UNCHANGED left
    <3>1. Up => SftpStays("file")' = {}
      <4> SUFFICES ASSUME Up, NEW p \in SftpFiles PROVE <<p, "file">> \notin steady'
        BY DEF SftpStays
      <4>1. remote'[p] = "none"
        BY <1>s, <2>0, <2>2 DEF Globbed, There
      <4> QED BY <1>n, <4>1
    <3>2. SftpMatched'
      BY <1>0, <1>1, <1>s, <2>0, <2>2, <3>1 DEF SftpMatched, Range
    <3> QED BY <1>0, <1>1, <1>s, <2>0, <2>2, <3>2 DEF SftpInv, SftpTyped, SftpLeft, SftpWork, SftpOnce
  <2>3. CASE \E found \in SetToAllKPermutations(Globbed) :
          /\ Up /\ Globbed # {} /\ Len(found) = Cardinality(Globbed)
          /\ Goto("stat") /\ left' = found
    <3>1. PICK found \in SetToAllKPermutations(Globbed) :
            Len(found) = Cardinality(Globbed) /\ Goto("stat") /\ left' = found
      BY <2>3
    <3>2. /\ left' \in Seq(SftpFiles) /\ Range(left') = Globbed
          /\ \A i, j \in 1 .. Len(left') : left'[i] = left'[j] => i = j
      BY <3>1, SftpFound
    <3>3. \A p \in Globbed : <<p, "none">> \notin steady'
      BY <1>n, <1>s, <2>0 DEF Globbed, There
    <3>4. SftpStays("file")' \subseteq Globbed
      <4> SUFFICES ASSUME NEW p \in SftpFiles, p \notin Globbed PROVE <<p, "file">> \notin steady'
        BY DEF SftpStays
      <4>1. remote'[p] = "none"
        BY <1>s, <2>0 DEF Globbed, There
      <4> QED BY <1>n, <4>1
    <3>5. Range(answer') = {}
      BY <2>0, <3>1 DEF Range
    <3>6. left' \in Seq(SftpPaths)
      BY <1>d, <3>2
    <3>7. SftpMatched'
      BY <1>0, <1>1, <2>0, <3>1, <3>2, <3>3, <3>4, <3>5 DEF SftpMatched
    <3> QED BY <1>0, <1>1, <1>s, <2>0, <3>1, <3>6, <3>7 DEF SftpInv, SftpTyped, SftpLeft, SftpWork, SftpOnce
  <2> QED BY <1>6, <2>1, <2>2, <2>3 DEF SftpGlob
<1>7. CASE SftpStat
  <2>0. /\ at = "stat" /\ call.op = "list_files" /\ UNCHANGED service /\ told = "none" /\ left # << >>
        /\ left \in Seq(SftpFiles) /\ answer \in Seq(SftpFiles) /\ ~SftpWork
    BY <1>0, <1>7 DEF SftpStat, SftpMatched, Ending, SftpWork
  <2>1. CASE Raise /\ UNCHANGED left
    BY <1>r, <1>s, <2>0, <2>1
  <2>2. CASE /\ Rest /\ UNCHANGED <<at, told>>
             /\ \/ /\ Up /\ There(Head(left))
                   /\ answer' = IF Included(remote[Head(left)]) THEN Append(answer, Head(left)) ELSE answer
                \/ ~(Up /\ There(Head(left))) /\ answer' = answer
    <3>h. PICK p : p = Head(left)
      OBVIOUS
    <3>1. /\ p \in SftpFiles /\ left' \in Seq(SftpFiles) /\ Range(left) = {p} \cup Range(left') /\ p = left[1]
          /\ Len(left') = Len(left) - 1 /\ Len(left) \in Nat \ {0}
          /\ \A i \in 1 .. Len(left') : left'[i] = left[i + 1]
      BY <2>0, <2>2, <3>h, HeadTail DEF Rest
    <3>m. /\ \A i, j \in 1 .. Len(answer) : answer[i] = answer[j] => i = j
          /\ \A q \in Range(answer) : <<q, "none">> \notin steady
          /\ \A i, j \in 1 .. Len(left) : left[i] = left[j] => i = j
          /\ Range(answer) \cap Range(left) = {}
          /\ \A q \in Range(left) : <<q, "none">> \notin steady
          /\ Up /\ call.only # "dirs" => SftpStays("file") \subseteq Range(answer) \cup Range(left)
      BY <1>0, <2>0 DEF SftpMatched
    <3>2. DOMAIN left' = 1 .. Len(left')
      BY <3>1
    <3>3. p \notin Range(left')
      <4> SUFFICES ASSUME NEW i \in 1 .. Len(left') PROVE left'[i] # p
        BY <3>2 DEF Range
      <4>1. i + 1 \in 1 .. Len(left) /\ 1 \in 1 .. Len(left) /\ i + 1 # 1
        BY <3>1
      <4> QED BY <3>1, <3>m, <4>1
    <3>4. ASSUME NEW i \in 1 .. Len(left'), NEW j \in 1 .. Len(left'), left'[i] = left'[j]
          PROVE  i = j
      <4>1. i + 1 \in 1 .. Len(left) /\ j + 1 \in 1 .. Len(left)
        BY <3>1
      <4>2. i + 1 = j + 1
        BY <3>1, <3>4, <3>m, <4>1
      <4> QED BY <4>2
    <3>5. SftpStays("file")' \subseteq SftpStays("file")
      BY <1>1 DEF SftpStays
    <3>6. left' \in Seq(SftpPaths)
      BY <1>d, <3>1
    <3>7. CASE answer' = Append(answer, p)
      <4>1. Range(answer') = Range(answer) \cup {p}
        BY <2>0, <3>7, AppendRange
      <4>2. /\ answer' \in Seq(SftpFiles) /\ Len(answer') = Len(answer) + 1 /\ Len(answer) \in Nat
            /\ answer'[Len(answer) + 1] = p /\ \A i \in 1 .. Len(answer) : answer'[i] = answer[i]
            /\ DOMAIN answer = 1 .. Len(answer)
        BY <2>0, <3>1, <3>7
      <4>3. \A i \in 1 .. Len(answer) : answer[i] # p
        BY <3>1, <3>m, <4>2 DEF Range
      <4>4. ASSUME NEW i \in 1 .. Len(answer'), NEW j \in 1 .. Len(answer'), answer'[i] = answer'[j]
            PROVE  i = j
        <5>1. i \in 1 .. Len(answer) \/ i = Len(answer) + 1
          BY <4>2
        <5>2. j \in 1 .. Len(answer) \/ j = Len(answer) + 1
          BY <4>2
        <5> QED BY <3>m, <4>2, <4>3, <4>4, <5>1, <5>2
      <4>5. SftpMatched'
        BY <1>0, <1>1, <1>s, <2>0, <2>2, <3>1, <3>m, <3>3, <3>4, <3>5, <4>1, <4>2, <4>4 DEF SftpMatched
      <4> QED BY <1>0, <1>1, <1>s, <2>0, <2>2, <3>6, <4>5 DEF SftpInv, SftpTyped, SftpLeft, SftpWork, SftpOnce
    <3>8. CASE answer' = answer
      <4>1. Up /\ call.only # "dirs" => p \notin SftpStays("file")'
        <5> SUFFICES ASSUME Up, call.only # "dirs", <<p, "file">> \in steady' PROVE FALSE
          BY DEF SftpStays
        <5>1. remote'[p] = "file"
          BY <1>n
        <5>2. Included(remote[p]) /\ There(p)
          BY <1>0, <1>s, <2>0, <5>1 DEF Included, SftpMatched, There
        <5>3. answer' = Append(answer, p)
          BY <2>2, <3>h, <5>2
        <5>4. Len(answer') = Len(answer) + 1 /\ Len(answer) \in Nat
          BY <2>0, <3>1, <5>3
        <5> QED BY <3>8, <5>4
      <4>2. SftpMatched'
        BY <1>0, <1>1, <1>s, <2>0, <2>2, <3>1, <3>m, <3>3, <3>4, <3>5, <3>8, <4>1 DEF SftpMatched
      <4> QED BY <1>0, <1>1, <1>s, <2>0, <2>2, <3>6, <4>2 DEF SftpInv, SftpTyped, SftpLeft, SftpWork, SftpOnce
    <3> QED BY <2>2, <3>h, <3>7, <3>8
  <2> QED BY <1>7, <2>1, <2>2 DEF SftpStat
<1>8. CASE SftpListed
  <2>0. /\ at = "stat" /\ call.op = "list_files" /\ UNCHANGED <<left, service>> /\ told = "none" /\ left = << >>
        /\ Return(answer) /\ ~SftpWork /\ Range(left) = {}
    BY <1>0, <1>8 DEF SftpListed, Ending, SftpWork, Range
  <2>1. SftpStays("file")' \subseteq SftpStays("file")
    BY <1>1 DEF SftpStays
  <2>2. SftpMatched'
    BY <1>0, <1>1, <1>s, <2>0, <2>1 DEF SftpMatched
  <2> QED BY <1>0, <1>1, <1>s, <2>0, <2>2 DEF SftpInv, SftpTyped, SftpLeft, SftpWork, SftpOnce
<1>9. CASE SftpGet
  <2>0. /\ at = "work" /\ call.op = "get_file" /\ UNCHANGED service /\ told = "none" /\ left # << >>
    BY <1>0, <1>9 DEF SftpGet, Ending
  <2>1. CASE Raise /\ UNCHANGED left
    BY <1>r, <1>s, <2>0, <2>1
  <2>2. CASE /\ Rest /\ UNCHANGED <<at, told>> /\ (There(Head(left)) \/ call.handler = "ignore")
    <3>h. PICK p : p = Head(left)
      OBVIOUS
    <3>1. left' \in Seq(SftpPaths) /\ Range(left) = {p} \cup Range(left')
      BY <1>0, <2>0, <2>2, <3>h, HeadTail DEF Rest, SftpTyped
    <3>2. SftpWork => <<p, SftpWas>> \notin steady'
      BY <1>n, <1>s, <2>0, <2>2, <3>h DEF SftpWork, SftpWas, There
    <3> QED BY <1>1, <1>s, <2>0, <2>2, <3>1, <3>2, SftpGoesOn
  <2> QED BY <1>9, <2>0, <2>1, <2>2 DEF SftpGet, Transferred, NotTransferred, Swallows
<1>10. CASE SftpPut
  <2>0. /\ at = "work" /\ call.op = "put_file" /\ told = "none" /\ left # << >>
    BY <1>0, <1>10 DEF SftpPut, Ending
  <2>h. PICK p : p = Head(left)
    OBVIOUS
  <2>1. p \in SftpPaths /\ p # "connection" /\ Tail(left) \in Seq(SftpPaths) /\ Range(left) = {p} \cup Range(Tail(left))
    BY <1>0, <1>d, <2>0, <2>h, HeadTail DEF SftpTyped
  <2>2. DOMAIN remote' = DOMAIN remote /\ (Up' => Up)
    BY <1>0, <1>10, <1>s, <2>1, <2>h DEF SftpPut, Set, Becomes, Up, SftpTyped
  <2>3. CASE Raise /\ UNCHANGED left
    BY <1>r, <2>2, <2>3
  <2>4. CASE /\ Rest /\ UNCHANGED <<at, told>> /\ (Set(p, "file") \/ call.handler = "ignore")
    <3>1. SftpWork => <<p, SftpWas>> \notin steady'
      <4> SUFFICES ASSUME call.handler # "ignore" PROVE <<p, "none">> \notin steady'
        BY <2>0 DEF SftpWork, SftpWas
      <4>1. remote'[p] = "file"
        BY <1>0, <2>1, <2>4 DEF Set, Becomes, SftpTyped
      <4> QED BY <1>n, <4>1
    <3> QED BY <1>1, <2>0, <2>1, <2>2, <2>4, <3>1, SftpGoesOn DEF Rest
  <2> QED BY <1>10, <2>0, <2>h, <2>3, <2>4 DEF SftpPut, Transferred, NotTransferred, Swallows
<1>11. CASE SftpTransferred
  <2>0. /\ at = "work" /\ call.op \in {"get_file", "put_file"} /\ UNCHANGED <<left, service>> /\ left = << >>
        /\ at' = "ended" /\ told' = "returned"
    BY <1>11 DEF SftpTransferred
  <2>1. SftpTyped'
    BY <1>0, <1>1, <1>s, <2>0 DEF SftpTyped
  <2>2. SftpWork' <=> SftpWork
    BY <1>1 DEF SftpWork
  <2>3. SftpWas' = SftpWas
    BY <1>1 DEF SftpWas
  <2>4. SftpLeft'
    BY <1>0, <1>1, <2>0, <2>2, <2>3 DEF SftpLeft
  <2> QED BY <1>1, <2>0, <2>1, <2>4 DEF SftpInv, SftpMatched, SftpOnce
<1>12. CASE SftpDelete
  <2>0. at = "work" /\ call.op \in {"delete_file", "delete_files"} /\ told = "none" /\ SftpWas = "file"
         /\ left \in Seq(SftpPaths) /\ Range(left) \subseteq SftpPaths
    BY <1>0, <1>12, SeqMembers DEF SftpDelete, Ending, SftpWas, SftpTyped
  <2>1. CASE \E i \in DOMAIN left : /\ Set(left[i], "none") /\ left' = RemoveAt(left, i)
                                    /\ UNCHANGED <<at, answer, told>>
    <3>1. PICK i \in 1 .. Len(left) : /\ Set(left[i], "none") /\ left' = RemoveAt(left, i)
                                      /\ UNCHANGED <<at, answer, told>>
      BY <2>0, <2>1, SeqMembers
    <3>2. PICK p : p = left[i]
      OBVIOUS
    <3>3. left' \in Seq(SftpPaths) /\ Range(left) \subseteq {p} \cup Range(left') /\ p \in SftpPaths
      BY <2>0, <3>1, <3>2, RemovedAt, SeqMembers
    <3>4. DOMAIN remote' = DOMAIN remote /\ remote'[p] = "none"
      BY <1>0, <3>1, <3>2, <3>3 DEF Set, Becomes, SftpTyped
    <3>5. <<p, SftpWas>> \notin steady'
      BY <1>n, <2>0, <3>4
    <3> QED BY <1>1, <2>0, <3>1, <3>3, <3>4, <3>5, SftpGoesOn
  <2>2. CASE Raise /\ UNCHANGED left /\ \E gone \in SUBSET {p \in Waiting : Up /\ remote[p] \in {"file", "part"}} :
               Becomes(Without(gone))
    <3>1. DOMAIN remote' = DOMAIN remote
      BY <2>2 DEF Becomes, Without
    <3>2. "connection" \notin Waiting
      BY <1>d, <2>0 DEF Waiting, Range
    <3>3. Up' <=> Up
      BY <1>0, <2>2, <3>2 DEF Becomes, Without, Up, SftpTyped
    <3> QED BY <1>r, <2>2, <3>1, <3>3
  <2>3. CASE left = << >> /\ Return(<< >>) /\ UNCHANGED <<left, service>>
    <3>1. SftpTyped'
      BY <1>0, <1>1, <1>s, <2>3 DEF SftpTyped
    <3>2. (SftpWork' <=> SftpWork) /\ SftpWas' = SftpWas
      BY <1>1 DEF SftpWork, SftpWas
    <3>3. SftpLeft'
      BY <1>0, <1>1, <2>3, <3>2 DEF SftpLeft
    <3> QED BY <1>1, <2>0, <2>3, <3>1, <3>3 DEF SftpInv, SftpMatched, SftpOnce
  <2> QED BY <1>12, <2>1, <2>2, <2>3 DEF SftpDelete
<1>13. CASE SftpOthers
  <2>1. PICK p \in SftpFiles : Others([remote EXCEPT ![p] = IF There(p) THEN "none" ELSE "file"])
    BY <1>13 DEF SftpOthers
  <2>2. remote' = [remote EXCEPT ![p] = IF There(p) THEN "none" ELSE "file"]
         /\ UNCHANGED <<at, left, answer, told>>
    BY <2>1 DEF Others, Becomes
  <2>3. DOMAIN remote' = DOMAIN remote /\ (Up' <=> Up)
    BY <1>0, <1>d, <2>2 DEF Up, SftpTyped
  <2> QED BY <1>1, <2>2, <2>3, SftpKeeps
<1>14. CASE SftpMkdir
  <2>0. at = "work" /\ call.op = "mkdir" /\ UNCHANGED left /\ ~SftpWork
    BY <1>14 DEF SftpMkdir, SftpWork
  <2>1. CASE Raise /\ UNCHANGED service
    BY <1>r, <1>s, <2>0, <2>1
  <2>2. CASE Return(<< >>) /\ (Set(SftpDir, "dir") \/ (remote[SftpDir] = "dir" /\ UNCHANGED service))
    <3>1. DOMAIN remote' = DOMAIN remote /\ remote'[SftpDir] = "dir"
      BY <1>0, <1>d, <2>2 DEF Set, Becomes, SftpTyped, service
    <3>2. <<SftpDir, "none">> \notin steady'
      BY <1>n, <3>1
    <3>3. SftpOnce'
      BY <1>1, <2>0, <3>2 DEF SftpOnce
    <3> QED BY <1>1, <2>0, <2>2, <3>1, <3>3, SftpReturns
  <2> QED BY <1>14, <2>1, <2>2 DEF SftpMkdir
<1>15. CASE SftpRmtree
  <2>0. call.op = "rmtree" /\ ~SftpWork /\ at \in {"work", "remove"} /\ told = "none"
    BY <1>0, <1>15 DEF SftpRmtree, SftpWork, Ending
  <2>1. CASE Raise /\ UNCHANGED <<left, service>>
    BY <1>r, <1>s, <2>0, <2>1
  <2>2. CASE Goto("remove") /\ left' = SetToSeq(Globbed) /\ UNCHANGED service
    <3>1. left' \in Seq(SftpPaths)
      <4>1. SetToSeq(Globbed) \in Seq(Globbed)
        BY SftpGlobbed, SetToSeqIs
      <4> QED BY <1>d, <2>2, <4>1, SftpGlobbed
    <3> QED BY <1>0, <1>1, <1>s, <2>0, <2>2, <3>1 DEF SftpInv, SftpTyped, SftpLeft, SftpWork, SftpMatched, SftpOnce
  <2>3. CASE left # << >> /\ Set(Head(left), "none") /\ Rest /\ UNCHANGED <<at, answer, told>>
    <3>1. left' \in Seq(SftpPaths)
      BY <1>0, <2>3, HeadTail DEF SftpTyped, Rest
    <3>2. DOMAIN remote' = DOMAIN remote
      BY <2>3 DEF Set, Becomes
    <3> QED BY <1>0, <1>1, <2>0, <2>3, <3>1, <3>2 DEF SftpInv, SftpTyped, SftpLeft, SftpWork, SftpMatched, SftpOnce
  <2>4. CASE Globbed = {} /\ Set(SftpDir, "none") /\ Return(<< >>) /\ UNCHANGED left
    <3>1. DOMAIN remote' = DOMAIN remote /\ remote'[SftpDir] = "none" /\ \A p \in SftpFiles : remote'[p] = remote[p]
      BY <1>0, <1>d, <2>4, SftpAssumption DEF Set, Becomes, SftpTyped
    <3>2. <<SftpDir, "dir">> \notin steady'
      BY <1>n, <3>1
    <3>3. SftpStays("file")' = {}
      BY <1>n, <2>4, <3>1 DEF SftpStays, Globbed, There
    <3>4. SftpOnce'
      BY <1>1, <2>0, <3>2, <3>3 DEF SftpOnce
    <3> QED BY <1>1, <2>0, <2>4, <3>1, <3>4, SftpReturns
  <2> QED BY <1>15, <2>1, <2>2, <2>3, <2>4 DEF SftpRmtree
<1>16. CASE SftpRename
  <2>0. at = "work" /\ call.op = "rename" /\ UNCHANGED left /\ ~SftpWork /\ left = call.paths
    BY <1>0, <1>16 DEF SftpRename, SftpWork, SftpTyped
  <2>1. CASE Raise /\ UNCHANGED service
    BY <1>r, <1>s, <2>0, <2>1
  <2>2. PICK old, new : old = left[1] /\ new = left[2] /\ old \in SftpPaths /\ new \in SftpPaths
    <3>1. left \in Seq(SftpPaths) /\ Len(left) = 2
      BY <1>0, <2>0 DEF SftpTyped
    <3> QED BY <3>1
  <2>3. CASE /\ There(old) /\ ~There(new) /\ Return(<< >>)
             /\ Becomes([remote EXCEPT ![new] = remote[old], ![old] = "none"])
    <3>1. DOMAIN remote' = DOMAIN remote /\ remote'[old] = "none" /\ remote'[new] # "none"
      BY <1>0, <2>2, <2>3 DEF Becomes, SftpTyped, There
    <3>2. <<old, "file">> \notin steady' /\ <<new, "none">> \notin steady'
      BY <1>n, <3>1
    <3>3. SftpOnce'
      BY <1>1, <2>0, <2>2, <3>2 DEF SftpOnce
    <3> QED BY <1>1, <2>0, <2>3, <3>1, <3>3, SftpReturns
  <2> QED BY <1>16, <2>1, <2>2, <2>3 DEF SftpRename
<1>17. CASE SftpExists
  <2>0. at = "work" /\ call.op = "file_exists" /\ UNCHANGED <<left, service>> /\ ~SftpWork /\ left = call.paths
    BY <1>0, <1>17 DEF SftpExists, SftpAnswers, SftpWork, SftpTyped
  <2>1. CASE Raise
    BY <1>r, <1>s, <2>0, <2>1
  <2>2. CASE Return(There(left[1]))
    <3>1. answer' = (remote'[call.paths[1]] # "none")
      BY <1>s, <2>0, <2>2 DEF There
    <3>2. <<call.paths[1], IF answer' THEN "none" ELSE "file">> \notin steady'
      <4>1. CASE remote'[call.paths[1]] # "none"
        BY <1>n, <3>1, <4>1
      <4>2. CASE remote'[call.paths[1]] = "none"
        BY <1>n, <3>1, <4>2
      <4> QED BY <4>1, <4>2
    <3>3. SftpOnce'
      BY <1>1, <2>0, <3>2 DEF SftpOnce
    <3> QED BY <1>1, <1>s, <2>0, <2>2, <3>3, SftpReturns
  <2> QED BY <1>17, <2>1, <2>2 DEF SftpExists, SftpAnswers
<1>18. CASE SftpIsDir \/ SftpIsFile \/ SftpInfo
  <2>0. call.op \in {"is_dir", "is_file", "get_file_info"} /\ UNCHANGED <<left, service>> /\ ~SftpWork /\ at' = "ended"
    BY <1>18 DEF SftpIsDir, SftpIsFile, SftpInfo, SftpAnswers, SftpWork
  <2>1. SftpOnce'
    BY <1>1, <2>0 DEF SftpOnce
  <2> QED BY <1>1, <1>s, <2>0, <2>1, SftpReturns
<1> QED BY <1>2, <1>3, <1>4, <1>5, <1>6, <1>7, <1>8, <1>9, <1>10, <1>11, <1>12, <1>13, <1>14, <1>15, <1>16, <1>17, <1>18
        DEF SftpAct, SftpNext

(* What the invariant says of a SFTP call that has ended.                  *)
LEMMA SftpMeans ==
  ASSUME Base, SftpInv, told = "returned"
  PROVE  SftpDone /\ SftpListing
<1>0. SftpTyped /\ SftpLeft /\ SftpMatched /\ SftpOnce
  BY DEF SftpInv
<1>1. Asked = Range(call.paths)
  BY DEF Asked, Range
<1>2. SftpWork => \A x \in Asked : <<x, SftpWas>> \notin steady
  <2>1. SftpWork => Range(left) = {}
    BY <1>0 DEF SftpLeft, Range
  <2> QED BY <1>0, <1>1, <2>1 DEF SftpLeft
<1>3. SftpDone
  <2>1. CASE call.op \in {"delete_file", "delete_files"}
    BY <1>2, <2>1 DEF SftpDone, SftpWork, SftpWas, SftpStays
  <2>2. CASE call.op \in {"get_file", "put_file"}
    <3>1. CASE call.handler = "ignore"
      BY <2>2, <3>1 DEF SftpDone
    <3>2. CASE call.handler # "ignore"
      <4>1. Asked \cap SftpStays("none") = {}
        BY <1>2, <2>2, <3>2 DEF SftpWork, SftpWas, SftpStays
      <4> QED BY <2>2, <4>1 DEF SftpDone
    <3> QED BY <3>1, <3>2
  <2>3. CASE call.op = "rmtree"
    BY <1>0, <2>3 DEF SftpDone, SftpOnce
  <2>4. CASE call.op \in {"mkdir", "rename", "file_exists"}
    BY <1>0, <2>4 DEF SftpDone, SftpOnce
  <2>5. CASE call.op \notin {"delete_file", "delete_files", "get_file", "put_file", "rmtree", "mkdir", "rename", "file_exists"}
    BY <2>5 DEF SftpDone
  <2> QED BY <2>1, <2>2, <2>3, <2>4, <2>5
<1>4. SftpListing
  <2> SUFFICES ASSUME call.op = "list_files", Up, call.only # "dirs" PROVE SftpListing
    BY DEF SftpListing, Up
  <2>1. DOMAIN answer = 1 .. Len(answer)
    BY <1>0, SeqMembers DEF SftpMatched
  <2>2. IsInjective(answer)
    BY <1>0, <2>1 DEF SftpMatched, IsInjective
  <2>3. SftpStays("file") \subseteq Range(answer) /\ SftpStays("none") \cap Range(answer) = {}
    BY <1>0 DEF SftpMatched, SftpStays
  <2> QED BY <2>2, <2>3 DEF SftpListing, Range
<1> QED BY <1>3, <1>4

------------------------------------------------------------------------------
(***************************************************************************)
(* ElasticsearchManager: the alias is on whole outputs only.               *)
(***************************************************************************)
EsAct == EsNext \/ EsOthers
EsStates == {"none", "empty", "one", "whole"}
EsKnown == {x \in EsRollovers : EsThere(x)}

EsTyped ==
  /\ call \in Calls /\ call.client = "elasticsearch"
  /\ DOMAIN remote = EsIndices \cup {"alias", "reaper"}
  /\ \A x \in EsIndices : remote[x] \in EsStates
  /\ remote["alias"] \subseteq EsKnown
  /\ call.op = "load_input" =>
       /\ at \in {"there?", "scan", "pages", "ended"} /\ answer \in Seq({"whole"})
       /\ \A x \in EsIndices : remote[x] \in {"none", "whole"}
  /\ call.op = "handle_output" =>
       /\ answer \in Seq({"failures"})
       /\ at \in {"rollover", "create", "bulk", "aliases?", "swap", "old ones?", "delete", "ended"}
(* Where a call may be, and with what left to do. *)
EsPlaces ==
  /\ at \in {"rollover", "create", "aliases?", "swap", "old ones?", "delete"} => call.alias
  /\ at = "rollover" /\ EsTarget \in remote["alias"] => EsAgain
  /\ at \in {"create", "bulk", "aliases?", "swap"} => EsTarget \notin remote["alias"]
  /\ at \in {"rollover", "create"} => left = EsChunks
  /\ at = "bulk" => left \subseteq EsChunks
  /\ at = "swap" /\ EsAlone => left = remote["alias"]
  /\ at \in {"old ones?", "delete"} => EsTarget \in EsRollovers
  /\ at = "delete" => left \subseteq EsRollovers \ {EsTarget} /\ (left # {} => call.keep > 0)
  /\ at \in {"there?", "scan"} => answer = << >>
  /\ at = "pages" => left \subseteq EsIndices /\ (answer = << >> => left # {})
(* The output, chunk by chunk. *)
EsWritten ==
  call.op = "handle_output" /\ answer = << >> /\ EsUnreaped =>
    /\ at = "bulk" /\ left # EsChunks => remote[EsTarget] \in {"one", "whole"}
    /\ (at = "bulk" /\ left = {}) \/ at \in {"aliases?", "swap", "old ones?", "delete"} \/ told = "returned"
         => remote[EsTarget] = "whole"
(* The alias, once it has been moved, and before. *)
EsMoved ==
  call.op = "handle_output" /\ call.alias /\ EsAlone =>
    (at \in {"old ones?", "delete"} \/ told = "returned" => remote["alias"] = {EsTarget})
EsSound == answer = << >> /\ EsUnreaped => \A x \in remote["alias"] : remote[x] = "whole"
EsEmpty == remote["alias"] = {} => <<"alias", {}>> \in steady \/ EsAgain \/ (call.keep > 0 /\ ~EsAlone)
(* The indices that a clean-up leaves, and what it promises. *)
EsStaying == EsNames \ left
EsFew ==
  call.keep > 0 /\ EsAlone /\ at = "delete" =>
    \A x \in EsStaying : 1 + Cardinality({y \in EsStaying : EsAfter(y, x)}) < call.keep
EsInv == /\ EsTyped /\ EsPlaces /\ EsWritten /\ EsMoved /\ EsSound /\ EsEmpty /\ EsFew
         /\ told = "returned" => EsDone /\ EsListing

(* What the assumption says of the indices.                                *)
LEMMA EsConstants ==
  /\ EsOrder[2] \in EsRollovers /\ EsRollovers \subseteq EsIndices /\ EsBare \in EsIndices
  /\ "alias" \notin EsIndices /\ "reaper" \notin EsIndices /\ IsFiniteSet(EsRollovers)
  /\ EsRollovers \cap {EsBare} = {} /\ EsOrder[1] \in EsRollovers
<1>1. DOMAIN EsOrder = 1 .. Len(EsOrder) /\ Len(EsOrder) \in Nat /\ 2 \in 1 .. Len(EsOrder) /\ 1 \in 1 .. Len(EsOrder)
  BY EsAssumption
<1>2. EsRollovers = Range(EsOrder)
  BY DEF EsRollovers, Range
<1>3. IsFiniteSet(1 .. Len(EsOrder))
  BY <1>1, FS_Interval
<1>4. EsOrder \in Surjection(1 .. Len(EsOrder), EsRollovers)
  <2>1. EsOrder \in [1 .. Len(EsOrder) -> EsRollovers]
    BY EsAssumption
  <2>2. \A x \in EsRollovers : \E i \in 1 .. Len(EsOrder) : EsOrder[i] = x
    BY <1>1 DEF EsRollovers
  <2> QED BY <2>1, <2>2 DEF Surjection
<1>5. IsFiniteSet(EsRollovers)
  BY <1>3, <1>4, FS_Surjection
<1> QED BY <1>1, <1>5, EsAssumption DEF EsRollovers, EsIndices

(* A Elasticsearch call begins with its invariant.                         *)
LEMMA EsInitial ==
  ASSUME EsBegin
  PROVE  Base /\ EsInv /\ call.client = "elasticsearch"
<1> DEFINE Where(c) == IF c.op = "load_input" THEN "there?" ELSE IF c.alias THEN "rollover" ELSE "bulk"
           Remote(under, whole) ==
             [x \in EsIndices \cup {"alias", "reaper"} |->
                CASE x = "alias" -> under [] x = "reaper" -> "idle"
                  [] x \in whole -> "whole" [] OTHER -> "none"]
<1>1. PICK c \in Calls, under \in {{}, {EsOrder[2]}}, whole \in SUBSET EsIndices :
        /\ c.client = "elasticsearch" /\ (under # {} => c.alias) /\ under \subseteq whole
        /\ Begin(c, Where(c), EsChunks, Remote(under, whole))
  <2>1. PICK c \in Calls : c.client = "elasticsearch" /\
          \E under \in IF c.alias THEN {{}, {EsOrder[2]}} ELSE {{}} :
          \E whole \in IF c.alias THEN {under, under \cup {EsOrder[1]}} ELSE {{}, {EsBare}} :
            Begin(c, Where(c), EsChunks, Remote(under, whole))
    BY DEF EsBegin
  <2>2. PICK under \in IF c.alias THEN {{}, {EsOrder[2]}} ELSE {{}} :
          \E whole \in IF c.alias THEN {under, under \cup {EsOrder[1]}} ELSE {{}, {EsBare}} :
            Begin(c, Where(c), EsChunks, Remote(under, whole))
    BY <2>1
  <2>3. PICK whole \in IF c.alias THEN {under, under \cup {EsOrder[1]}} ELSE {{}, {EsBare}} :
            Begin(c, Where(c), EsChunks, Remote(under, whole))
    BY <2>2
  <2>4. under \in {{}, {EsOrder[2]}} /\ (under # {} => c.alias) /\ whole \in SUBSET EsIndices /\ under \subseteq whole
    BY <2>1, <2>2, <2>3, EsConstants
  <2> QED BY <2>1, <2>3, <2>4
<1>2. Base
  BY <1>1, BeginBase
<1>3. /\ call = c /\ left = EsChunks /\ at = Where(c) /\ answer = << >> /\ told = "none" /\ remote = Remote(under, whole)
      /\ steady = Facts(remote)
  BY <1>1 DEF Begin
<1>4. /\ c.op \in {"handle_output", "load_input"} /\ c.target \in EsIndices /\ c.alias \in BOOLEAN
  BY <1>1, EsAssumption
<1>5. /\ DOMAIN remote = EsIndices \cup {"alias", "reaper"} /\ remote["alias"] = under /\ remote["reaper"] = "idle"
      /\ \A x \in EsIndices : remote[x] = IF x \in whole THEN "whole" ELSE "none"
  BY <1>3, EsConstants
<1>6. under \subseteq EsKnown /\ \A x \in under : remote[x] = "whole"
  BY <1>1, <1>5, EsConstants DEF EsKnown, EsThere
<1>7. EsTyped
  BY <1>1, <1>3, <1>4, <1>5, <1>6 DEF EsTyped, EsStates
<1>8. EsPlaces
  BY <1>1, <1>3, <1>4, <1>5 DEF EsPlaces, EsTarget, EsAgain, EsChunks
<1>9. EsWritten /\ EsMoved /\ EsFew /\ told # "returned"
  BY <1>3, <1>4 DEF EsWritten, EsMoved, EsFew, EsChunks
<1>10. EsSound
  BY <1>5, <1>6 DEF EsSound
<1>11. EsEmpty
  <2>1. "alias" \in DOMAIN remote
    BY <1>5
  <2> QED BY <1>3, <1>5, <2>1, FactIs DEF EsEmpty
<1> QED BY <1>1, <1>2, <1>3, <1>7, <1>8, <1>9, <1>10, <1>11 DEF EsInv

(* What every step of a Elasticsearch call leaves alone, and what it may   *)
(* count.                                                                  *)
LEMMA EsShape ==
  ASSUME Base, EsInv, EsAct
  PROVE  Shape /\ call.client = "elasticsearch"
<1> USE DEF Base, Goto, Return, Raise, NoTrouble, Miss, Trouble, troubles, EsKept, Es, EsFails
<1>1. CASE EsRollover
  <2>1. steady' = steady \cap Facts(remote')
    BY <1>1, ServiceKept, ServiceBecomes DEF EsRollover
  <2> QED BY <1>1, <2>1 DEF EsRollover, Shape, Ending, Counted
<1>2. CASE EsCreate
  <2>1. steady' = steady \cap Facts(remote')
    BY <1>2, ServiceKept, ServiceBecomes DEF EsCreate, Set
  <2> QED BY <1>2, <2>1 DEF EsCreate, Shape, Ending, Counted
<1>3. CASE EsBulk
  <2>1. steady' = steady \cap Facts(remote')
    BY <1>3, ServiceKept, ServiceBecomes DEF EsBulk, Set
  <2> QED BY <1>3, <2>1 DEF EsBulk, Shape, Ending, Counted
<1>4. CASE EsRefresh
  BY <1>4, ServiceKept DEF EsRefresh, Shape, Ending, Counted
<1>5. CASE EsFormer
  BY <1>5, ServiceKept DEF EsFormer, Shape, Ending, Counted
<1>6. CASE EsSwap
  <2>1. steady' = steady \cap Facts(remote')
    BY <1>6, ServiceKept, ServiceBecomes DEF EsSwap, Set
  <2> QED BY <1>6, <2>1 DEF EsSwap, Shape, Ending, Counted
<1>7. CASE EsListOld
  BY <1>7, ServiceKept DEF EsListOld, Shape, Ending, Counted
<1>8. CASE EsDelete
  <2>1. steady' = steady \cap Facts(remote')
    BY <1>8, ServiceKept, ServiceBecomes DEF EsDelete
  <2> QED BY <1>8, <2>1 DEF EsDelete, Shape, Ending, Counted
<1>9. CASE EsLook \/ EsScan
  BY <1>9, ServiceKept DEF EsLook, EsScan, Shape, Ending, Counted
<1>10. CASE EsPages
  BY <1>10, ServiceKept DEF EsPages, Shape, Ending, Counted
<1>11. CASE EsOthers
  <2>1. PICK r : Others(r)
    BY <1>11 DEF EsOthers
  <2>2. steady' = steady \cap Facts(remote')
    BY <2>1, ServiceBecomes DEF Others
  <2> QED BY <1>11, <2>1, <2>2 DEF EsOthers, Others, Shape, Ending, Counted
<1> QED BY <1>1, <1>2, <1>3, <1>4, <1>5, <1>6, <1>7, <1>8, <1>9, <1>10, <1>11 DEF EsAct, EsNext

(* Once there is trouble that is not a request of the call, there always is. *)
LEMMA EsAloneBefore ==
  ASSUME Base, Shape, EsAlone', EsTyped
  PROVE  EsAlone
<1>1. call.client # "hex"
  BY DEF EsTyped
<1>2. faults \in Nat /\ missed \in Nat /\ missed <= faults /\ faults' = missed'
  BY <1>1 DEF Base, Counted, EsAlone
<1>3. \/ faults' = faults /\ missed' = missed
      \/ faults' = faults + 1 /\ missed' \in {missed, missed + 1}
  BY <1>1 DEF Shape
<1>4. faults = missed
  BY <1>2, <1>3
<1> QED BY <1>4 DEF EsAlone

(* Nothing under the alias, for as long as there has been nothing under it.  *)
LEMMA EsStillEmpty ==
  ASSUME Base, Shape, <<"alias", {}>> \in steady, remote'["alias"] = {}, "alias" \in DOMAIN remote'
  PROVE  <<"alias", {}>> \in steady'
<1>1. <<"alias", {}>> \in Facts(remote')
  BY FactIs
<1> QED BY <1>1 DEF Shape

(* A step after which the service is as before.                            *)
LEMMA EsSame ==
  ASSUME Base, EsInv, Shape, remote' = remote, EsPlaces', EsWritten', EsFew',
         call.op = "load_input" => at' \in {"there?", "scan", "pages", "ended"} /\ answer' \in Seq({"whole"}),
         call.op = "handle_output" =>
           /\ answer' \in Seq({"failures"})
           /\ at' \in {"rollover", "create", "bulk", "aliases?", "swap", "old ones?", "delete", "ended"},
         answer' = << >> => answer = << >>,
         at' \in {"old ones?", "delete"} => at \in {"old ones?", "delete"},
         told' = "returned" => (EsDone /\ EsListing)'
  PROVE  EsInv'
<1>0. EsTyped /\ EsMoved /\ EsSound /\ EsEmpty /\ call' = call
  BY DEF EsInv, Shape
<1>1. EsTyped'
  BY <1>0 DEF EsTyped, EsKnown, EsThere
<1>2. EsMoved'
  <2> SUFFICES ASSUME call.op = "handle_output", call.alias, EsAlone',
                      at' \in {"old ones?", "delete"} \/ told' = "returned"
               PROVE  remote["alias"] = {EsTarget}
    BY <1>0 DEF EsMoved, EsTarget
  <2>1. EsAlone
    BY EsAloneBefore DEF EsInv
  <2>2. CASE at' \in {"old ones?", "delete"}
    BY <1>0, <2>1, <2>2 DEF EsMoved
  <2>3. CASE told' = "returned"
    BY <1>0, <2>3 DEF EsDone, EsTarget
  <2> QED BY <2>2, <2>3
<1>3. EsSound'
  BY <1>0 DEF EsSound, EsUnreaped
<1>4. EsEmpty'
  <2> SUFFICES ASSUME remote["alias"] = {}, ~(call.keep > 0 /\ ~EsAlone'), ~EsAgain
               PROVE  <<"alias", {}>> \in steady'
    BY <1>0 DEF EsEmpty, EsAgain, EsTarget
  <2>1. <<"alias", {}>> \in steady
    BY <1>0, EsAloneBefore DEF EsEmpty
  <2> QED BY <1>0, <2>1, EsStillEmpty DEF EsTyped
<1> QED BY <1>1, <1>2, <1>3, <1>4 DEF EsInv

(* A call that raises keeps the invariant.                                 *)
LEMMA EsFailed ==
  ASSUME Base, EsInv, Shape, remote' = remote, told' = "raised", at' = "ended", answer' = answer
  PROVE  EsInv'
<1>1. EsTyped /\ call' = call
  BY DEF EsInv, Shape
<1>2. EsPlaces' /\ EsWritten' /\ EsFew'
  BY DEF EsPlaces, EsWritten, EsFew
<1> QED BY <1>1, <1>2, EsSame DEF EsTyped

(* An index put in the state v, and one that is deleted, alias and all.    *)
LEMMA EsPut ==
  ASSUME EsTyped, NEW x \in EsIndices, NEW v \in EsStates, Set(x, v)
  PROVE  /\ DOMAIN remote' = DOMAIN remote /\ remote'["alias"] = remote["alias"]
         /\ remote'["reaper"] = remote["reaper"] /\ remote'[x] = v
         /\ \A y \in EsIndices : y # x => remote'[y] = remote[y]
BY EsConstants DEF EsTyped, Set, Becomes

(* An index that the reaper takes is gone from the alias, and nothing else *)
(* changes.                                                                *)
LEMMA EsLost ==
  ASSUME EsTyped, NEW x \in EsRollovers,
         Becomes([remote EXCEPT ![x] = "none", !["alias"] = @ \ {x}])
  PROVE  /\ DOMAIN remote' = DOMAIN remote /\ remote'["alias"] = remote["alias"] \ {x}
         /\ remote'["reaper"] = remote["reaper"] /\ remote'[x] = "none"
         /\ \A y \in EsIndices : y # x => remote'[y] = remote[y]
BY EsConstants DEF EsTyped, Becomes

(* Naming the next index keeps the invariant.                              *)
LEMMA EsRollovers_ ==
  ASSUME Base, EsInv, Shape, EsRollover
  PROVE  EsInv'
<1> USE DEF Goto, Return, Raise, NoTrouble, EsKept, Es
<1>0. EsTyped /\ EsPlaces /\ EsSound /\ EsEmpty /\ call' = call /\ at = "rollover" /\ told = "none" /\ Ending
  BY DEF EsInv, Shape, EsRollover, Base, Ending
<1>a. call.op = "handle_output" /\ call.target \in EsIndices /\ call.alias /\ left = EsChunks
  BY <1>0, EsAssumption DEF EsTyped, EsPlaces
<1>1. CASE EsFails
  <2>1. remote' = remote
    BY <1>1 DEF EsFails, service
  <2> QED BY <1>1, <2>1, EsFailed DEF EsFails
<1>2. CASE /\ Goto("create") /\ NoTrouble /\ UNCHANGED left /\ EsTarget # EsBare /\ EsThere(EsTarget)
           /\ Becomes([remote EXCEPT ![EsTarget] = "none", !["alias"] = @ \ {EsTarget}])
  <2>0. EsTarget \in EsRollovers
    BY <1>2, <1>a DEF EsTarget, EsIndices
  <2>1. /\ DOMAIN remote' = DOMAIN remote /\ remote'["alias"] = remote["alias"] \ {EsTarget}
        /\ remote'["reaper"] = remote["reaper"] /\ remote'[EsTarget] = "none"
        /\ \A y \in EsIndices : y # EsTarget => remote'[y] = remote[y]
    BY <1>0, <1>2, <2>0, EsLost
  <2>2. EsTyped'
    BY <1>0, <1>2, <1>a, <2>1, EsConstants DEF EsTyped, EsKnown, EsThere, EsStates
  <2>3. EsPlaces'
    BY <1>0, <1>2, <1>a, <2>1 DEF EsPlaces, EsTarget
  <2>4. EsWritten' /\ EsMoved' /\ EsFew' /\ told' # "returned"
    BY <1>0, <1>2 DEF EsWritten, EsMoved, EsFew
  <2>5. EsSound'
    BY <1>0, <1>2, <2>1, EsConstants DEF EsSound, EsUnreaped, EsTyped, EsKnown
  <2>6. EsEmpty'
    <3>1. CASE EsTarget \in remote["alias"]
      BY <1>0, <3>1 DEF EsPlaces, EsEmpty, EsAgain, EsTarget
    <3>2. CASE EsTarget \notin remote["alias"]
      <4>1. remote'["alias"] = remote["alias"]
        BY <2>1, <3>2
      <4>2. remote["alias"] = {} /\ <<"alias", {}>> \in steady => <<"alias", {}>> \in steady'
        BY <1>0, <2>1, <4>1, EsStillEmpty DEF EsTyped
      <4> QED BY <1>0, <4>1, <4>2, EsAloneBefore DEF EsEmpty, EsAgain, EsTarget
    <3> QED BY <3>1, <3>2
  <2> QED BY <2>2, <2>3, <2>4, <2>5, <2>6 DEF EsInv
<1>3. CASE Goto("create") /\ NoTrouble /\ UNCHANGED <<left, service>> /\ ~(EsTarget # EsBare /\ EsThere(EsTarget))
  <2>1. remote' = remote
    BY <1>3 DEF service
  <2>2. EsTarget \notin remote["alias"]
    BY <1>0, <1>3, EsConstants DEF EsTyped, EsKnown
  <2>3. EsPlaces'
    BY <1>0, <1>3, <1>a, <2>1, <2>2 DEF EsPlaces, EsTarget
  <2>4. EsWritten' /\ EsFew' /\ told' # "returned"
    BY <1>0, <1>3 DEF EsWritten, EsFew
  <2>5. answer' \in Seq({"failures"})
    BY <1>0, <1>3, <1>a DEF EsTyped
  <2> QED BY <1>3, <1>a, <2>1, <2>3, <2>4, <2>5, EsSame
<1> QED BY <1>1, <1>2, <1>3 DEF EsRollover

(* A step that writes the index of the call, which is not under the alias.  *)
LEMMA EsWrites ==
  ASSUME Base, EsInv, Shape, NEW v \in EsStates \ {"none"}, Set(EsTarget, v),
         EsTarget \notin remote["alias"], call.op = "handle_output", told = "none",
         answer' = answer \/ answer' = Append(answer, "failures"),
         at' \in {"bulk", "ended"}, told' # "returned", EsPlaces', EsWritten'
  PROVE  EsInv'
<1>0. EsTyped /\ EsSound /\ EsEmpty /\ call' = call /\ Ending
  BY DEF EsInv, Shape, Base
<1>1. EsTarget \in EsIndices
  BY <1>0, EsAssumption DEF EsTyped, EsTarget
<1>2. /\ DOMAIN remote' = DOMAIN remote /\ remote'["alias"] = remote["alias"]
      /\ remote'["reaper"] = remote["reaper"] /\ remote'[EsTarget] = v
      /\ \A y \in EsIndices : y # EsTarget => remote'[y] = remote[y]
  BY <1>0, <1>1, EsPut
<1>3. answer' \in Seq({"failures"}) /\ (answer' = << >> => answer = << >>)
  <2>1. answer \in Seq({"failures"})
    BY <1>0 DEF EsTyped
  <2> QED BY <2>1
<1>4. EsTyped'
  BY <1>0, <1>1, <1>2, <1>3, EsConstants DEF EsTyped, EsKnown, EsThere
<1>5. EsMoved' /\ EsFew'
  BY DEF EsMoved, EsFew
<1>6. EsSound'
  BY <1>0, <1>2, <1>3, EsConstants DEF EsSound, EsUnreaped, EsTyped, EsKnown
<1>7. EsEmpty'
  <2>1. remote["alias"] = {} /\ <<"alias", {}>> \in steady => <<"alias", {}>> \in steady'
    BY <1>0, <1>2, EsStillEmpty DEF EsTyped
  <2> QED BY <1>0, <1>2, <2>1, EsAloneBefore DEF EsEmpty, EsAgain, EsTarget
<1> QED BY <1>4, <1>5, <1>6, <1>7 DEF EsInv

(* Creating it keeps the invariant.                                        *)
LEMMA EsCreates ==
  ASSUME Base, EsInv, Shape, EsCreate
  PROVE  EsInv'
<1> USE DEF Goto, Return, Raise, NoTrouble, EsKept, Es
<1>0. EsTyped /\ EsPlaces /\ call' = call /\ at = "create" /\ told = "none" /\ Ending
  BY DEF EsInv, Shape, EsCreate, Base, Ending
<1>a. call.op = "handle_output" /\ left = EsChunks
  BY <1>0, EsAssumption DEF EsTyped, EsPlaces
<1>1. CASE Raise /\ UNCHANGED service
  <2>1. remote' = remote
    BY <1>1 DEF service
  <2> QED BY <1>1, <2>1, EsFailed
<1>2. CASE Set(EsTarget, "empty") /\ (Goto("bulk") \/ Raise) /\ UNCHANGED left
  <2>1. EsTarget \notin remote["alias"]
    BY <1>0 DEF EsPlaces
  <2>2. remote'["alias"] = remote["alias"]
    BY <1>0, <1>2, EsConstants, EsAssumption DEF Set, Becomes, EsTyped, EsTarget
  <2>3. EsPlaces'
    BY <1>0, <1>2, <1>a, <2>1, <2>2 DEF EsPlaces, EsTarget
  <2>4. EsWritten'
    BY <1>0, <1>2, <1>a DEF EsWritten, EsChunks
  <2> QED BY <1>0, <1>2, <1>a, <2>1, <2>3, <2>4, EsWrites DEF EsStates
<1> QED BY <1>1, <1>2 DEF EsCreate, EsFails

(* A chunk of documents, written or refused, keeps the invariant.          *)
LEMMA EsBulks ==
  ASSUME Base, EsInv, Shape, EsBulk
  PROVE  EsInv'
<1> USE DEF Goto, Return, Raise, NoTrouble, EsKept, Es
<1>0. EsTyped /\ EsPlaces /\ EsWritten /\ call' = call /\ at = "bulk" /\ told = "none" /\ Ending
  BY DEF EsInv, Shape, EsBulk, Base, Ending
<1>a. call.op = "handle_output" /\ left \subseteq EsChunks /\ EsTarget \in EsIndices /\ answer \in Seq({"failures"})
  BY <1>0, EsAssumption DEF EsTyped, EsPlaces, EsTarget
<1>b. remote[EsTarget] \in EsStates
  BY <1>0, <1>a DEF EsTyped
<1>1. CASE EsFails
  <2>1. remote' = remote
    BY <1>1 DEF EsFails, service
  <2> QED BY <1>1, <2>1, EsFailed DEF EsFails
<1>c. ASSUME NEW v \in EsStates, Set(EsTarget, v)
      PROVE  remote'["alias"] = remote["alias"] /\ remote'[EsTarget] = v /\ EsUnreaped' = EsUnreaped /\ EsTarget' = EsTarget
  BY <1>0, <1>a, <1>c, EsPut DEF EsUnreaped, EsTarget
<1>2. CASE /\ Set(EsTarget, EsMore) /\ \E chunk \in left : left' = left \ {chunk}
           /\ UNCHANGED <<at, answer, told>>
  <2>1. EsMore \in EsStates \ {"none"} /\ EsMore \in {"one", "whole"} /\ (remote[EsTarget] \in {"one", "whole"} => EsMore = "whole")
    BY <1>b DEF EsMore, EsStates
  <2> PICK v : v = EsMore
    OBVIOUS
  <2>2. remote'["alias"] = remote["alias"] /\ remote'[EsTarget] = v /\ EsUnreaped' = EsUnreaped /\ EsTarget' = EsTarget
    BY <1>2, <1>c, <2>1
  <2>3. EsPlaces'
    BY <1>0, <1>2, <1>a, <2>2 DEF EsPlaces, EsTarget
  <2>4. left' # EsChunks /\ (left' = {} => left # EsChunks)
    <3> PICK chunk \in left : left' = left \ {chunk}
      BY <1>2
    <3>1. chunk \in EsChunks /\ chunk \notin left'
      BY <1>a
    <3>2. \E other \in EsChunks : other # chunk
      BY DEF EsChunks
    <3>3. left' = {} => \A other \in left : other = chunk
      OBVIOUS
    <3> QED BY <3>1, <3>2, <3>3
  <2>5. remote'[EsTarget'] = v
    BY <2>2
  <2>6. EsWritten'
    <3> SUFFICES ASSUME answer = << >>, EsUnreaped
                 PROVE  v \in {"one", "whole"} /\ (left' = {} => v = "whole")
      BY <1>0, <1>2, <2>2, <2>5 DEF EsWritten
    <3> QED BY <1>0, <1>a, <2>1, <2>4 DEF EsWritten
  <2> QED BY <1>0, <1>2, <1>a, <2>1, <2>3, <2>6, EsWrites DEF EsPlaces
<1>3. CASE /\ \E chunk \in left : left' = left \ {chunk}
           /\ Set(EsTarget, IF EsThere(EsTarget) THEN remote[EsTarget] ELSE "empty")
           /\ IF call.failFast THEN Raise ELSE answer' = Append(answer, "failures") /\ UNCHANGED <<at, told>>
  <2> PICK v : v = IF EsThere(EsTarget) THEN remote[EsTarget] ELSE "empty"
    OBVIOUS
  <2>1. v \in EsStates \ {"none"}
    BY <1>b DEF EsThere, EsStates
  <2>2. remote'["alias"] = remote["alias"] /\ remote'[EsTarget] = v /\ EsUnreaped' = EsUnreaped /\ EsTarget' = EsTarget
    BY <1>3, <1>c, <2>1
  <2>3. EsPlaces'
    BY <1>0, <1>3, <1>a, <2>2 DEF EsPlaces, EsTarget
  <2>4. Append(answer, "failures") # << >>
    BY <1>a
  <2>5. EsWritten'
    BY <1>0, <1>3, <2>4 DEF EsWritten
  <2> QED BY <1>0, <1>3, <1>a, <2>1, <2>3, <2>5, EsWrites DEF EsPlaces
<1> QED BY <1>1, <1>2, <1>3 DEF EsBulk

(* The refresh, and reading who holds the alias, keep the invariant.       *)
LEMMA EsRefreshed ==
  ASSUME Base, EsInv, Shape, EsRefresh \/ EsFormer
  PROVE  EsInv'
<1> USE DEF Goto, Return, Raise, NoTrouble, EsKept, Es
<1>0. EsTyped /\ EsPlaces /\ EsWritten /\ call' = call /\ told = "none" /\ at \in {"bulk", "aliases?"} /\ remote' = remote
  BY DEF EsInv, Shape, EsRefresh, EsFormer, Base, Ending, EsFails, service
<1>a. call.op = "handle_output" /\ call.alias \in BOOLEAN /\ answer \in Seq({"failures"})
  BY <1>0, EsAssumption DEF EsTyped
<1>1. CASE EsFails
  BY <1>0, <1>1, EsFailed DEF EsFails
<1>2. CASE at = "bulk" /\ left = {} /\ UNCHANGED left /\ Goto("aliases?") /\ call.alias
  <2>1. EsPlaces'
    BY <1>0, <1>2 DEF EsPlaces, EsTarget
  <2>2. EsWritten' /\ EsFew'
    BY <1>0, <1>2 DEF EsWritten, EsFew, EsUnreaped, EsTarget
  <2> QED BY <1>0, <1>2, <1>a, <2>1, <2>2, EsSame
<1>3. CASE at = "bulk" /\ left = {} /\ UNCHANGED left /\ Return(answer) /\ ~call.alias
  <2>1. EsPlaces'
    BY <1>0, <1>3 DEF EsPlaces
  <2>2. EsWritten' /\ EsFew'
    BY <1>0, <1>3 DEF EsWritten, EsFew, EsUnreaped, EsTarget
  <2>3. (EsDone /\ EsListing)'
    BY <1>0, <1>3, <1>a DEF EsDone, EsListing, EsWritten, EsUnreaped, EsTarget
  <2> QED BY <1>0, <1>3, <1>a, <2>1, <2>2, <2>3, EsSame
<1>4. CASE at = "aliases?" /\ left' = remote["alias"] \ {EsTarget} /\ Goto("swap")
  <2>1. left' = remote["alias"] /\ EsTarget \notin remote["alias"] /\ call.alias
    BY <1>0, <1>4 DEF EsPlaces
  <2>2. EsPlaces'
    BY <1>0, <1>4, <2>1 DEF EsPlaces, EsTarget
  <2>3. EsWritten' /\ EsFew'
    BY <1>0, <1>4 DEF EsWritten, EsFew, EsUnreaped, EsTarget
  <2> QED BY <1>0, <1>4, <1>a, <2>2, <2>3, EsSame
<1> QED BY <1>1, <1>2, <1>3, <1>4 DEF EsRefresh, EsFormer

(* Moving the alias keeps the invariant: the new index is whole.           *)
LEMMA EsSwapped ==
  ASSUME Base, EsInv, Shape, EsSwap
  PROVE  EsInv'
<1> USE DEF Goto, Return, Raise, NoTrouble, EsKept, Es
<1>0. EsTyped /\ EsPlaces /\ EsWritten /\ EsSound /\ call' = call /\ told = "none" /\ at = "swap"
  BY DEF EsInv, Shape, EsSwap, Base, Ending
<1>a. call.op = "handle_output" /\ EsTarget \in EsIndices /\ answer' = answer
  BY <1>0, EsAssumption DEF EsTyped, EsTarget, EsSwap, EsFails
<1>1. CASE UNCHANGED service
  <2>1. remote' = remote
    BY <1>1 DEF service
  <2>2. CASE Raise
    BY <1>a, <2>1, <2>2, EsFailed
  <2>3. CASE EsSwaps /\ Set("alias", (remote["alias"] \ left) \cup {EsTarget})
    <3>1. remote'["alias"] = (remote["alias"] \ left) \cup {EsTarget}
      BY <1>0, <2>3 DEF Set, Becomes, EsTyped
    <3>2. EsTarget \in remote["alias"]
      BY <2>1, <3>1
    <3> QED BY <1>0, <3>2 DEF EsPlaces
  <2> QED BY <2>2, <2>3 DEF EsSwap, EsFails
<1>2. CASE EsSwaps /\ Set("alias", (remote["alias"] \ left) \cup {EsTarget}) /\ at' \in {"old ones?", "ended"}
           /\ told' # "returned" /\ (at' = "ended" => told' = "raised")
  <2>1. /\ DOMAIN remote' = DOMAIN remote /\ remote'["reaper"] = remote["reaper"]
        /\ remote'["alias"] = (remote["alias"] \ left) \cup {EsTarget}
        /\ \A x \in EsIndices : remote'[x] = remote[x]
    BY <1>0, <1>2, EsConstants DEF Set, Becomes, EsTyped
  <2>2. EsTarget \in EsRollovers /\ EsThere(EsTarget)
    BY <1>2, <1>a DEF EsSwaps, EsIndices
  <2>3. EsTyped'
    BY <1>0, <1>2, <1>a, <2>1, <2>2, EsConstants DEF EsTyped, EsKnown, EsThere
  <2>4. EsPlaces'
    BY <1>0, <1>2, <2>2 DEF EsPlaces, EsTarget
  <2>5. EsWritten' /\ EsFew'
    BY <1>0, <1>2, <1>a, <2>1 DEF EsWritten, EsFew, EsUnreaped, EsTarget
  <2>6. EsMoved'
    <3> SUFFICES ASSUME EsAlone' PROVE remote'["alias"] = {EsTarget}
      BY <1>0 DEF EsMoved, EsTarget
    <3>1. left = remote["alias"]
      BY <1>0, EsAloneBefore DEF EsPlaces
    <3> QED BY <2>1, <3>1
  <2>7. EsSound'
    <3> SUFFICES ASSUME answer = << >>, EsUnreaped, NEW x \in remote'["alias"]
                 PROVE  remote'[x] = "whole"
      BY <1>a, <2>1 DEF EsSound, EsUnreaped
    <3>1. CASE x = EsTarget
      BY <1>0, <1>a, <2>1, <3>1 DEF EsWritten
    <3>2. CASE x # EsTarget
      <4>1. x \in remote["alias"] /\ x \in EsIndices
        BY <1>0, <2>1, <3>2, EsConstants DEF EsTyped, EsKnown
      <4> QED BY <1>0, <2>1, <4>1 DEF EsSound
    <3> QED BY <3>1, <3>2
  <2>8. EsEmpty'
    BY <2>1 DEF EsEmpty
  <2> QED BY <1>2, <2>3, <2>4, <2>5, <2>6, <2>7, <2>8 DEF EsInv
<1> QED BY <1>0, <1>1, <1>2 DEF EsSwap, EsFails

(* Listing the old indices keeps the invariant.                            *)
LEMMA EsListsOld ==
  ASSUME Base, EsInv, Shape, EsListOld
  PROVE  EsInv'
<1> USE DEF Goto, Return, Raise, NoTrouble, EsKept, Es
<1>0. /\ EsTyped /\ EsPlaces /\ EsWritten /\ call' = call /\ told = "none" /\ at = "old ones?" /\ remote' = remote
      /\ answer' = answer
  BY DEF EsInv, Shape, EsListOld, Base, Ending, EsFails, service
<1>a. call.op = "handle_output" /\ call.keep \in Nat /\ answer \in Seq({"failures"}) /\ EsNames \subseteq EsRollovers \ {EsTarget}
  BY <1>0, EsAssumption DEF EsTyped, EsNames
<1>1. CASE EsFails
  BY <1>0, <1>1, EsFailed DEF EsFails
<1>2. CASE left' = EsOld /\ Goto("delete")
  <2>1. EsPlaces'
    BY <1>0, <1>2, <1>a DEF EsPlaces, EsTarget, EsOld
  <2>2. EsWritten'
    BY <1>0, <1>2 DEF EsWritten, EsUnreaped, EsTarget
  <2>3. EsFew'
    <3>1. EsNames' = EsNames
      BY <1>0 DEF EsNames, EsThere, EsTarget
    <3>2. EsStaying' = EsNames \ EsOld
      BY <1>2, <3>1 DEF EsStaying
    <3> SUFFICES ASSUME call.keep > 0, NEW x \in EsNames \ EsOld
                 PROVE  1 + Cardinality({y \in EsNames \ EsOld : EsAfter(y, x)}) < call.keep
      BY <1>0, <3>2 DEF EsFew
    <3>3. ~(1 + Cardinality({y \in EsNames : EsAfter(y, x)}) >= call.keep)
      BY DEF EsOld
    <3>4. IsFiniteSet({y \in EsNames : EsAfter(y, x)})
      BY <1>a, EsConstants, FS_Subset
    <3>5. /\ Cardinality({y \in EsNames \ EsOld : EsAfter(y, x)}) <= Cardinality({y \in EsNames : EsAfter(y, x)})
          /\ IsFiniteSet({y \in EsNames \ EsOld : EsAfter(y, x)})
      BY <3>4, FS_Subset
    <3>6. Cardinality({y \in EsNames \ EsOld : EsAfter(y, x)}) \in Nat /\ Cardinality({y \in EsNames : EsAfter(y, x)}) \in Nat
      BY <3>4, <3>5, FS_CardinalityType
    <3> QED BY <1>a, <3>3, <3>5, <3>6
  <2> QED BY <1>0, <1>2, <1>a, <2>1, <2>2, <2>3, EsSame
<1> QED BY <1>1, <1>2 DEF EsListOld

(* Of the indices there the last by name is the oldest. *)
LEMMA EsOldest ==
  ASSUME EsNames # {}
  PROVE  \E x \in EsNames : \A y \in EsNames : y = x \/ EsAfter(y, x)
<1> DEFINE Places == {i \in DOMAIN EsOrder : EsOrder[i] \in EsNames}
<1>1. DOMAIN EsOrder = 1 .. Len(EsOrder) /\ Len(EsOrder) \in Nat
  BY EsAssumption
<1>2. Places \subseteq 1 .. Len(EsOrder) /\ IsFiniteSet(1 .. Len(EsOrder))
  BY <1>1, FS_Interval
<1>3. Places \subseteq Int /\ IsFiniteSet(Places)
  BY <1>1, <1>2, FS_Subset
<1>4. \A x \in EsNames : \E i \in Places : x = EsOrder[i]
  BY DEF EsNames, EsRollovers
<1>5. Places # {}
  BY <1>4
<1> HIDE DEF Places
<1>6. PICK i \in Places : \A j \in Places : i <= j
  BY <1>3, <1>5, HasMin
<1>7. EsOrder[i] \in EsNames /\ Places \subseteq DOMAIN EsOrder
  BY <1>6 DEF Places
<1>8. ASSUME NEW y \in EsNames, y # EsOrder[i]
      PROVE  EsAfter(y, EsOrder[i])
  <2>1. PICK j \in Places : y = EsOrder[j]
    BY <1>4
  <2>2. j > i
    BY <1>3, <1>6, <1>8, <2>1
  <2> QED BY <1>6, <1>7, <2>1, <2>2 DEF EsAfter
<1> QED BY <1>7, <1>8

(* The indices that a clean-up leaves are with the call's own as many as it *)
(* was to keep.                                                             *)
LEMMA EsCount ==
  ASSUME EsTyped, EsFew, at = "delete", left = {}, call.keep > 0, EsAlone
  PROVE  Cardinality({x \in EsRollovers : EsThere(x)}) <= call.keep
<1>1. EsStaying = EsNames /\ EsNames \subseteq EsRollovers /\ EsTarget \notin EsNames
      /\ {x \in EsRollovers : EsThere(x)} \subseteq EsNames \cup {EsTarget}
  BY DEF EsStaying, EsNames
<1>2. IsFiniteSet(EsNames) /\ call.keep \in Nat
  BY <1>1, EsConstants, FS_Subset, EsAssumption DEF EsTyped
<1>3. Cardinality(EsNames) \in Nat /\ IsFiniteSet(EsNames \cup {EsTarget}) /\ Cardinality(EsNames \cup {EsTarget}) = Cardinality(EsNames) + 1
  BY <1>1, <1>2, FS_CardinalityType, FS_AddElement
<1>4. /\ Cardinality({x \in EsRollovers : EsThere(x)}) <= Cardinality(EsNames) + 1
      /\ IsFiniteSet({x \in EsRollovers : EsThere(x)})
  BY <1>1, <1>3, FS_Subset
<1>5. Cardinality({x \in EsRollovers : EsThere(x)}) \in Nat
  BY <1>4, FS_CardinalityType
<1>6. CASE EsNames = {}
  BY <1>2, <1>3, <1>4, <1>5, <1>6, FS_EmptySet
<1>7. CASE EsNames # {}
  <2>1. PICK x \in EsNames : \A y \in EsNames : y = x \/ EsAfter(y, x)
    BY <1>7, EsOldest
  <2>2. 1 + Cardinality({y \in EsNames : EsAfter(y, x)}) < call.keep
    BY <1>1 DEF EsFew
  <2>3. /\ IsFiniteSet({y \in EsNames : EsAfter(y, x)})
        /\ IsFiniteSet({y \in EsNames : EsAfter(y, x)} \cup {x})
        /\ Cardinality({y \in EsNames : EsAfter(y, x)} \cup {x}) <= Cardinality({y \in EsNames : EsAfter(y, x)}) + 1
    <3>1. IsFiniteSet({y \in EsNames : EsAfter(y, x)})
      BY <1>2, FS_Subset
    <3>2. ASSUME NEW T, IsFiniteSet(T)
          PROVE  IsFiniteSet(T \cup {x}) /\ Cardinality(T \cup {x}) <= Cardinality(T) + 1
      <4>1. Cardinality(T) \in Nat
        BY <3>2, FS_CardinalityType
      <4>2. Cardinality(T \cup {x}) \in {Cardinality(T), Cardinality(T) + 1}
        BY <3>2, FS_AddElement
      <4> QED BY <3>2, <4>1, <4>2, FS_AddElement
    <3> QED BY <3>1, <3>2
  <2>4. EsNames \subseteq {y \in EsNames : EsAfter(y, x)} \cup {x}
    BY <2>1
  <2>5. Cardinality(EsNames) <= Cardinality({y \in EsNames : EsAfter(y, x)} \cup {x})
    BY <2>3, <2>4, FS_Subset
  <2>6. Cardinality({y \in EsNames : EsAfter(y, x)}) \in Nat /\ Cardinality({y \in EsNames : EsAfter(y, x)} \cup {x}) \in Nat
    BY <2>3, FS_CardinalityType
  <2> QED BY <1>2, <1>3, <1>4, <1>5, <2>2, <2>3, <2>5, <2>6
<1> QED BY <1>6, <1>7

(* Deleting an old one keeps the invariant: never one the alias is on.     *)
LEMMA EsDeletes ==
  ASSUME Base, EsInv, Shape, EsDelete
  PROVE  EsInv'
<1> USE DEF Goto, Return, Raise, NoTrouble, EsKept, Es
<1>0. /\ EsTyped /\ EsPlaces /\ EsWritten /\ EsMoved /\ EsSound /\ EsEmpty /\ EsFew
      /\ call' = call /\ told = "none" /\ at = "delete" /\ answer' = answer
  BY DEF EsInv, Shape, EsDelete, Base, Ending, EsFails
<1>a. call.op = "handle_output" /\ call.alias /\ EsTarget \in EsRollovers /\ left \subseteq EsRollovers \ {EsTarget}
       /\ answer \in Seq({"failures"})
  BY <1>0, EsAssumption DEF EsTyped, EsPlaces
<1>1. CASE EsFails
  BY <1>1, <1>0, EsFailed DEF EsFails, service
<1>2. CASE left = {} /\ Return(answer) /\ UNCHANGED <<left, service>>
  <2>1. remote' = remote
    BY <1>2 DEF service
  <2>2. EsPlaces' /\ EsFew'
    BY <1>2 DEF EsPlaces, EsFew
  <2>3. EsWritten'
    BY <1>0, <1>2, <2>1 DEF EsWritten, EsUnreaped, EsTarget
  <2>4. call.keep > 0 /\ EsAlone' => Cardinality({x \in EsRollovers : EsThere(x)}) <= call.keep
    BY <1>0, <1>2, EsCount, EsAloneBefore
  <2>5. EsDone'
    <3>1. answer' = << >> /\ EsUnreaped' => remote'[EsTarget'] = "whole"
      BY <1>0, <1>a, <2>1 DEF EsWritten, EsUnreaped, EsTarget
    <3>2. EsAlone' => remote'["alias"] = {EsTarget'}
      BY <1>0, <1>a, <2>1, EsAloneBefore DEF EsMoved, EsTarget
    <3>3. call'.keep > 0 /\ EsAlone' => Cardinality({x \in EsRollovers : EsThere(x)'}) <= call'.keep
      BY <1>0, <2>1, <2>4 DEF EsThere
    <3> QED BY <3>1, <3>2, <3>3 DEF EsDone
  <2>6. EsListing'
    BY <1>0, <1>a DEF EsListing
  <2> QED BY <1>0, <1>2, <1>a, <2>1, <2>2, <2>3, <2>5, <2>6, EsSame
<1>3. CASE \E x \in left :
          /\ ~\E y \in left : EsAfter(y, x)
          /\ left' = left \ {x} /\ Goto(at) /\ NoTrouble
          /\ Becomes([remote EXCEPT ![x] = "none", !["alias"] = @ \ {x}])
  <2> PICK x \in left : /\ left' = left \ {x} /\ Goto(at) /\ NoTrouble
                        /\ Becomes([remote EXCEPT ![x] = "none", !["alias"] = @ \ {x}])
    BY <1>3
  <2>0. x \in EsRollovers /\ x # EsTarget /\ call.keep > 0 /\ x \in EsIndices
    BY <1>0, <1>a, EsConstants DEF EsPlaces
  <2>1. /\ DOMAIN remote' = DOMAIN remote /\ remote'["alias"] = remote["alias"] \ {x}
        /\ remote'["reaper"] = remote["reaper"] /\ remote'[x] = "none"
        /\ \A y \in EsIndices : y # x => remote'[y] = remote[y]
    BY <1>0, <2>0, EsLost
  <2>2. EsTyped'
    BY <1>0, <1>a, <2>0, <2>1, EsConstants DEF EsTyped, EsKnown, EsThere, EsStates
  <2>3. EsPlaces'
    BY <1>0, <1>a, <2>0 DEF EsPlaces, EsTarget
  <2>4. EsWritten'
    BY <1>0, <1>a, <2>0, <2>1, EsConstants DEF EsWritten, EsUnreaped, EsTarget
  <2>5. EsMoved'
    <3> SUFFICES ASSUME EsAlone' PROVE remote'["alias"] = {EsTarget}
      BY <1>0 DEF EsMoved, EsTarget
    <3>1. remote["alias"] = {EsTarget}
      BY <1>0, <1>a, EsAloneBefore DEF EsMoved
    <3> QED BY <2>0, <2>1, <3>1
  <2>6. EsSound'
    BY <1>0, <2>1, EsConstants DEF EsSound, EsUnreaped, EsTyped, EsKnown
  <2>7. EsEmpty'
    <3> SUFFICES ASSUME remote'["alias"] = {}, EsAlone'
                 PROVE  FALSE
      BY <1>0, <2>0 DEF EsEmpty
    <3>1. remote["alias"] = {EsTarget}
      BY <1>0, <1>a, EsAloneBefore DEF EsMoved
    <3> QED BY <2>0, <2>1, <3>1
  <2>8. EsFew'
    <3>1. EsNames' = EsNames \ {x}
      BY <1>0, <2>0, <2>1, EsConstants DEF EsNames, EsThere, EsTarget
    <3>2. EsStaying' = EsStaying
      BY <3>1 DEF EsStaying
    <3> QED BY <1>0, <3>2, EsAloneBefore DEF EsFew
  <2> QED BY <1>0, <2>2, <2>3, <2>4, <2>5, <2>6, <2>7, <2>8 DEF EsInv
<1> QED BY <1>1, <1>2, <1>3 DEF EsDelete

(* Looking for the index and opening a scroll keep the invariant.          *)
LEMMA EsLooks ==
  ASSUME Base, EsInv, Shape, EsLook \/ EsScan
  PROVE  EsInv'
<1> USE DEF Goto, Return, Raise, NoTrouble, EsKept, Es
<1>0. /\ EsTyped /\ EsPlaces /\ call' = call /\ told = "none" /\ at \in {"there?", "scan"} /\ remote' = remote
      /\ Known
  BY DEF EsInv, Shape, EsLook, EsScan, Base, Ending, EsFails, service
<1>a. call.op = "load_input" /\ answer \in Seq({"whole"}) /\ EsTarget \in EsIndices
  BY <1>0, EsAssumption DEF EsTyped, EsTarget
<1>1. CASE Raise
  BY <1>0, <1>1, EsFailed
<1>2. CASE Goto("scan")
  <2>1. EsPlaces' /\ EsWritten' /\ EsFew'
    BY <1>0, <1>2, <1>a DEF EsPlaces, EsWritten, EsFew
  <2>2. answer = << >>
    BY <1>0 DEF EsPlaces
  <2> QED BY <1>0, <1>2, <1>a, <2>1, <2>2, EsSame
<1>3. CASE at = "there?" /\ Return(<< >>) /\ ~\E x \in EsRead : EsThere(x)
  <2>1. EsPlaces' /\ EsWritten' /\ EsFew'
    BY <1>0, <1>3, <1>a DEF EsPlaces, EsWritten, EsFew
  <2>2. << >> \in Seq({"whole"}) /\ \A i \in DOMAIN << >> : << >>[i] = "whole"
    OBVIOUS
  <2>3. ASSUME NEW x \in EsIndices, <<x, "whole">> \in steady'
        PROVE  IF call.alias THEN <<"alias", {x}>> \notin steady' ELSE x # EsTarget
    <3>1. remote[x] = "whole"
      BY <1>0, <2>3, FactIs DEF Shape
    <3>2. CASE call.alias
      <4> SUFFICES ASSUME <<"alias", {x}>> \in steady' PROVE FALSE
        BY <3>2
      <4>1. remote["alias"] = {x}
        BY <1>0, FactIs DEF Shape
      <4> QED BY <1>3, <3>1, <3>2, <4>1 DEF EsRead, EsThere
    <3>3. CASE ~call.alias
      BY <1>3, <3>1, <3>3 DEF EsRead, EsThere
    <3> QED BY <3>2, <3>3
  <2>4. EsListing'
    BY <1>0, <1>3, <2>2, <2>3 DEF EsListing, EsTarget
  <2>5. EsDone' /\ answer = << >>
    BY <1>0, <1>a DEF EsDone, EsPlaces
  <2> QED BY <1>0, <1>3, <1>a, <2>1, <2>2, <2>4, <2>5, EsSame
<1>4. CASE at = "scan" /\ (\E x \in EsRead : EsThere(x)) /\ left' = {x \in EsRead : EsThere(x)} /\ Goto("pages")
  <2>1. EsRead \subseteq EsIndices
    BY <1>0, <1>a, EsConstants DEF EsRead, EsTyped, EsKnown
  <2>2. left' \subseteq EsIndices /\ left' # {}
    BY <1>4, <2>1
  <2>3. EsPlaces' /\ EsWritten' /\ EsFew'
    BY <1>0, <1>4, <1>a, <2>2 DEF EsPlaces, EsWritten, EsFew
  <2> QED BY <1>0, <1>4, <1>a, <2>3, EsSame
<1> QED BY <1>0, <1>1, <1>2, <1>3, <1>4 DEF EsLook, EsScan, EsFails

(* A page of a scroll keeps the invariant: all of it is of one output.     *)
LEMMA EsReads ==
  ASSUME Base, EsInv, Shape, EsPages
  PROVE  EsInv'
<1> USE DEF Goto, Return, Raise, NoTrouble, EsKept, Es
<1>0. /\ EsTyped /\ EsPlaces /\ call' = call /\ told = "none" /\ at = "pages" /\ remote' = remote
  BY DEF EsInv, Shape, EsPages, Base, Ending, EsFails, service
<1>a. call.op = "load_input" /\ answer \in Seq({"whole"}) /\ left \subseteq EsIndices
  BY <1>0, EsAssumption DEF EsTyped, EsPlaces
<1>1. CASE Raise
  BY <1>0, <1>1, EsFailed
<1>2. ASSUME NEW x \in left, EsThere(x), left' = left \ {x}, answer' = Append(answer, remote[x]), UNCHANGED <<at, told>>
      PROVE  EsInv'
  <2>1. remote[x] = "whole"
    BY <1>0, <1>2, <1>a DEF EsTyped, EsThere
  <2>2. answer' \in Seq({"whole"}) /\ answer' # << >>
    BY <1>2, <1>a, <2>1
  <2>3. EsPlaces' /\ EsWritten' /\ EsFew'
    BY <1>0, <1>2, <1>a, <2>2 DEF EsPlaces, EsWritten, EsFew
  <2> QED BY <1>0, <1>2, <1>a, <2>2, <2>3, EsSame
<1>3. CASE left = {} /\ Return(answer)
  <2>1. EsPlaces' /\ EsWritten' /\ EsFew'
    BY <1>0, <1>3, <1>a DEF EsPlaces, EsWritten, EsFew
  <2>2. answer # << >> /\ \A i \in DOMAIN answer : answer[i] = "whole"
    BY <1>0, <1>3, <1>a DEF EsPlaces
  <2>3. EsListing' /\ EsDone'
    BY <1>0, <1>3, <1>a, <2>2 DEF EsListing, EsDone
  <2> QED BY <1>0, <1>3, <1>a, <2>1, <2>3, EsSame
<1> QED BY <1>1, <1>2, <1>3 DEF EsPages, EsFails

(* Another call's new index, and another call's clean-up. *)
LEMMA EsBeside ==
  ASSUME Base, EsInv, Shape, EsOthers
  PROVE  EsInv'
<1>0. /\ EsTyped /\ EsPlaces /\ EsWritten /\ EsSound /\ EsEmpty
      /\ call' = call /\ told = "none" /\ at # "ended" /\ Counted
      /\ UNCHANGED <<at, left, answer, told, missed>> /\ faults' = faults + 1
  BY DEF EsInv, Shape, EsOthers, Base, Ending, Others, Trouble
<1>a. ~EsAlone' /\ EsTarget \in EsIndices
  <2>1. EsTarget \in EsIndices
    BY <1>0, EsAssumption DEF EsTyped, EsTarget
  <2>2. faults' # missed'
    <3>1. call.client # "hex"
      BY DEF EsOthers
    <3>2. faults \in Nat /\ missed \in Nat /\ missed <= faults
      BY <1>0, <3>1 DEF Counted
    <3> QED BY <1>0, <3>2
  <2> QED BY <2>1, <2>2 DEF EsAlone
<1>b. EsMoved' /\ EsFew' /\ told' # "returned"
  BY <1>0, <1>a DEF EsMoved, EsFew
<1>1. ASSUME NEW x \in EsRollovers \ {EsTarget}, ~EsThere(x),
             Becomes([remote EXCEPT ![x] = "whole", !["alias"] = {x}])
      PROVE  EsInv'
  <2>1. /\ DOMAIN remote' = DOMAIN remote /\ remote'["alias"] = {x} /\ remote'["reaper"] = remote["reaper"]
        /\ remote'[x] = "whole" /\ \A y \in EsIndices : y # x => remote'[y] = remote[y]
    <3>1. x \in EsIndices /\ x # "alias" /\ x # "reaper" /\ "alias" \in DOMAIN remote /\ x \in DOMAIN remote
      BY <1>0, EsConstants DEF EsTyped
    <3>2. remote' = [remote EXCEPT ![x] = "whole", !["alias"] = {x}]
      BY <1>1 DEF Becomes
    <3>3. \A y \in EsIndices : y # "alias" /\ y # "reaper"
      BY EsConstants
    <3>4. DOMAIN remote = EsIndices \cup {"alias", "reaper"}
      BY <1>0 DEF EsTyped
    <3> QED BY <3>1, <3>2, <3>3, <3>4
  <2>2. EsTyped'
    BY <1>0, <2>1, EsConstants DEF EsTyped, EsKnown, EsThere, EsStates
  <2>3. EsPlaces'
    BY <1>0, <1>a, <2>1 DEF EsPlaces, EsTarget, EsAgain
  <2>4. EsWritten'
    BY <1>0, <1>a, <2>1 DEF EsWritten, EsUnreaped, EsTarget
  <2>5. EsSound' /\ EsEmpty'
    BY <2>1 DEF EsSound, EsEmpty
  <2> QED BY <1>b, <2>2, <2>3, <2>4, <2>5 DEF EsInv
<1>2. ASSUME Becomes([x \in DOMAIN remote |->
                     IF x \in EsRollovers \ remote["alias"] THEN "none"
                     ELSE IF x = "reaper" THEN "ran" ELSE remote[x]])
      PROVE  EsInv'
  <2>1. /\ DOMAIN remote' = DOMAIN remote /\ remote'["alias"] = remote["alias"] /\ remote'["reaper"] = "ran"
        /\ \A x \in EsIndices : remote'[x] = IF x \in EsRollovers \ remote["alias"] THEN "none" ELSE remote[x]
    BY <1>0, <1>2, EsConstants DEF Becomes, EsTyped
  <2>2. EsTyped'
    BY <1>0, <2>1, EsConstants DEF EsTyped, EsKnown, EsThere, EsStates
  <2>3. EsPlaces'
    BY <1>0, <1>a, <2>1 DEF EsPlaces, EsTarget, EsAgain
  <2>4. EsWritten' /\ EsSound'
    BY <2>1 DEF EsWritten, EsSound, EsUnreaped
  <2>5. EsEmpty'
    <3>1. remote["alias"] = {} /\ <<"alias", {}>> \in steady => <<"alias", {}>> \in steady'
      BY <1>0, <2>1, EsStillEmpty DEF EsTyped
    <3> QED BY <1>0, <2>1, <3>1, EsAloneBefore DEF EsEmpty, EsAgain, EsTarget
  <2> QED BY <1>b, <2>2, <2>3, <2>4, <2>5 DEF EsInv
<1> QED BY <1>1, <1>2 DEF EsOthers, Others

(* Every step of a Elasticsearch call keeps its invariant.                 *)
LEMMA EsStep ==
  ASSUME Base, EsInv, EsAct
  PROVE  EsInv'
<1>1. Shape
  BY EsShape
<1> QED BY <1>1, EsRollovers_, EsCreates, EsBulks, EsRefreshed, EsSwapped, EsListsOld, EsDeletes,
           EsLooks, EsReads, EsBeside DEF EsAct, EsNext

(* What the invariant says of a Elasticsearch call that has ended.         *)
LEMMA EsMeans ==
  ASSUME Base, EsInv
  PROVE  (told = "returned" => EsDone /\ EsListing) /\ (told # "none" => EsNoStrays)
BY DEF EsInv, EsSound, EsEmpty, EsNoStrays

------------------------------------------------------------------------------
(***************************************************************************)
(* DataformClient: loads, runs, and the sensor that reports each           *)
(* invocation once.                                                        *)
(***************************************************************************)
DfAct == DfNext \/ DfTimer \/ DfProgress \/ DfOthers
DfStates == {"none", "PENDING", "RUNNING"} \cup DfEnded
DfInvs == Range(DfInvocations)
DfAt(x) == call.starts[DfPlace(x)]
DfEvents == [of : DfInvs, is : DfStates \ {"none"}, at : Nat]
DfIsEnd(f) == f.is \in DfEnded /\ f.is = remote[f.of] /\ f.at = DfAt(f.of)

DfTyped ==
  /\ call \in Calls /\ call.client = "dataform"
  /\ DOMAIN remote = DfInvs \cup {"compiled", "timer", "cursor"}
  /\ \A x \in DfInvs : remote[x] \in DfStates
  /\ remote["cursor"] \in Nat
  /\ remote["compiled"] \in Seq({"ours", "prefixed", "of another branch"})
  /\ call.op = "load" => at \in {"compile", "query", "ended"}
  /\ call.op = "run" => at \in {"compile", "invoke", "poll", "ended"}
  /\ call.op = "watch" => at \in {"tick", "details", "ended"}
(* The results that a load has used, each compiled after the one before it. *)
DfLoads ==
  call.op = "load" =>
    /\ left \in Seq(Nat)
    /\ at \in {"compile", "query"} => Len(left) <= 1
    /\ \A i \in 1 .. Len(left) : left[i] \in DfOurs
    /\ at = "query" => \E k \in DfOurs : \A i \in 1 .. Len(left) : left[i] < k
(* What the sensor has told of, and how far its cursor is.                  *)
DfTold ==
  call.op = "watch" =>
    /\ answer \in Seq(DfEvents) /\ \A f \in Range(answer) : DfIsEnd(f)
    /\ remote["cursor"] = 0 \/ \E f \in Range(answer) : f.at = remote["cursor"]
(* What a tick has still to ask for, what it found, and what of it is news. *)
DfTicking ==
  call.op = "watch" /\ at = "details" =>
    /\ left.ask \in Seq(DfInvs) /\ Range(left.ask) \subseteq DfRuns
    /\ left.found \in Seq(DfEvents) /\ left.news \in Seq(DfEvents)
    /\ \A f \in Range(left.news) : DfIsEnd(f) /\ f.at > remote["cursor"]
    /\ \A f \in Range(left.found) : f.is \in DfEnded => f.at > 0
    /\ \A f \in Range(left.found) :
         f.is \in DfEnded /\ call.action # "unknown check" => f \in Range(left.news) \/ f.at <= remote["cursor"]
(* In the order of starts, and with every tick kept: once each.             *)
DfOrdered ==
  call.op = "watch" /\ missed = 0 /\ ~call.newestFirst =>
    /\ \A i, j \in 1 .. Len(answer) : answer[i].of = answer[j].of => i = j
    /\ \A f \in Range(answer) : f.at <= remote["cursor"]
    /\ at = "details" =>
         /\ \A i, j \in 1 .. Len(left.ask) : i < j => DfPlace(left.ask[i]) < DfPlace(left.ask[j])
         /\ \A i, j \in 1 .. Len(left.news) : i < j => DfPlace(left.news[i].of) < DfPlace(left.news[j].of)
         /\ \A x \in Range(left.ask) : \A f \in Range(left.news) : DfPlace(f.of) < DfPlace(x)
DfInv == /\ DfTyped /\ DfLoads /\ DfTold /\ DfTicking /\ DfOrdered
         /\ call.op = "run" /\ at = "poll" => left = <<DfInvocations[1]>>
         /\ told = "returned" => DfDone /\ DfListing

(* What the assumption says of the invocations and their order.            *)
LEMMA DfConstants ==
  /\ DOMAIN DfInvocations = 1 .. Len(DfInvocations) /\ Len(DfInvocations) \in Nat
  /\ DfInvocations[1] \in DfInvs /\ 1 \in DOMAIN DfInvocations
  /\ \A i \in DOMAIN DfInvocations : DfInvocations[i] \in DfInvs /\ DfPlace(DfInvocations[i]) = i
  /\ \A x \in DfInvs : DfPlace(x) \in DOMAIN DfInvocations /\ DfInvocations[DfPlace(x)] = x
  /\ \A x \in DfInvs : x # "compiled" /\ x # "timer" /\ x # "cursor"
<1>1. DOMAIN DfInvocations = 1 .. Len(DfInvocations) /\ Len(DfInvocations) \in Nat /\ 1 \in DOMAIN DfInvocations
  BY DfAssumption
<1>2. \A i \in DOMAIN DfInvocations : DfInvocations[i] \in DfInvs
  BY DEF DfInvs, Range
<1>3. \A x \in DfInvs : DfPlace(x) \in DOMAIN DfInvocations /\ DfInvocations[DfPlace(x)] = x
  BY DEF DfInvs, Range, DfPlace
<1>4. \A i \in DOMAIN DfInvocations : DfPlace(DfInvocations[i]) = i
  BY <1>2, <1>3, DfAssumption
<1>5. \A x \in DfInvs : x # "compiled" /\ x # "timer" /\ x # "cursor"
  BY DfAssumption DEF DfInvs
<1> QED BY <1>1, <1>2, <1>3, <1>4, <1>5

(* The empty sequence has no members.                                      *)
LEMMA RangeNone == Range(<< >>) = {}
BY DEF Range

(* A Dataform call begins with its invariant.                              *)
LEMMA DfInitial ==
  ASSUME DfBegin
  PROVE  Base /\ DfInv /\ call.client = "dataform"
<1>1. PICK c \in Calls : c.client = "dataform" /\
        Begin(c, CASE c.op = "watch" -> "tick" [] OTHER -> "compile", << >>,
          [x \in Range(DfInvocations) \cup {"compiled", "timer", "cursor"} |->
             CASE x = "compiled" -> << >> [] x = "timer" -> "set"
               [] x = "cursor" -> 0 [] OTHER -> "none"])
  BY DEF DfBegin
<1>2. Base
  BY <1>1, BeginBase
<1>3. c.op \in {"load", "run", "watch"}
  BY <1>1, DfAssumption
<1>4. /\ call = c /\ left = << >> /\ at = (IF c.op = "watch" THEN "tick" ELSE "compile") /\ answer = << >> /\ told = "none"
      /\ remote = [x \in DfInvs \cup {"compiled", "timer", "cursor"} |->
             CASE x = "compiled" -> << >> [] x = "timer" -> "set"
               [] x = "cursor" -> 0 [] OTHER -> "none"]
  BY <1>1 DEF Begin, DfInvs
<1>5. /\ DOMAIN remote = DfInvs \cup {"compiled", "timer", "cursor"} /\ remote["compiled"] = << >>
      /\ remote["cursor"] = 0 /\ \A x \in DfInvs : remote[x] = "none"
  BY <1>4, DfConstants
<1>6. DfTyped
  BY <1>1, <1>3, <1>4, <1>5 DEF DfTyped, DfStates
<1>7. DfLoads /\ DfTold /\ DfTicking /\ DfOrdered /\ at # "poll" /\ told # "returned"
  BY <1>3, <1>4, <1>5, RangeNone DEF DfLoads, DfTold, DfTicking, DfOrdered
<1> QED BY <1>1, <1>2, <1>4, <1>6, <1>7 DEF DfInv

(* What every step of a Dataform call leaves alone, and what it may count. *)
LEMMA DfShape ==
  ASSUME Base, DfInv, DfAct
  PROVE  Shape /\ call.client = "dataform"
<1> USE DEF Base, Goto, Return, Raise, NoTrouble, Miss, Trouble, troubles, Df
<1>1. CASE DfCompile
  <2>1. steady' = steady \cap Facts(remote')
    BY <1>1, ServiceKept, ServiceBecomes DEF DfCompile, Set
  <2> QED BY <1>1, <2>1 DEF DfCompile, Shape, Ending, Counted
<1>2. CASE DfQuery
  BY <1>2, ServiceKept DEF DfQuery, Shape, Ending, Counted
<1>3. CASE DfInvoke
  <2>1. steady' = steady \cap Facts(remote')
    BY <1>3, ServiceKept, ServiceBecomes DEF DfInvoke, Set
  <2> QED BY <1>3, <2>1 DEF DfInvoke, Shape, Ending, Counted
<1>4. CASE DfPoll
  BY <1>4, ServiceKept DEF DfPoll, Shape, Ending, Counted
<1>5. CASE DfTick \/ DfDetails
  BY <1>5, ServiceKept DEF DfTick, DfDetails, Shape, Ending, Counted
<1>6. CASE DfKeep
  <2>1. steady' = steady \cap Facts(remote')
    BY <1>6, ServiceKept, ServiceBecomes DEF DfKeep, Set
  <2> QED BY <1>6, <2>1 DEF DfKeep, DfNextTick, Shape, Ending, Counted
<1>7. CASE DfTickFails
  BY <1>7, ServiceKept DEF DfTickFails, Shape, Ending, Counted
<1>8. CASE DfTimer \/ DfProgress
  <2>1. steady' = steady \cap Facts(remote')
    BY <1>8, ServiceBecomes DEF DfTimer, DfProgress, Set
  <2> QED BY <1>8, <2>1 DEF DfTimer, DfProgress, Shape, Ending, Counted
<1>9. CASE DfOthers
  <2>1. PICK r : Others(r)
    BY <1>9 DEF DfOthers
  <2>2. steady' = steady \cap Facts(remote')
    BY <2>1, ServiceBecomes DEF Others
  <2> QED BY <1>9, <2>1, <2>2 DEF DfOthers, Others, Shape, Ending, Counted
<1> QED BY <1>1, <1>2, <1>3, <1>4, <1>5, <1>6, <1>7, <1>8, <1>9 DEF DfAct, DfNext

(* Loads: what is compiled stays, and what is added comes last.            *)
LEMMA DfCompiled ==
  ASSUME DfTyped, NEW c \in {"ours", "prefixed", "of another branch"},
         Set("compiled", Append(remote["compiled"], c))
  PROVE  /\ DOMAIN remote' = DOMAIN remote /\ remote'["cursor"] = remote["cursor"]
         /\ \A x \in DfInvs : remote'[x] = remote[x]
         /\ remote'["compiled"] \in Seq({"ours", "prefixed", "of another branch"})
         /\ DfOurs \subseteq DfOurs' /\ DfOurs \subseteq Nat
         /\ c = "ours" => \E k \in DfOurs' : \A i \in DfOurs : i < k
<1> DEFINE old == remote["compiled"]
<1>1. remote' = [remote EXCEPT !["compiled"] = Append(old, c)] /\ "compiled" \in DOMAIN remote /\ "cursor" \in DOMAIN remote
  BY DEF Set, Becomes, DfTyped
<1>2. remote'["compiled"] = Append(old, c) /\ DOMAIN remote' = DOMAIN remote /\ remote'["cursor"] = remote["cursor"]
  BY <1>1
<1>3. \A x \in DfInvs : remote'[x] = remote[x]
  BY <1>1, DfConstants DEF DfTyped
<1>4. old \in Seq({"ours", "prefixed", "of another branch"})
  BY DEF DfTyped
<1> HIDE DEF old
<1> PICK S : S = {"ours", "prefixed", "of another branch"}
  OBVIOUS
<1>5. old \in Seq(S) /\ c \in S
  BY <1>4
<1>6. Append(old, c) \in Seq(S)
  BY <1>5, AppendIs
<1>7. DfOurs = {i \in DOMAIN old : old[i] = "ours"}
  BY DEF DfOurs, old
<1>8. DfOurs' = {i \in DOMAIN Append(old, c) : Append(old, c)[i] = "ours"}
  BY <1>2 DEF DfOurs
<1>9. DfOurs \subseteq DfOurs' /\ DfOurs \subseteq Nat /\ (c = "ours" => \E k \in DfOurs' : \A i \in DfOurs : i < k)
  <2>1. /\ \A i \in DOMAIN old : i \in Nat /\ i \in DOMAIN Append(old, c) /\ Append(old, c)[i] = old[i] /\ i < Len(old) + 1
        /\ Len(old) + 1 \in DOMAIN Append(old, c) /\ Append(old, c)[Len(old) + 1] = c
    <3>1. \A s \in Seq(S) : \A x \in S :
            /\ \A i \in DOMAIN s : i \in Nat /\ i \in DOMAIN Append(s, x) /\ Append(s, x)[i] = s[i] /\ i < Len(s) + 1
            /\ Len(s) + 1 \in DOMAIN Append(s, x) /\ Append(s, x)[Len(s) + 1] = x
      BY PlacesGrow
    <3> QED BY <1>5, <3>1
  <2> QED BY <1>7, <1>8, <2>1
<1> QED BY <1>2, <1>3, <1>6, <1>9

(* A step of a load, or of another who compiles while it runs. *)
LEMMA DfLoadKept ==
  ASSUME Base, DfInv, Shape, call.op = "load", DfTyped', DfLoads', told' = "returned" => DfDone'
  PROVE  DfInv'
<1>1. call' = call
  BY DEF Shape
<1>2. DfTold' /\ DfTicking' /\ DfOrdered' /\ DfListing'
  BY <1>1 DEF DfTold, DfTicking, DfOrdered, DfListing
<1> QED BY <1>1, <1>2 DEF DfInv

(* The steps of a load keep the invariant.                                 *)
LEMMA DfLoadSteps ==
  ASSUME Base, DfInv, Shape, call.op = "load", DfCompile \/ DfQuery \/ DfOthers
  PROVE  DfInv'
<1> USE DEF Goto, Return, Raise, NoTrouble, Df
<1>0. DfTyped /\ DfLoads /\ call' = call /\ told = "none" /\ Ending
  BY DEF DfInv, Shape, Base, Ending, DfCompile, DfQuery, DfOthers, Others
<1>1. CASE Miss /\ Raise /\ UNCHANGED <<left, service>>
  <2>1. remote' = remote
    BY <1>1 DEF service
  <2> QED BY <1>0, <1>1, <2>1, DfLoadKept DEF DfTyped, DfLoads, DfOurs
<1>2. CASE Df("compile") /\ Set("compiled", Append(remote["compiled"], "ours")) /\ UNCHANGED left /\ Goto("query")
  <2>1. /\ DOMAIN remote' = DOMAIN remote /\ remote'["cursor"] = remote["cursor"]
        /\ \A x \in DfInvs : remote'[x] = remote[x]
        /\ remote'["compiled"] \in Seq({"ours", "prefixed", "of another branch"})
        /\ DfOurs \subseteq DfOurs'
        /\ \E k \in DfOurs' : \A i \in DfOurs : i < k
    BY <1>0, <1>2, DfCompiled
  <2>2. DfTyped'
    BY <1>0, <1>2, <2>1 DEF DfTyped
  <2>3. DfLoads'
    BY <1>0, <1>2, <2>1 DEF DfLoads
  <2> QED BY <1>0, <1>2, <2>2, <2>3, DfLoadKept
<1>3. CASE DfOthers
  <2>1. PICK c \in {"ours", "prefixed", "of another branch"} : Others([remote EXCEPT !["compiled"] = Append(@, c)])
    BY <1>3 DEF DfOthers
  <2>2. Set("compiled", Append(remote["compiled"], c)) /\ UNCHANGED <<at, left, told>>
    BY <2>1 DEF Others, Set
  <2>3. /\ DOMAIN remote' = DOMAIN remote /\ remote'["cursor"] = remote["cursor"]
        /\ \A x \in DfInvs : remote'[x] = remote[x]
        /\ remote'["compiled"] \in Seq({"ours", "prefixed", "of another branch"})
        /\ DfOurs \subseteq DfOurs'
    BY <1>0, <2>2, DfCompiled
  <2>4. DfTyped'
    BY <1>0, <2>2, <2>3 DEF DfTyped
  <2>5. DfLoads'
    BY <1>0, <2>2, <2>3 DEF DfLoads
  <2> QED BY <1>0, <2>2, <2>4, <2>5, DfLoadKept
<1>4. CASE /\ Df("query") /\ UNCHANGED service
           /\ \E latest \in DfOurs : (\A i \in DfOurs : i <= latest) /\ left' = Append(left, latest)
           /\ IF Len(left) = 1 THEN Return(left') ELSE Goto("compile")
  <2>1. PICK latest \in DfOurs : (\A i \in DfOurs : i <= latest) /\ left' = Append(left, latest)
    BY <1>4
  <2>2. left \in Seq(Nat) /\ Len(left) <= 1 /\ (\A i \in 1 .. Len(left) : left[i] \in DfOurs)
         /\ \E k \in DfOurs : \A i \in 1 .. Len(left) : left[i] < k
    BY <1>0, <1>4 DEF DfLoads
  <2>3. DfOurs \subseteq Nat /\ remote' = remote
    <3>1. DOMAIN remote["compiled"] = 1 .. Len(remote["compiled"]) /\ Len(remote["compiled"]) \in Nat
      BY <1>0, SeqMembers DEF DfTyped
    <3> QED BY <1>4, <3>1 DEF DfOurs, service
  <2>4. \A i \in 1 .. Len(left) : left[i] < latest
    BY <2>1, <2>2, <2>3
  <2>5. /\ left' \in Seq(Nat) /\ Len(left') = Len(left) + 1 /\ left'[Len(left) + 1] = latest /\ Len(left) \in Nat
        /\ \A i \in 1 .. Len(left) : left'[i] = left[i]
    BY <2>1, <2>2, <2>3
  <2>6. \A i \in 1 .. Len(left') : left'[i] \in DfOurs
    BY <2>1, <2>2, <2>5
  <2>7. DfOurs' = DfOurs
    BY <2>3 DEF DfOurs
  <2>8. DfTyped'
    BY <1>0, <1>4, <2>3 DEF DfTyped
  <2>9. DfLoads'
    <3>1. \/ at' = "ended"
          \/ at' = "compile" /\ Len(left') <= 1
      <4>1. Len(left) # 1 => Len(left') <= 1
        <5> PICK n, m : n = Len(left) /\ m = Len(left')
          OBVIOUS
        <5>1. n \in Nat /\ n <= 1 /\ m = n + 1
          BY <2>2, <2>5
        <5>2. n # 1 => m <= 1
          BY <5>1
        <5> QED BY <5>2
      <4> QED BY <1>4, <4>1
    <3>2. \A i \in 1 .. Len(left') : left'[i] \in DfOurs'
      BY <2>6, <2>7
    <3> QED BY <2>5, <3>1, <3>2 DEF DfLoads
  <2>10. ASSUME told' = "returned" PROVE DfDone'
    <3>1. Len(left) = 1 /\ answer' = left'
      BY <1>0, <1>4, <2>10
    <3>2. left'[1] = left[1] /\ left'[2] = latest /\ left'[1] \in DfOurs /\ left'[2] \in DfOurs /\ left[1] < latest
      BY <2>2, <2>4, <2>5, <2>6, <3>1
    <3>3. \A i \in 1 .. 2 : remote'["compiled"][answer'[i]] = "ours"
      BY <2>3, <3>1, <3>2 DEF DfOurs
    <3>4. answer'[1] < answer'[2]
      BY <3>1, <3>2
    <3> QED BY <1>0, <3>3, <3>4 DEF DfDone
  <2> QED BY <2>8, <2>9, <2>10, DfLoadKept
<1> QED BY <1>1, <1>2, <1>3, <1>4 DEF DfCompile, DfQuery

(* An invocation goes on, or the timer of the op. *)
LEMMA DfPut ==
  ASSUME DfTyped, NEW n \in DfInvs \cup {"timer"}, NEW v, n \in DfInvs => v \in DfStates, Set(n, v)
  PROVE  /\ DOMAIN remote' = DOMAIN remote /\ remote'["cursor"] = remote["cursor"]
         /\ remote'["compiled"] = remote["compiled"] /\ remote'[n] = v
         /\ \A x \in DfInvs : x # n => remote'[x] = remote[x]
         /\ \A x \in DfInvs : remote'[x] \in DfStates
<1>1. remote' = [remote EXCEPT ![n] = v] /\ DOMAIN remote = DfInvs \cup {"compiled", "timer", "cursor"}
  BY DEF Set, Becomes, DfTyped
<1>2. n # "cursor" /\ n # "compiled" /\ \A x \in DfInvs : x # "timer"
  BY DfConstants
<1>3. /\ DOMAIN remote' = DOMAIN remote /\ remote'["cursor"] = remote["cursor"]
      /\ remote'["compiled"] = remote["compiled"] /\ remote'[n] = v
      /\ \A x \in DfInvs : x # n => remote'[x] = remote[x]
  BY <1>1, <1>2
<1>4. \A x \in DfInvs : remote'[x] \in DfStates
  BY <1>3 DEF DfTyped
<1> QED BY <1>3, <1>4

(* The op that runs a workflow. *)
LEMMA DfRunKept ==
  ASSUME Base, DfInv, Shape, call.op = "run", DfTyped',
         at' = "poll" => left' = <<DfInvocations[1]>>,
         told' = "returned" => remote'[left'[1]] = "SUCCEEDED"
  PROVE  DfInv'
<1>1. call' = call
  BY DEF Shape
<1>2. DfTold' /\ DfTicking' /\ DfOrdered' /\ DfListing' /\ DfLoads'
  BY <1>1 DEF DfTold, DfTicking, DfOrdered, DfListing, DfLoads
<1>3. told' = "returned" => DfDone'
  BY <1>1 DEF DfDone
<1> QED BY <1>1, <1>2, <1>3 DEF DfInv

(* The steps of a run keep the invariant.                                  *)
LEMMA DfRunSteps ==
  ASSUME Base, DfInv, Shape, call.op = "run", DfCompile \/ DfInvoke \/ DfPoll \/ DfTimer \/ DfProgress
  PROVE  DfInv'
<1> USE DEF Goto, Return, Raise, NoTrouble, Df
<1>0. DfTyped /\ (at = "poll" => left = <<DfInvocations[1]>>) /\ call' = call /\ told = "none" /\ Ending
  BY DEF DfInv, Shape, Base, Ending, DfCompile, DfInvoke, DfPoll, DfTimer, DfProgress
<1>1. ASSUME remote' = remote, at' = "ended" \/ (at' = at /\ left' = left),
             told' = "returned" => remote[left'[1]] = "SUCCEEDED"
      PROVE  DfInv'
  <2>1. remote' = remote
    BY <1>1
  <2>2. DfTyped'
    BY <1>0, <1>1, <2>1 DEF DfTyped
  <2> QED BY <1>0, <1>1, <2>1, <2>2, DfRunKept
<1>2. ASSUME NEW n \in DfInvs \cup {"timer"}, NEW v, n \in DfInvs => v \in DfStates, Set(n, v),
             told' # "returned",
             \/ at' = "ended"
             \/ at' = at /\ left' = left
             \/ at' = "poll" /\ left' = <<DfInvocations[1]>>
      PROVE  DfInv'
  <2>1. /\ DOMAIN remote' = DOMAIN remote /\ remote'["cursor"] = remote["cursor"]
        /\ remote'["compiled"] = remote["compiled"] /\ \A x \in DfInvs : remote'[x] \in DfStates
    BY <1>0, <1>2, DfPut
  <2>2. DfTyped'
    BY <1>0, <1>2, <2>1 DEF DfTyped
  <2> QED BY <1>0, <1>2, <2>2, DfRunKept
<1>3. CASE DfCompile
  <2>1. CASE Set("compiled", Append(remote["compiled"], "ours")) /\ Goto("invoke")
    <3>1. /\ DOMAIN remote' = DOMAIN remote /\ remote'["cursor"] = remote["cursor"]
          /\ \A x \in DfInvs : remote'[x] = remote[x]
          /\ remote'["compiled"] \in Seq({"ours", "prefixed", "of another branch"})
      BY <1>0, <2>1, DfCompiled
    <3>2. DfTyped'
      BY <1>0, <2>1, <3>1 DEF DfTyped
    <3> QED BY <1>0, <2>1, <3>2, DfRunKept
  <2>2. CASE Raise /\ UNCHANGED service
    <3>1. at' = "ended" /\ told' # "returned" /\ remote' = remote
      BY <2>2 DEF service
    <3> QED BY <1>1, <3>1
  <2> QED BY <1>3, <2>1, <2>2 DEF DfCompile
<1>4. CASE DfInvoke
  <2>1. DfInvocations[1] \in DfInvs /\ "RUNNING" \in DfStates
    BY DfConstants DEF DfStates
  <2>2. CASE Set(DfInvocations[1], "RUNNING")
    <3>1. PICK n \in DfInvs \cup {"timer"} : n = DfInvocations[1]
      BY <2>1
    <3>2. \/ at' = "ended"
          \/ at' = "poll" /\ left' = <<DfInvocations[1]>>
      BY <1>4 DEF DfInvoke
    <3>3. told' # "returned"
      BY <1>0, <1>4 DEF DfInvoke
    <3> QED BY <1>2, <2>1, <2>2, <3>1, <3>2, <3>3
  <2>3. CASE UNCHANGED service /\ Raise
    <3>1. at' = "ended" /\ told' # "returned" /\ remote' = remote
      BY <2>3 DEF service
    <3> QED BY <1>1, <3>1
  <2> QED BY <1>4, <2>2, <2>3 DEF DfInvoke
<1>5. CASE DfPoll
  BY <1>0, <1>1, <1>5 DEF DfPoll, service
<1>6. CASE DfTimer
  <2>1. \A x \in DfInvs : x # "timer"
    BY DfConstants
  <2>2. Set("timer", "passed") /\ told' # "returned" /\ at' = at /\ left' = left
    BY <1>0, <1>6 DEF DfTimer
  <2>3. PICK n \in DfInvs \cup {"timer"} : n = "timer"
    OBVIOUS
  <2> QED BY <1>2, <2>1, <2>2, <2>3
<1>7. CASE DfProgress
  <2>1. PICK x \in DfInvs, v \in DfStates : Set(x, v)
    BY <1>7, DfConstants DEF DfProgress, DfStates, DfEnded
  <2> QED BY <1>0, <1>2, <1>7, <2>1 DEF DfProgress
<1> QED BY <1>3, <1>4, <1>5, <1>6, <1>7

(* Invocations go on beside a call, and what has ended has.                 *)
LEMMA DfGoesOn ==
  ASSUME DfTyped, DfProgress
  PROVE  /\ DfTyped' /\ DfOurs' = DfOurs /\ remote'["cursor"] = remote["cursor"]
         /\ \A x \in DfInvs : /\ remote[x] \in DfEnded => remote'[x] = remote[x]
                              /\ remote[x] # "none" => remote'[x] # "none"
<1>1. PICK x \in DfInvs, v \in DfStates \ {"none"} : Set(x, v) /\ remote[x] \notin DfEnded
  BY DfConstants DEF DfProgress, DfStates, DfEnded
<1>2. /\ DOMAIN remote' = DOMAIN remote /\ remote'["cursor"] = remote["cursor"]
      /\ remote'["compiled"] = remote["compiled"] /\ remote'[x] = v
      /\ \A y \in DfInvs : y # x => remote'[y] = remote[y]
      /\ \A y \in DfInvs : remote'[y] \in DfStates
  BY <1>1, DfPut
<1>3. DfOurs' = DfOurs
  BY <1>2 DEF DfOurs
<1>4. DfTyped'
  BY <1>2 DEF DfTyped, DfProgress
<1> QED BY <1>1, <1>2, <1>3, <1>4

(* Dataform at work keeps the invariant.                                   *)
LEMMA DfProgresses ==
  ASSUME Base, DfInv, Shape, DfProgress
  PROVE  DfInv'
<1>0. DfTyped /\ DfLoads /\ DfTold /\ DfTicking /\ DfOrdered /\ call' = call /\ told = "none"
      /\ UNCHANGED <<at, left, tries, answer, told>> /\ missed' = missed
  BY DEF DfInv, Shape, DfProgress, NoTrouble, troubles
<1>1. /\ DfTyped' /\ DfOurs' = DfOurs /\ remote'["cursor"] = remote["cursor"]
      /\ \A x \in DfInvs : /\ remote[x] \in DfEnded => remote'[x] = remote[x]
                           /\ remote[x] # "none" => remote'[x] # "none"
  BY <1>0, DfGoesOn
<1>2. DfLoads'
  BY <1>0, <1>1 DEF DfLoads
<1>a. ASSUME NEW f \in DfEvents, DfIsEnd(f) PROVE DfIsEnd(f)'
  <2>1. f.of \in DfInvs
    BY DEF DfEvents
  <2>2. remote'[f.of] = remote[f.of] /\ DfAt(f.of)' = DfAt(f.of)
    BY <1>0, <1>1, <1>a, <2>1 DEF DfIsEnd, DfAt
  <2> QED BY <1>a, <2>2 DEF DfIsEnd
<1>3. DfTold'
  <2> SUFFICES ASSUME call.op = "watch" PROVE DfTold'
    BY <1>0 DEF DfTold
  <2>1. answer \in Seq(DfEvents) /\ \A f \in Range(answer) : DfIsEnd(f)
    BY <1>0 DEF DfTold
  <2>2. \A f \in Range(answer) : DfIsEnd(f)'
    BY <1>a, <2>1, SeqMembers
  <2> QED BY <1>0, <1>1, <2>1, <2>2 DEF DfTold
<1>4. DfTicking'
  <2> SUFFICES ASSUME call.op = "watch", at = "details" PROVE DfTicking'
    BY <1>0 DEF DfTicking
  <2>1. left.news \in Seq(DfEvents) /\ \A f \in Range(left.news) : DfIsEnd(f)
    BY <1>0 DEF DfTicking
  <2>2. \A f \in Range(left.news) : DfIsEnd(f)'
    BY <1>a, <2>1, SeqMembers
  <2>3. DfRuns \subseteq DfRuns'
    BY <1>1 DEF DfRuns, DfInvs
  <2> QED BY <1>0, <1>1, <2>2, <2>3 DEF DfTicking
<1>5. DfOrdered'
  BY <1>0, <1>1 DEF DfOrdered
<1> QED BY <1>0, <1>1, <1>2, <1>3, <1>4, <1>5 DEF DfInv

(* The sensor: what it lists, what an answer says, and a tick kept.         *)
LEMMA DfWatchKept ==
  ASSUME Base, DfInv, Shape, call.op = "watch", DfTyped', DfTold', DfTicking', DfOrdered',
         told' = "returned" => DfListing'
  PROVE  DfInv'
<1>1. call' = call
  BY DEF Shape
<1>2. DfDone' /\ DfLoads' /\ ~ (call'.op = "run")
  BY <1>1 DEF DfDone, DfLoads
<1> QED BY <1>1, <1>2 DEF DfInv

(* Only the sensor ticks.                                                  *)
LEMMA DfWatchOnly ==
  ASSUME DfTyped, at \in {"tick", "details"}
  PROVE  call.op = "watch"
<1>1. call.op \in {"load", "run", "watch"}
  BY DfAssumption DEF DfTyped
<1> QED BY <1>1 DEF DfTyped

(* Later invocations start later.                                          *)
LEMMA DfStarts ==
  ASSUME DfTyped, call.op = "watch"
  PROVE  /\ call.newestFirst \in BOOLEAN
         /\ \A x \in DfInvs : DfAt(x) \in Nat \ {0}
         /\ \A x, y \in DfInvs : DfPlace(x) <= DfPlace(y) => DfAt(x) <= DfAt(y)
<1>1. /\ call.newestFirst \in BOOLEAN
      /\ \A i \in DOMAIN DfInvocations : call.starts[i] \in Nat \ {0}
      /\ \A i, j \in DOMAIN DfInvocations : i <= j => call.starts[i] <= call.starts[j]
  BY DfAssumption DEF DfTyped
<1>2. \A x \in DfInvs : DfPlace(x) \in DOMAIN DfInvocations
  BY DfConstants
<1> QED BY <1>1, <1>2 DEF DfAt

(* The invocations listed, in the order the service gives them.            *)
LEMMA DfListedIs ==
  ASSUME DfTyped, call.op = "watch", NEW n \in 0 .. Len(DfInvocations),
         DfRuns = {DfInvocations[i] : i \in 1 .. n}
  PROVE  /\ DfListed(n) \in Seq(DfInvs) /\ Range(DfListed(n)) \subseteq DfRuns
         /\ ~call.newestFirst => \A i, j \in 1 .. Len(DfListed(n)) :
              i < j => DfPlace(DfListed(n)[i]) < DfPlace(DfListed(n)[j])
<1> DEFINE At(i) == IF call.newestFirst THEN n + 1 - i ELSE i
<1>1. DfListed(n) = [i \in 1 .. n |-> DfInvocations[At(i)]] /\ n \in Nat
  BY DfConstants DEF DfListed
<1>2. \A i \in 1 .. n : At(i) \in 1 .. n
  BY DfStarts, <1>1
<1>3. \A i \in 1 .. n : i \in DOMAIN DfInvocations
  BY DfConstants
<1>4. \A i \in 1 .. n : DfInvocations[At(i)] \in DfInvs /\ DfPlace(DfInvocations[At(i)]) = At(i)
  BY <1>2, <1>3, DfConstants
<1>5. \A i \in 1 .. n : DfInvocations[At(i)] \in DfRuns
  BY <1>2
<1>6. ~call.newestFirst => \A i \in 1 .. n : At(i) = i
  OBVIOUS
<1> HIDE DEF At
<1> PICK s : s = DfListed(n)
  OBVIOUS
<1>7. DOMAIN s = 1 .. n /\ Len(s) = n /\ s \in Seq(DfInvs) /\ \A i \in 1 .. n : s[i] = DfInvocations[At(i)]
  BY <1>1, <1>4
<1>8. Range(s) \subseteq DfRuns
  BY <1>5, <1>7 DEF Range
<1>9. ~call.newestFirst => \A i, j \in 1 .. n : i < j => DfPlace(s[i]) < DfPlace(s[j])
  BY <1>4, <1>6, <1>7
<1> QED BY <1>7, <1>8, <1>9

(* A tick that lists the invocations keeps the invariant.                  *)
LEMMA DfTicks1 ==
  ASSUME Base, DfInv, Shape, DfTick
  PROVE  DfInv'
<1>0. DfTyped /\ DfTold /\ DfOrdered /\ call' = call /\ remote' = remote /\ answer' = answer /\ told' = "none"
       /\ at' = "details" /\ call.op = "watch" /\ missed' = missed /\ at = "tick"
  BY DfWatchOnly DEF DfInv, Shape, DfTick, Df, Goto, NoTrouble, troubles, service, Base, Ending
<1>1. PICK n \in 0 .. Len(DfInvocations) :
        /\ DfRuns = {DfInvocations[i] : i \in 1 .. n}
        /\ left' = [ask |-> DfListed(n), found |-> << >>, news |-> << >>]
  BY DEF DfTick
<1>2. /\ DfListed(n) \in Seq(DfInvs) /\ Range(DfListed(n)) \subseteq DfRuns
      /\ ~call.newestFirst => \A i, j \in 1 .. Len(DfListed(n)) :
            i < j => DfPlace(DfListed(n)[i]) < DfPlace(DfListed(n)[j])
  BY <1>0, <1>1, DfListedIs
<1>3. left'.ask = DfListed(n) /\ left'.found = << >> /\ left'.news = << >>
  BY <1>1
<1>4. DfTyped'
  BY <1>0 DEF DfTyped
<1>5. DfTold'
  BY <1>0 DEF DfTold, DfIsEnd, DfAt
<1>6. DfTicking'
  <2>1. DfRuns' = DfRuns
    BY <1>0 DEF DfRuns
  <2>2. left'.found \in Seq(DfEvents) /\ left'.news \in Seq(DfEvents) /\ Range(left'.found) = {} /\ Range(left'.news) = {}
    BY <1>3, RangeNone
  <2>3. left'.ask \in Seq(DfInvs) /\ Range(left'.ask) \subseteq DfRuns'
    BY <1>2, <1>3, <2>1
  <2> QED BY <2>2, <2>3 DEF DfTicking
<1>7. DfOrdered'
  BY <1>0, <1>2, <1>3, RangeNone DEF DfOrdered
<1> QED BY <1>0, <1>4, <1>5, <1>6, <1>7, DfWatchKept

(* What is news, and what is not.                                          *)
LEMMA DfNewIs ==
  ASSUME DfTyped, call.op = "watch", NEW x \in DfRuns
  PROVE  /\ DfFound(x) \in DfEvents /\ DfFound(x).of = x /\ DfFound(x).is = remote[x]
         /\ DfNew(x) => DfIsEnd(DfFound(x)) /\ DfFound(x).at > remote["cursor"]
         /\ remote[x] \in DfEnded => DfFound(x).at > 0
         /\ (remote[x] \in DfEnded /\ call.action # "unknown check" /\ ~DfNew(x)) => DfFound(x).at <= remote["cursor"]
<1>1. x \in DfInvs /\ remote[x] \in DfStates \ {"none"} /\ remote["cursor"] \in Nat
  BY DEF DfRuns, DfTyped, DfInvs
<1>2. DfAt(x) \in Nat \ {0}
  BY <1>1, DfStarts
<1>3. DfStart(x) = (IF remote[x] = "PENDING" THEN 0 ELSE DfAt(x))
  BY DEF DfStart, DfAt
<1>4. DfFound(x).of = x /\ DfFound(x).is = remote[x] /\ DfFound(x).at = DfStart(x) /\ DfFound(x) \in DfEvents
  BY <1>1, <1>2, <1>3 DEF DfFound, DfEvents
<1>5. ASSUME DfNew(x) PROVE DfIsEnd(DfFound(x)) /\ DfFound(x).at > remote["cursor"]
  <2>1. DfStart(x) > remote["cursor"] /\ remote[x] # "RUNNING"
    BY <1>5 DEF DfNew
  <2>2. remote[x] # "PENDING"
    BY <1>1, <1>3, <2>1
  <2> QED BY <1>1, <1>3, <1>4, <2>1, <2>2 DEF DfIsEnd, DfStates
<1>6. ASSUME remote[x] \in DfEnded PROVE DfFound(x).at > 0 /\ remote[x] # "RUNNING"
  BY <1>2, <1>3, <1>4, <1>6 DEF DfEnded
<1>7. ASSUME remote[x] \in DfEnded, call.action # "unknown check", ~DfNew(x)
      PROVE  DfFound(x).at <= remote["cursor"]
  <2>1. remote[x] # "RUNNING" /\ remote[x] # "PENDING"
    BY <1>7 DEF DfEnded
  <2>2. ~(DfStart(x) > remote["cursor"])
    BY <1>7, <2>1 DEF DfNew
  <2>3. DfFound(x).at = DfAt(x) /\ DfStart(x) = DfAt(x)
    BY <1>3, <1>4, <2>1
  <2> QED BY <1>1, <1>2, <2>2, <2>3
<1> QED BY <1>4, <1>5, <1>6, <1>7

(* Asking for the details of an invocation keeps the invariant.            *)
LEMMA DfAsks ==
  ASSUME Base, DfInv, Shape, DfDetails
  PROVE  DfInv'
<1>0. DfTyped /\ DfTold /\ DfOrdered /\ DfTicking /\ call' = call /\ remote' = remote /\ answer' = answer /\ told' = "none"
       /\ at' = "details" /\ call.op = "watch" /\ missed' = missed /\ at = "details"
  BY DfWatchOnly DEF DfInv, Shape, DfDetails, Df, Goto, NoTrouble, troubles, service, Base, Ending
<1> PICK x, ask, found, news : x = Head(left.ask) /\ ask = left.ask /\ found = left.found /\ news = left.news
  OBVIOUS
<1> PICK e : e = DfFound(x)
  OBVIOUS
<1>1. /\ ask \in Seq(DfInvs) /\ Range(ask) \subseteq DfRuns /\ found \in Seq(DfEvents) /\ news \in Seq(DfEvents)
      /\ (\A f \in Range(news) : DfIsEnd(f) /\ f.at > remote["cursor"])
      /\ (\A f \in Range(found) : f.is \in DfEnded => f.at > 0)
      /\ \A f \in Range(found) :
         (f.is \in DfEnded /\ call.action # "unknown check") => f \in Range(news) \/ f.at <= remote["cursor"]
  BY <1>0 DEF DfTicking
<1>2. /\ x \in DfInvs /\ Tail(ask) \in Seq(DfInvs) /\ Range(ask) = {x} \cup Range(Tail(ask)) /\ x = ask[1]
      /\ Len(Tail(ask)) = Len(ask) - 1 /\ Len(ask) \in Nat \ {0}
      /\ \A i \in 1 .. Len(Tail(ask)) : Tail(ask)[i] = ask[i + 1]
  <2>1. ask # << >>
    BY DEF DfDetails
  <2> QED BY <1>1, <2>1, HeadTail
<1>3. /\ e \in DfEvents /\ e.of = x /\ e.is = remote[x]
      /\ (DfNew(x) => DfIsEnd(e) /\ e.at > remote["cursor"])
      /\ (remote[x] \in DfEnded => e.at > 0)
      /\ (remote[x] \in DfEnded /\ call.action # "unknown check" /\ ~DfNew(x)) => e.at <= remote["cursor"]
  BY <1>0, <1>1, <1>2, DfNewIs
<1>4. left' = [ask |-> Tail(ask), found |-> Append(found, e), news |-> IF DfNew(x) THEN Append(news, e) ELSE news]
  BY DEF DfDetails
<1> PICK more : more = (IF DfNew(x) THEN Append(news, e) ELSE news)
  OBVIOUS
<1>5. left'.ask = Tail(ask) /\ left'.found = Append(found, e) /\ left'.news = more
  BY <1>4
<1>6. /\ more \in Seq(DfEvents) /\ Range(more) = (IF DfNew(x) THEN Range(news) \cup {e} ELSE Range(news))
  BY <1>1, <1>3, AppendRange, AppendIs
<1>7. Append(found, e) \in Seq(DfEvents) /\ Range(Append(found, e)) = Range(found) \cup {e}
  BY <1>1, <1>3, AppendRange, AppendIs
<1>8. DfTyped'
  BY <1>0 DEF DfTyped
<1>9. DfTold'
  BY <1>0 DEF DfTold, DfIsEnd, DfAt
<1>10. DfTicking'
  <2>1. DfRuns' = DfRuns /\ Range(Tail(ask)) \subseteq DfRuns
    BY <1>0, <1>1, <1>2 DEF DfRuns
  <2>2. ASSUME NEW f \in Range(more) PROVE DfIsEnd(f)' /\ f.at > remote["cursor"]
    <3>1. DfIsEnd(f) /\ f.at > remote["cursor"]
      BY <1>1, <1>3, <1>6
    <3> QED BY <1>0, <3>1 DEF DfIsEnd, DfAt
  <2>3. ASSUME NEW f \in Range(Append(found, e)), f.is \in DfEnded
        PROVE  f.at > 0 /\ (call.action # "unknown check" => f \in Range(more) \/ f.at <= remote["cursor"])
    BY <1>1, <1>3, <1>6, <1>7, <2>3
  <2> QED BY <1>0, <1>2, <1>5, <1>6, <1>7, <2>1, <2>2, <2>3 DEF DfTicking
<1>11. DfOrdered'
  <2> SUFFICES ASSUME missed = 0, ~call.newestFirst PROVE DfOrdered'
    BY <1>0 DEF DfOrdered
  <2>1. /\ \A i, j \in 1 .. Len(answer) : answer[i].of = answer[j].of => i = j
        /\ \A f \in Range(answer) : f.at <= remote["cursor"]
        /\ \A i, j \in 1 .. Len(ask) : i < j => DfPlace(ask[i]) < DfPlace(ask[j])
        /\ \A i, j \in 1 .. Len(news) : i < j => DfPlace(news[i].of) < DfPlace(news[j].of)
        /\ \A y \in Range(ask) : \A f \in Range(news) : DfPlace(f.of) < DfPlace(y)
    BY <1>0 DEF DfOrdered
  <2>2. \A i, j \in 1 .. Len(Tail(ask)) : i < j => DfPlace(Tail(ask)[i]) < DfPlace(Tail(ask)[j])
    <3> SUFFICES ASSUME NEW i \in 1 .. Len(Tail(ask)), NEW j \in 1 .. Len(Tail(ask)), i < j
                 PROVE  DfPlace(Tail(ask)[i]) < DfPlace(Tail(ask)[j])
      OBVIOUS
    <3>1. i + 1 \in 1 .. Len(ask) /\ j + 1 \in 1 .. Len(ask) /\ i + 1 < j + 1
      BY <1>2
    <3> QED BY <1>2, <2>1, <3>1
  <2>3. \A y \in Range(Tail(ask)) : DfPlace(x) < DfPlace(y)
    <3> SUFFICES ASSUME NEW j \in 1 .. Len(Tail(ask)) PROVE DfPlace(x) < DfPlace(Tail(ask)[j])
      <4>1. DOMAIN Tail(ask) = 1 .. Len(Tail(ask))
        BY <1>2, SeqMembers
      <4> QED BY <4>1 DEF Range
    <3>1. 1 \in 1 .. Len(ask) /\ j + 1 \in 1 .. Len(ask) /\ 1 < j + 1
      BY <1>2
    <3> QED BY <1>2, <2>1, <3>1
  <2>4. \A i, j \in 1 .. Len(more) : i < j => DfPlace(more[i].of) < DfPlace(more[j].of)
    <3>1. CASE ~DfNew(x)
      BY <2>1, <3>1
    <3>2. CASE DfNew(x)
      <4>1. more = Append(news, e)
        BY <3>2
      <4>2. Len(more) = Len(news) + 1 /\ Len(news) \in Nat /\ more[Len(news) + 1] = e
            /\ \A i \in 1 .. Len(news) : more[i] = news[i] /\ news[i] \in Range(news)
        <5>1. DOMAIN news = 1 .. Len(news)
          BY <1>1, SeqMembers
        <5>2. /\ Len(Append(news, e)) = Len(news) + 1 /\ Len(news) \in Nat /\ Append(news, e)[Len(news) + 1] = e
              /\ \A i \in 1 .. Len(news) : Append(news, e)[i] = news[i]
          <6>1. \A t \in Seq(DfEvents) : \A y \in DfEvents :
                  /\ Len(Append(t, y)) = Len(t) + 1 /\ Len(t) \in Nat /\ Append(t, y)[Len(t) + 1] = y
                  /\ \A i \in 1 .. Len(t) : Append(t, y)[i] = t[i]
            BY AppendIs
          <6> QED BY <1>1, <1>3, <6>1
        <5>3. \A i \in 1 .. Len(news) : news[i] \in Range(news)
          BY <5>1 DEF Range
        <5> QED BY <4>1, <5>2, <5>3
      <4>3. \A i \in 1 .. Len(news) : DfPlace(more[i].of) < DfPlace(e.of)
        BY <1>2, <1>3, <2>1, <4>2
      <4>4. SUFFICES ASSUME NEW i \in 1 .. Len(more), NEW j \in 1 .. Len(more), i < j
                     PROVE  DfPlace(more[i].of) < DfPlace(more[j].of)
        OBVIOUS
      <4>5. i \in 1 .. Len(news) /\ (j \in 1 .. Len(news) \/ j = Len(news) + 1)
        BY <4>2, <4>4
      <4> QED BY <2>1, <4>2, <4>3, <4>4, <4>5
    <3> QED BY <3>1, <3>2
  <2>5. \A y \in Range(Tail(ask)) : \A f \in Range(more) : DfPlace(f.of) < DfPlace(y)
    BY <1>2, <1>3, <1>6, <2>1, <2>3
  <2> QED BY <1>0, <1>5, <2>1, <2>2, <2>4, <2>5 DEF DfOrdered
<1> QED BY <1>0, <1>8, <1>9, <1>10, <1>11, DfWatchKept

(* A tick that is kept tells of its news and moves the cursor to the last.  *)
LEMMA DfLastNews ==
  ASSUME DfTyped, call.op = "watch", NEW news \in Seq(DfEvents), news # << >>,
         \A f \in Range(news) : DfIsEnd(f),
         \A i, j \in 1 .. Len(news) : i < j => DfPlace(news[i].of) < DfPlace(news[j].of)
  PROVE  Last(news) \in Range(news) /\ \A f \in Range(news) : f.at <= Last(news).at
<1> PICK n : n = Len(news)
  OBVIOUS
<1>1. n \in Nat \ {0} /\ DOMAIN news = 1 .. n /\ n \in 1 .. n /\ \A i \in 1 .. n : news[i] \in DfEvents
  BY SeqMembers
<1>2. Last(news) = news[n]
  BY DEF Last
<1>3. \A i \in 1 .. n : news[i] \in Range(news)
  BY <1>1 DEF Range
<1>4. ASSUME NEW i \in 1 .. n PROVE news[i].at <= news[n].at
  <2>1. i < n \/ i = n
    BY <1>1
  <2>2. news[i].of \in DfInvs /\ news[n].of \in DfInvs /\ news[i].at = DfAt(news[i].of) /\ news[n].at = DfAt(news[n].of)
    BY <1>1, <1>3 DEF DfEvents, DfIsEnd
  <2>3. DfPlace(news[i].of) \in Int /\ DfPlace(news[n].of) \in Int
    BY <2>2, DfConstants
  <2>4. DfPlace(news[i].of) <= DfPlace(news[n].of)
    BY <1>1, <2>1, <2>3
  <2> QED BY <2>2, <2>4, DfStarts
<1> QED BY <1>1, <1>2, <1>3, <1>4 DEF Range

(* What a tick that is kept does to the service, and to what has been told. *)
LEMMA DfKeeps ==
  ASSUME DfTyped, DfTold, DfTicking, call.op = "watch", at = "details", call' = call, DfKeep
  PROVE  /\ answer' = answer \o left.news /\ left' = left
         /\ answer' \in Seq(DfEvents) /\ Range(answer') = Range(answer) \cup Range(left.news)
         /\ \A x \in DfInvs : remote'[x] = remote[x]
         /\ DfTyped'
         /\ \A f \in Range(answer') : DfIsEnd(f)'
         /\ remote'["cursor"] \in Nat
         /\ left.news = << >> => remote'["cursor"] = remote["cursor"]
         /\ left.news # << >> => remote'["cursor"] = Last(left.news).at
<1> PICK news : news = left.news
  OBVIOUS
<1>1. answer \in Seq(DfEvents) /\ news \in Seq(DfEvents) /\ (\A f \in Range(answer) : DfIsEnd(f)) /\ \A f \in Range(news) : DfIsEnd(f)
  BY DEF DfTold, DfTicking
<1>2. answer' = answer \o news /\ left' = left /\ at' \in {"tick", "ended"}
  BY DEF DfKeep, DfNextTick
<1>3. answer' \in Seq(DfEvents) /\ Range(answer') = Range(answer) \cup Range(news)
  BY <1>1, <1>2, ConcatIs
<1>4. /\ DOMAIN remote' = DOMAIN remote /\ \A x \in DOMAIN remote : x # "cursor" => remote'[x] = remote[x]
      /\ (news = << >> => remote'["cursor"] = remote["cursor"])
      /\ (news # << >> => remote'["cursor"] = Last(news).at)
  <2>1. CASE news = << >>
    <3>1. remote' = remote
      BY <2>1 DEF DfKeep, service
    <3> QED BY <2>1, <3>1
  <2>2. CASE news # << >>
    <3>1. remote' = [remote EXCEPT !["cursor"] = Last(news).at]
      BY <2>2 DEF DfKeep, Set, Becomes
    <3>2. "cursor" \in DOMAIN remote
      BY DEF DfTyped
    <3> QED BY <2>2, <3>1, <3>2
  <2> QED BY <2>1, <2>2
<1>5. \A x \in DfInvs : remote'[x] = remote[x]
  BY <1>4, DfConstants DEF DfTyped
<1>6. remote'["compiled"] = remote["compiled"]
  BY <1>4 DEF DfTyped
<1>7. remote'["cursor"] \in Nat
  <2>1. CASE news = << >>
    BY <1>4, <2>1 DEF DfTyped
  <2>2. CASE news # << >>
    <3> PICK n : n = Len(news)
      OBVIOUS
    <3>1. n \in 1 .. n /\ \A i \in 1 .. n : news[i] \in DfEvents
      BY <1>1, <2>2, SeqMembers
    <3>2. Last(news) = news[n]
      BY DEF Last
    <3> QED BY <1>4, <2>2, <3>1, <3>2 DEF DfEvents
  <2> QED BY <2>1, <2>2
<1>8. DfTyped'
  BY <1>2, <1>4, <1>5, <1>6, <1>7 DEF DfTyped
<1>9. ASSUME NEW f \in Range(answer') PROVE DfIsEnd(f)'
  <2>1. DfIsEnd(f) /\ f \in DfEvents
    BY <1>1, <1>3, SeqMembers
  <2>2. f.of \in DfInvs
    BY <2>1 DEF DfEvents
  <2>3. remote'[f.of] = remote[f.of] /\ DfAt(f.of)' = DfAt(f.of)
    BY <1>5, <2>2 DEF DfAt
  <2> QED BY <2>1, <2>3 DEF DfIsEnd
<1> QED BY <1>2, <1>3, <1>4, <1>5, <1>7, <1>8, <1>9

(* With the cursor moved past what was found, nothing is reported twice.   *)
LEMMA DfOnce ==
  ASSUME DfTyped, DfTold, DfTicking, DfOrdered, call.op = "watch", at = "details", call' = call, DfKeep,
         missed = 0, ~call.newestFirst
  PROVE  /\ \A i, j \in 1 .. Len(answer') : answer'[i].of = answer'[j].of => i = j
         /\ \A f \in Range(answer') : f.at <= remote'["cursor"]
<1> PICK news, told2, n, m : news = left.news /\ told2 = answer \o news /\ n = Len(answer) /\ m = Len(news)
  OBVIOUS
<1>1. /\ answer \in Seq(DfEvents) /\ news \in Seq(DfEvents)
      /\ (\A f \in Range(answer) : DfIsEnd(f) /\ f.at <= remote["cursor"])
      /\ (\A f \in Range(news) : DfIsEnd(f) /\ f.at > remote["cursor"])
      /\ (\A i, j \in 1 .. n : answer[i].of = answer[j].of => i = j)
      /\ (\A i, j \in 1 .. m : i < j => DfPlace(news[i].of) < DfPlace(news[j].of))
  BY DEF DfTold, DfTicking, DfOrdered
<1>2. /\ answer' = told2
      /\ Len(told2) = n + m /\ n \in Nat /\ m \in Nat
      /\ \A i \in 1 .. n : told2[i] = answer[i]
      /\ \A i \in 1 .. m : told2[n + i] = news[i]
  BY <1>1, DfKeeps, ConcatIs
<1>3. /\ \A i \in 1 .. n : answer[i] \in Range(answer) /\ answer[i] \in DfEvents
      /\ \A i \in 1 .. m : news[i] \in Range(news) /\ news[i] \in DfEvents
  <2>1. DOMAIN answer = 1 .. n /\ DOMAIN news = 1 .. m
    BY <1>1
  <2> QED BY <1>1, <2>1, SeqMembers DEF Range
<1>4. remote["cursor"] \in Nat
  BY DEF DfTyped
<1>5. ASSUME NEW i \in 1 .. n, NEW j \in 1 .. m PROVE answer[i].of # news[j].of
  <2>1. answer[i].at = DfAt(answer[i].of) /\ news[j].at = DfAt(news[j].of)
    BY <1>1, <1>3 DEF DfIsEnd
  <2>2. answer[i].at <= remote["cursor"] /\ news[j].at > remote["cursor"] /\ answer[i].at \in Nat /\ news[j].at \in Nat
    BY <1>1, <1>3 DEF DfEvents
  <2> QED BY <1>4, <2>1, <2>2
<1>6. ASSUME NEW i \in 1 .. m, NEW j \in 1 .. m, news[i].of = news[j].of PROVE i = j
  <2>1. news[i].of \in DfInvs
    BY <1>3 DEF DfEvents
  <2>2. DfPlace(news[i].of) \in Int
    BY <2>1, DfConstants
  <2>3. ~(i < j) /\ ~(j < i)
    BY <1>1, <1>6, <2>2
  <2> QED BY <2>3
<1>7. ASSUME NEW i \in 1 .. (n + m), NEW j \in 1 .. (n + m), told2[i].of = told2[j].of PROVE i = j
  <2>1. \A k \in 1 .. (n + m) : k \in 1 .. n \/ (k - n \in 1 .. m /\ n + (k - n) = k)
    BY <1>2
  <2>2. CASE i \in 1 .. n /\ j \in 1 .. n
    BY <1>1, <1>2, <1>7, <2>2
  <2>3. CASE i \in 1 .. n /\ j \notin 1 .. n
    <3>1. told2[j] = news[j - n] /\ j - n \in 1 .. m
      BY <1>2, <2>1, <2>3
    <3> QED BY <1>2, <1>5, <1>7, <2>3, <3>1
  <2>4. CASE i \notin 1 .. n /\ j \in 1 .. n
    <3>1. told2[i] = news[i - n] /\ i - n \in 1 .. m
      BY <1>2, <2>1, <2>4
    <3>2. told2[j] = answer[j] /\ answer[j].of # news[i - n].of
      BY <1>2, <1>5, <2>4, <3>1
    <3> QED BY <1>7, <3>1, <3>2
  <2>5. CASE i \notin 1 .. n /\ j \notin 1 .. n
    <3>1. told2[i] = news[i - n] /\ told2[j] = news[j - n] /\ i - n \in 1 .. m /\ j - n \in 1 .. m
      BY <1>2, <2>1, <2>5
    <3>2. i - n = j - n
      BY <1>6, <1>7, <3>1
    <3> QED BY <1>2, <3>2
  <2> QED BY <2>2, <2>3, <2>4, <2>5
<1>8. ASSUME NEW f \in Range(answer') PROVE f.at <= remote'["cursor"]
  <2>1. /\ Range(answer') = Range(answer) \cup Range(news)
        /\ news = << >> => remote'["cursor"] = remote["cursor"]
        /\ news # << >> => remote'["cursor"] = Last(news).at
    BY <1>1, DfKeeps
  <2>2. CASE news = << >>
    BY <1>1, <2>1, <2>2, RangeNone
  <2>3. CASE news # << >>
    <3>1. Last(news) \in Range(news) /\ \A g \in Range(news) : g.at <= Last(news).at
      BY <1>1, <2>3, DfLastNews
    <3>2. remote["cursor"] < Last(news).at /\ Last(news).at \in Nat
      <4>1. Last(news) \in DfEvents
        BY <1>1, <3>1, SeqMembers
      <4> QED BY <1>1, <3>1, <4>1 DEF DfEvents
    <3>3. f \in Range(news) \/ (f \in Range(answer) /\ f.at <= remote["cursor"] /\ f.at \in Nat)
      <4>1. f \in Range(answer) => f \in DfEvents
        BY <1>1, SeqMembers
      <4> QED BY <1>1, <2>1, <4>1 DEF DfEvents
    <3> QED BY <1>4, <2>1, <2>3, <3>1, <3>2, <3>3
  <2> QED BY <2>2, <2>3
<1>9. answer' = told2 /\ 1 .. Len(told2) = 1 .. (n + m)
  BY <1>2
<1>10. \A i, j \in 1 .. Len(answer') : answer'[i].of = answer'[j].of => i = j
  BY <1>7, <1>9
<1> QED BY <1>8, <1>10

(* As many invocations as events when no two events are of one.            *)
LEMMA DfCounts ==
  ASSUME NEW s \in Seq(DfEvents), \A i, j \in 1 .. Len(s) : s[i].of = s[j].of => i = j
  PROVE  Cardinality({f.of : f \in Range(s)}) = Len(s)
<1> PICK n, S : n = Len(s) /\ S = {f.of : f \in Range(s)}
  OBVIOUS
<1>1. n \in Nat /\ DOMAIN s = 1 .. n
  OBVIOUS
<1>2. \A i \in 1 .. n : s[i].of \in S
  BY <1>1 DEF Range
<1>3. \A x \in S : \E i \in 1 .. n : s[i].of = x
  BY <1>1 DEF Range
<1> PICK b : b = [i \in 1 .. n |-> s[i].of]
  OBVIOUS
<1>4. b \in [1 .. n -> S] /\ (\A i, j \in 1 .. n : b[i] = b[j] => i = j) /\ \A x \in S : \E i \in 1 .. n : b[i] = x
  BY <1>2, <1>3
<1>5. b \in Injection(1 .. n, S)
  BY <1>4 DEF Injection, IsInjective
<1>6. b \in Surjection(1 .. n, S)
  <2>1. b \in [1 .. n -> S] /\ \A x \in S : \E i \in 1 .. n : b[i] = x
    BY <1>4
  <2> QED BY <2>1 DEF Surjection
<1>7. b \in Bijection(1 .. n, S)
  BY <1>5, <1>6 DEF Bijection
<1>8. ExistsBijection(1 .. n, S)
  BY <1>7 DEF ExistsBijection
<1> QED BY <1>1, <1>8, FS_CountingElements

(* A tick that ends keeps the invariant.                                   *)
LEMMA DfReports ==
  ASSUME Base, DfInv, Shape, DfKeep
  PROVE  DfInv'
<1>0. DfTyped /\ DfTold /\ DfOrdered /\ DfTicking /\ call' = call /\ missed' = missed /\ at = "details"
       /\ call.op = "watch" /\ at' # "details"
  BY DfWatchOnly DEF DfInv, Shape, DfKeep, DfNextTick, Df, NoTrouble, troubles
<1> PICK news, found : news = left.news /\ found = left.found
  OBVIOUS
<1>1. /\ answer \in Seq(DfEvents) /\ news \in Seq(DfEvents) /\ remote["cursor"] \in Nat
      /\ (\A f \in Range(found) : f.is \in DfEnded => f.at > 0) /\ found \in Seq(DfEvents)
      /\ (\A f \in Range(found) :
         (f.is \in DfEnded /\ call.action # "unknown check") => f \in Range(news) \/ f.at <= remote["cursor"])
      /\ (remote["cursor"] = 0 \/ \E f \in Range(answer) : f.at = remote["cursor"])
  BY <1>0 DEF DfTicking, DfTold, DfTyped
<1>2. /\ left'.found = found
      /\ answer' \in Seq(DfEvents) /\ Range(answer') = Range(answer) \cup Range(news)
      /\ DfTyped'
      /\ \A f \in Range(answer') : DfIsEnd(f)'
      /\ news = << >> => remote'["cursor"] = remote["cursor"]
      /\ news # << >> => remote'["cursor"] = Last(news).at
  BY <1>0, DfKeeps
<1>3. DfTold'
  <2>1. ASSUME news # << >> PROVE Last(news) \in Range(news)
    BY <1>1, <2>1, LastIs
  <2>2. remote'["cursor"] = 0 \/ \E f \in Range(answer') : f.at = remote'["cursor"]
    <3>1. CASE news = << >>
      BY <1>1, <1>2, <3>1
    <3>2. CASE news # << >>
      BY <1>2, <2>1, <3>2
    <3> QED BY <3>1, <3>2
  <2> QED BY <1>0, <1>2, <2>2 DEF DfTold
<1>4. (missed = 0 /\ ~call.newestFirst) =>
        /\ \A i, j \in 1 .. Len(answer') : answer'[i].of = answer'[j].of => i = j
        /\ \A f \in Range(answer') : f.at <= remote'["cursor"]
  BY <1>0, DfOnce
<1>5. DfOrdered' /\ DfTicking'
  BY <1>0, <1>4 DEF DfOrdered, DfTicking
<1>6. DfListing'
  <2>1. ASSUME call.action # "unknown check", NEW f \in Range(found), f.is \in DfEnded
        PROVE  f.of \in DfReported' \/ DfPassed(f)'
    <3>1. CASE f \in Range(news)
      BY <1>2, <3>1 DEF DfReported
    <3>2. CASE f.at <= remote["cursor"]
      <4>1. f \in DfEvents /\ f.at > 0
        BY <1>1, <2>1, SeqMembers
      <4>2. PICK g \in Range(answer) : g.at = remote["cursor"]
        <5>1. f.at \in Nat
          BY <4>1 DEF DfEvents
        <5>2. remote["cursor"] # 0
          <6>1. remote["cursor"] \in Nat
            BY <1>1
          <6>2. f.at > 0 /\ f.at <= remote["cursor"]
            BY <3>2, <4>1
          <6> QED BY <5>1, <6>1, <6>2
        <5> QED BY <1>1, <5>2
      <4>3. g \in Range(answer') /\ g.at >= f.at
        BY <1>1, <1>2, <3>2, <4>1, <4>2 DEF DfEvents
      <4>4. CASE g.of = f.of
        BY <4>3, <4>4 DEF DfReported
      <4>5. CASE g.of # f.of
        BY <4>3, <4>5 DEF DfPassed
      <4> QED BY <4>4, <4>5
    <3> QED BY <1>1, <2>1, <3>1, <3>2
  <2>2. ASSUME missed' = 0, ~call'.newestFirst PROVE Cardinality(DfReported') = Len(answer')
    <3> PICK a : a = answer'
      OBVIOUS
    <3>1. a \in Seq(DfEvents) /\ \A i, j \in 1 .. Len(a) : a[i].of = a[j].of => i = j
      BY <1>0, <1>2, <1>4, <2>2
    <3>2. Cardinality({f.of : f \in Range(a)}) = Len(a)
      BY <3>1, DfCounts
    <3>3. DfReported' = {f.of : f \in Range(a)}
      BY DEF DfReported
    <3> QED BY <3>2, <3>3
  <2> QED BY <1>0, <1>2, <2>1, <2>2 DEF DfListing, DfIsEnd
<1> QED BY <1>0, <1>2, <1>3, <1>5, <1>6, DfWatchKept

(* A tick that fails keeps the invariant.                                  *)
LEMMA DfFails ==
  ASSUME Base, DfInv, Shape, DfTickFails
  PROVE  DfInv'
<1>0. DfTyped /\ DfTold /\ DfTicking /\ call' = call /\ at \in {"tick", "details"}
       /\ call.op = "watch" /\ at' \in {"tick", "ended"} /\ remote' = remote /\ told' # "returned"
  BY DfWatchOnly DEF DfInv, Shape, DfTickFails, service, Base, Ending
<1>1. missed' # 0
  <2>1. missed \in Nat /\ missed' = missed + 1
    BY DEF DfTickFails, Miss, Base, Counted
  <2> QED BY <2>1
<1>2. DfTyped' /\ DfTicking' /\ DfOrdered'
  BY <1>0, <1>1 DEF DfTyped, DfTicking, DfOrdered
<1>3. answer' = answer \/ (at = "details" /\ answer' = answer \o left.news)
  BY DEF DfTickFails
<1>4. answer' \in Seq(DfEvents) /\ Range(answer) \subseteq Range(answer') /\ \A f \in Range(answer') : DfIsEnd(f)
  <2>1. CASE answer' = answer
    BY <1>0, <2>1 DEF DfTold
  <2>2. CASE at = "details" /\ answer' = answer \o left.news
    <3> PICK news : news = left.news
      OBVIOUS
    <3>1. answer \in Seq(DfEvents) /\ news \in Seq(DfEvents) /\ (\A f \in Range(answer) : DfIsEnd(f))
          /\ \A f \in Range(news) : DfIsEnd(f)
      BY <1>0, <2>2 DEF DfTold, DfTicking
    <3>2. answer \o news \in Seq(DfEvents) /\ Range(answer \o news) = Range(answer) \cup Range(news)
      BY <3>1, ConcatIs
    <3> QED BY <2>2, <3>1, <3>2
  <2> QED BY <1>3, <2>1, <2>2
<1>5. \A f \in Range(answer') : DfIsEnd(f)'
  BY <1>0, <1>4 DEF DfIsEnd, DfAt
<1>6. DfTold'
  BY <1>0, <1>4, <1>5 DEF DfTold
<1> QED BY <1>0, <1>2, <1>6, DfWatchKept

(* Every step of a Dataform call keeps its invariant.                      *)
LEMMA DfStep ==
  ASSUME Base, DfInv, DfAct
  PROVE  DfInv'
<1>1. Shape /\ call.client = "dataform"
  BY DfShape
<1>2. call.op \in {"load", "run", "watch"} /\ DfTyped
  BY DfAssumption DEF DfInv, DfTyped
<1>3. CASE DfCompile
  <2>1. call.op # "watch"
    BY <1>2, <1>3 DEF DfTyped, DfCompile, Df
  <2> QED BY <1>1, <1>2, <1>3, <2>1, DfLoadSteps, DfRunSteps
<1>4. CASE DfQuery
  <2>1. call.op = "load"
    BY <1>2, <1>4 DEF DfTyped, DfQuery, Df
  <2> QED BY <1>1, <1>4, <2>1, DfLoadSteps
<1>5. CASE DfInvoke \/ DfPoll \/ DfTimer
  <2>1. call.op = "run"
    BY <1>2, <1>5 DEF DfTyped, DfInvoke, DfPoll, DfTimer, Df
  <2> QED BY <1>1, <1>5, <2>1, DfRunSteps
<1>6. CASE DfOthers
  BY <1>1, <1>6, DfLoadSteps DEF DfOthers
<1> QED BY <1>1, <1>3, <1>4, <1>5, <1>6, DfTicks1, DfAsks, DfReports, DfFails, DfProgresses DEF DfAct, DfNext

(* What the invariant says of a Dataform call that has ended.              *)
LEMMA DfMeans ==
  ASSUME DfInv, told = "returned"
  PROVE  DfDone /\ DfListing
BY DEF DfInv

------------------------------------------------------------------------------
(***************************************************************************)
(* Steps that change nothing.                                              *)
(***************************************************************************)
(* The invariant of a Hex run speaks of the variables alone.               *)
LEMMA HexStill ==
  ASSUME UNCHANGED remoteVars, HexInv
  PROVE  HexInv'
<1>1. /\ call' = call /\ at' = at /\ left' = left /\ tries' = tries /\ answer' = answer /\ told' = told
      /\ remote' = remote /\ steady' = steady /\ faults' = faults /\ missed' = missed
  BY DEF remoteVars, service, troubles
<1>2. HexStarted' = HexStarted
  BY <1>1 DEF HexStarted
<1>3. HexCount' <=> HexCount
  BY <1>1, <1>2 DEF HexCount, HexStarting, HexFollowing
<1>4. HexRun' = HexRun
  BY <1>1 DEF HexRun
<1>5. HexKept' <=> HexKept
  BY <1>1, <1>4 DEF HexKept
<1>6. HexOnly' <=> HexOnly
  BY <1>1, <1>2, <1>4 DEF HexOnly, HexStarting, HexFollowing
<1>7. HexTyped' <=> HexTyped
  BY <1>1, <1>2, <1>4 DEF HexTyped, HexStarting, HexFollowing
<1> QED BY <1>1, <1>3, <1>5, <1>6, <1>7 DEF HexInv

(* The invariant of a Cloud Run launch speaks of the variables alone.      *)
LEMMA CrStill ==
  ASSUME UNCHANGED remoteVars, CrInv
  PROVE  CrInv'
<1>1. /\ call' = call /\ at' = at /\ left' = left /\ tries' = tries /\ answer' = answer /\ told' = told
      /\ remote' = remote /\ steady' = steady /\ faults' = faults /\ missed' = missed
  BY DEF remoteVars, service, troubles
<1>2. CrStarted' = CrStarted
  BY <1>1 DEF CrStarted
<1>3. CrOne' <=> CrOne
  BY <1>1, <1>2 DEF CrOne
<1>4. CrRunning' = CrRunning
  BY <1>1 DEF CrRunning
<1>5. CrOver' <=> CrOver
  BY <1>1, <1>4 DEF CrOver
<1>6. CrTagged' <=> CrTagged
  BY <1>1, <1>2 DEF CrTagged
<1>7. CrTyped' <=> CrTyped
  BY <1>1 DEF CrTyped
<1> QED BY <1>1, <1>3, <1>5, <1>6, <1>7 DEF CrInv

(* The invariant of a compute cluster call speaks of the variables alone.  *)
LEMMA CcStill ==
  ASSUME UNCHANGED remoteVars, CcInv
  PROVE  CcInv'
<1>1. /\ call' = call /\ at' = at /\ left' = left /\ tries' = tries /\ answer' = answer /\ told' = told
      /\ remote' = remote /\ steady' = steady /\ faults' = faults /\ missed' = missed
  BY DEF remoteVars, service, troubles
<1>2. CcGoal' = CcGoal
  BY <1>1 DEF CcGoal
<1>3. CcSteady' = CcSteady
  BY <1>1 DEF CcSteady
<1>4. CcDone' <=> CcDone
  BY <1>1, <1>2, <1>3 DEF CcDone
<1>5. CcDropped' <=> CcDropped
  BY <1>1, <1>3 DEF CcDropped
<1>6. CcTyped' <=> CcTyped
  BY <1>1 DEF CcTyped
<1> QED BY <1>1, <1>4, <1>5, <1>6 DEF CcInv

(* The invariant of a Teradata call speaks of the variables alone.         *)
LEMMA TdStill ==
  ASSUME UNCHANGED remoteVars, TdInv
  PROVE  TdInv'
<1>1. /\ call' = call /\ at' = at /\ left' = left /\ tries' = tries /\ answer' = answer /\ told' = told
      /\ remote' = remote /\ steady' = steady /\ faults' = faults /\ missed' = missed
  BY DEF remoteVars, service, troubles
<1>2. TdDone' <=> TdDone
  BY <1>1 DEF TdDone, TdRun
<1>3. \A x : TdHandled(x)' <=> TdHandled(x)
  BY <1>1 DEF TdHandled
<1>4. TdLeft' <=> TdLeft
  BY <1>1, <1>3 DEF TdLeft
<1>5. TdTyped' <=> TdTyped
  BY <1>1 DEF TdTyped
<1> QED BY <1>1, <1>2, <1>4, <1>5 DEF TdInv

(* The invariant of a Salesforce call speaks of the variables alone.       *)
LEMMA SfStill ==
  ASSUME UNCHANGED remoteVars, SfInv
  PROVE  SfInv'
<1>1. /\ call' = call /\ at' = at /\ left' = left /\ tries' = tries /\ answer' = answer /\ told' = told
      /\ remote' = remote /\ steady' = steady /\ faults' = faults /\ missed' = missed
  BY DEF remoteVars, service, troubles
<1>2. SfChanged' = SfChanged
  BY <1>1 DEF SfChanged
<1>3. SfDone' <=> SfDone
  BY <1>1, <1>2 DEF SfDone
<1>4. SfPaged' <=> SfPaged
  BY <1>1 DEF SfPaged
<1>5. SfPlaces' <=> SfPlaces
  BY <1>1 DEF SfPlaces
<1>6. SfToTell' = SfToTell
  BY <1>1 DEF SfToTell
<1>7. SfAllTold' <=> SfAllTold
  BY <1>1, <1>6 DEF SfAllTold
<1>8. SfToldOnce' <=> SfToldOnce
  BY <1>1, <1>6 DEF SfToldOnce
<1>9. SfTold' <=> SfTold
  BY <1>1, <1>7, <1>8 DEF SfTold
<1>10. SfTyped' <=> SfTyped
  BY <1>1 DEF SfTyped
<1> QED BY <1>1, <1>3, <1>4, <1>5, <1>9, <1>10 DEF SfInv

(* The invariant of a SFTP call speaks of the variables alone.             *)
LEMMA SftpStill ==
  ASSUME UNCHANGED remoteVars, SftpInv
  PROVE  SftpInv'
<1>1. /\ call' = call /\ at' = at /\ left' = left /\ tries' = tries /\ answer' = answer /\ told' = told
      /\ remote' = remote /\ steady' = steady /\ faults' = faults /\ missed' = missed
  BY DEF remoteVars, service, troubles
<1>2. SftpWas' = SftpWas
  BY <1>1 DEF SftpWas
<1>3. SftpWork' <=> SftpWork
  BY <1>1 DEF SftpWork
<1>4. SftpLeft' <=> SftpLeft
  BY <1>1, <1>2, <1>3 DEF SftpLeft
<1>5. \A state : SftpStays(state)' = SftpStays(state)
  BY <1>1 DEF SftpStays
<1>6. Up' <=> Up
  BY <1>1 DEF Up
<1>7. SftpMatched' <=> SftpMatched
  BY <1>1, <1>5, <1>6 DEF SftpMatched
<1>8. SftpOnce' <=> SftpOnce
  BY <1>1, <1>5 DEF SftpOnce
<1>9. SftpTyped' <=> SftpTyped
  BY <1>1 DEF SftpTyped
<1> QED BY <1>1, <1>4, <1>7, <1>8, <1>9 DEF SftpInv

(* The invariant of a Elasticsearch call speaks of the variables alone.    *)
LEMMA EsStill ==
  ASSUME UNCHANGED remoteVars, EsInv
  PROVE  EsInv'
<1>1. /\ call' = call /\ at' = at /\ left' = left /\ tries' = tries /\ answer' = answer /\ told' = told
      /\ remote' = remote /\ steady' = steady /\ faults' = faults /\ missed' = missed
  BY DEF remoteVars, service, troubles
<1>2. EsAlone' <=> EsAlone
  BY <1>1 DEF EsAlone
<1>3. EsTarget' = EsTarget
  BY <1>1 DEF EsTarget
<1>4. \A x : EsThere(x)' <=> EsThere(x)
  BY <1>1 DEF EsThere
<1>5. EsUnreaped' <=> EsUnreaped
  BY <1>1 DEF EsUnreaped
<1>6. EsDone' <=> EsDone
  BY <1>1, <1>2, <1>3, <1>4, <1>5 DEF EsDone
<1>7. EsAgain' <=> EsAgain
  BY <1>1, <1>3 DEF EsAgain
<1>8. EsEmpty' <=> EsEmpty
  BY <1>1, <1>2, <1>7 DEF EsEmpty
<1>9. EsNames' = EsNames
  BY <1>1, <1>3, <1>4 DEF EsNames
<1>10. EsStaying' = EsStaying
  BY <1>1, <1>9 DEF EsStaying
<1>11. EsFew' <=> EsFew
  BY <1>1, <1>2, <1>10 DEF EsFew
<1>12. EsListing' <=> EsListing
  BY <1>1, <1>3 DEF EsListing
<1>13. EsMoved' <=> EsMoved
  BY <1>1, <1>2, <1>3 DEF EsMoved
<1>14. EsPlaces' <=> EsPlaces
  BY <1>1, <1>2, <1>3, <1>7 DEF EsPlaces
<1>15. EsSound' <=> EsSound
  BY <1>1, <1>5 DEF EsSound
<1>16. EsKnown' = EsKnown
  BY <1>1, <1>4 DEF EsKnown
<1>17. EsTyped' <=> EsTyped
  BY <1>1, <1>16 DEF EsTyped
<1>18. EsWritten' <=> EsWritten
  BY <1>1, <1>3, <1>5 DEF EsWritten
<1> QED BY <1>1, <1>6, <1>8, <1>11, <1>12, <1>13, <1>14, <1>15, <1>17, <1>18 DEF EsInv

(* The invariant of a Dataform call speaks of the variables alone.         *)
LEMMA DfStill ==
  ASSUME UNCHANGED remoteVars, DfInv
  PROVE  DfInv'
<1>1. /\ call' = call /\ at' = at /\ left' = left /\ tries' = tries /\ answer' = answer /\ told' = told
      /\ remote' = remote /\ steady' = steady /\ faults' = faults /\ missed' = missed
  BY DEF remoteVars, service, troubles
<1>2. DfDone' <=> DfDone
  BY <1>1 DEF DfDone
<1>3. \A f : DfPassed(f)' <=> DfPassed(f)
  BY <1>1 DEF DfPassed
<1>4. DfReported' = DfReported
  BY <1>1 DEF DfReported
<1>5. DfListing' <=> DfListing
  BY <1>1, <1>3, <1>4 DEF DfListing
<1>6. DfOurs' = DfOurs
  BY <1>1 DEF DfOurs
<1>7. DfLoads' <=> DfLoads
  BY <1>1, <1>6 DEF DfLoads
<1>8. DfOrdered' <=> DfOrdered
  BY <1>1 DEF DfOrdered
<1>9. DfEvents' = DfEvents
  BY <1>1 DEF DfEvents
<1>10. \A x : DfAt(x)' = DfAt(x)
  BY <1>1 DEF DfAt
<1>11. \A f : DfIsEnd(f)' <=> DfIsEnd(f)
  BY <1>1, <1>10 DEF DfIsEnd
<1>12. DfRuns' = DfRuns
  BY <1>1 DEF DfRuns
<1>13. DfTicking' <=> DfTicking
  BY <1>1, <1>9, <1>11, <1>12 DEF DfTicking
<1>14. DfTold' <=> DfTold
  BY <1>1, <1>9, <1>11 DEF DfTold
<1>15. DfTyped' <=> DfTyped
  BY <1>1 DEF DfTyped
<1> QED BY <1>1, <1>2, <1>5, <1>7, <1>8, <1>13, <1>14, <1>15 DEF DfInv

(* The invariant of a SharePoint call speaks of the variables alone.       *)
LEMMA SpStill ==
  ASSUME UNCHANGED remoteVars, SpInv
  PROVE  SpInv'
<1>1. /\ call' = call /\ at' = at /\ left' = left /\ tries' = tries /\ answer' = answer /\ told' = told
      /\ remote' = remote /\ steady' = steady /\ faults' = faults /\ missed' = missed
  BY DEF remoteVars, service, troubles
<1>2. SpPre' <=> SpPre
  BY <1>1 DEF SpPre
<1>3. SpSpare' = SpSpare
  BY <1>1 DEF SpSpare
<1>4. SpCreates' <=> SpCreates
  BY <1>1, <1>2, <1>3 DEF SpCreates
<1>5. SpSame' = SpSame
  BY <1>1 DEF SpSame
<1>6. SpDeletes' <=> SpDeletes
  BY <1>1, <1>2, <1>5 DEF SpDeletes
<1>7. SpEndsEmpty' <=> SpEndsEmpty
  BY <1>1 DEF SpEndsEmpty
<1>8. SpMoves' <=> SpMoves
  BY <1>1, <1>2, <1>5 DEF SpMoves
<1>9. SpRenames' <=> SpRenames
  BY <1>1, <1>2, <1>5 DEF SpRenames
<1>10. SpSparesKept' <=> SpSparesKept
  BY <1>1, <1>3 DEF SpSparesKept
<1>11. \A r : SpAllowed(r)' <=> SpAllowed(r)
  BY <1>1 DEF SpAllowed
<1>12. \A x : SpKept(x)' <=> SpKept(x)
  BY <1>1 DEF SpKept
<1>13. SpTyped' <=> SpTyped
  BY <1>1, <1>11, <1>12 DEF SpTyped
<1>14. \A path : Chains(path)' = Chains(path)
  BY <1>1 DEF Chains
<1>15. \A path : Resolved(path)' = Resolved(path)
  BY <1>1, <1>14 DEF Resolved
<1>16. SpUploads' <=> SpUploads
  BY <1>1, <1>2, <1>5, <1>15 DEF SpUploads
<1> QED BY <1>1, <1>4, <1>6, <1>7, <1>8, <1>9, <1>10, <1>13, <1>16 DEF SpInv

------------------------------------------------------------------------------
(***************************************************************************)
(* All clients: one invariant, and what it means for a call that has       *)
(* ended.                                                                  *)
(***************************************************************************)
(* Each step is one of the client the call is of.                          *)
LEMMA OfClients ==
  /\ HexAct => call.client = "hex"
  /\ CrAct => call.client = "cloud run"
  /\ CcAct => call.client = "compute cluster"
  /\ TdAct => call.client = "teradata"
  /\ SfAct => call.client = "salesforce"
  /\ SftpAct => call.client = "sftp"
  /\ EsAct => call.client = "elasticsearch"
  /\ DfAct => call.client = "dataform"
  /\ SpAct => call.client = "sharepoint"

<1>1. HexAct => call.client = "hex"
  BY DEF HexAct, HexNext, HexTimer, HexProgress, HexBoth, HexSuccess, HexRefused, HexDenied, HexRetry, HexGarbled, HexNotJson, HexTurn, HexAsking
<1>2. CrAct => call.client = "cloud run"
  BY DEF CrAct, CrNext, CrBeside, CrJob, CrEnvironment, CrExecute, CrTag, CrTerminate, CrCancel, CrCanceled, CrMonitor, CrWorker, CrStop, Cr
<1>3. CcAct => call.client = "compute cluster"
  BY DEF CcAct, CcNext, CcTimer, CcProgress, CcOthers, CcVerify, CcGroup, CcProfile, CcDrop, CcResume, CcSuspend, CcPoll, Cc, CcAlter, CcMind
<1>4. TdAct => call.client = "teradata"
  BY DEF TdAct, TdNext, TdOthers, TdConnect, TdQueryBand, TdQuery, TdQueries, TdLoad, TdDropDatabase, TdDropTable, TdTimestamps, TdReturn, Td, TdDrop
<1>5. SfAct => call.client = "salesforce"
  BY DEF SfAct, SfNext, SfTimer, SfJob, SfSessionEnds, SfConnect, SfCheck, SfDescribe, SfCreateJob, SfWait, SfDownload, SfUpsert, SfResults, SfCreate, SfUpdate, SfDelete, Sf, SfRequest
<1>6. SftpAct => call.client = "sftp"
  BY DEF SftpAct, SftpNext, SftpOthers, SftpConnect, SftpTest, SftpRefuse, SftpDrop, SftpGlob, SftpStat, SftpListed, SftpGet, SftpPut, SftpTransferred, SftpDelete, SftpMkdir, SftpRmtree, SftpRename, SftpExists, SftpIsDir, SftpIsFile, SftpInfo, Sftp
<1>7. EsAct => call.client = "elasticsearch"
  BY DEF EsAct, EsNext, EsOthers, EsRollover, EsCreate, EsBulk, EsRefresh, EsFormer, EsSwap, EsListOld, EsDelete, EsLook, EsScan, EsPages, Es
<1>8. DfAct => call.client = "dataform"
  BY DEF DfAct, DfNext, DfTimer, DfProgress, DfOthers, DfCompile, DfQuery, DfInvoke, DfPoll, DfTick, DfDetails, DfKeep, DfTickFails, Df
<1>9. SpAct => call.client = "sharepoint"
  BY DEF SpAct, SpNext, SpOthers, FetchToken, Success, Refused, TooMany, ServerError, Broken, EachFolder, SpReturn, Sending, CanSend
<1> QED BY <1>1, <1>2, <1>3, <1>4, <1>5, <1>6, <1>7, <1>8, <1>9

RemoteInv ==
  /\ Base
  /\ call.client \in {"hex", "cloud run", "compute cluster", "teradata", "salesforce", "sftp", "elasticsearch", "dataform", "sharepoint"}
  /\ call.client = "hex" => HexInv
  /\ call.client = "cloud run" => CrInv
  /\ call.client = "compute cluster" => CcInv
  /\ call.client = "teradata" => TdInv
  /\ call.client = "salesforce" => SfInv
  /\ call.client = "sftp" => SftpInv
  /\ call.client = "elasticsearch" => EsInv
  /\ call.client = "dataform" => DfInv
  /\ call.client = "sharepoint" => SpInv
  /\ call.client = "sharepoint" => SpLists /\ SpSearches

(* Every call begins with the invariant of its client.                     *)
LEMMA RemoteInitial ==
  ASSUME RemoteInit
  PROVE  RemoteInv
<1>1. CASE HexBegin
  BY <1>1, HexInitial DEF RemoteInv
<1>2. CASE CrBegin
  BY <1>2, CrInitial DEF RemoteInv
<1>3. CASE CcBegin
  BY <1>3, CcInitial DEF RemoteInv
<1>4. CASE TdBegin
  BY <1>4, TdInitial DEF RemoteInv
<1>5. CASE SfBegin
  BY <1>5, SfInitial DEF RemoteInv
<1>6. CASE SftpBegin
  BY <1>6, SftpInitial DEF RemoteInv
<1>7. CASE EsBegin
  BY <1>7, EsInitial DEF RemoteInv
<1>8. CASE DfBegin
  BY <1>8, DfInitial DEF RemoteInv
<1>9. CASE SpBegin
  BY <1>9, SpInitial, SpListsInitial DEF RemoteInv, SpInv, SpTyped
<1> QED BY <1>1, <1>2, <1>3, <1>4, <1>5, <1>6, <1>7, <1>8, <1>9 DEF RemoteInit

(* The steps, by client.                                                   *)
LEMMA RemoteActs ==
  ASSUME RemoteNext, ~Ended
  PROVE  HexAct \/ CrAct \/ CcAct \/ TdAct \/ SfAct \/ SftpAct \/ EsAct \/ DfAct \/ SpAct
BY DEF RemoteNext, Step, Clock, Service, Elsewhere, HexAct, CrAct, CcAct, TdAct, SfAct, SftpAct, EsAct, DfAct, SpAct

(* Nor do the listings depend on anything else.                            *)
LEMMA SpListsStill ==
  ASSUME UNCHANGED remoteVars, Base, SpTyped, SpLists, SpSearches
  PROVE  SpLists' /\ SpSearches'
<1>1. /\ call' = call /\ at' = at /\ left' = left /\ tries' = tries /\ answer' = answer /\ told' = told
      /\ remote' = remote /\ steady' = steady /\ faults' = faults /\ missed' = missed
  BY DEF remoteVars, service, troubles
<1>2. Shape
  <2>1. Facts(remote') = Facts(remote)
    BY <1>1
  <2> QED BY <1>1, <2>1 DEF Shape, Base, Known
<1>3. PICK t, f, a : t = left.todo /\ f = left.folders /\ a = answer
  OBVIOUS
<1>4. t \in Seq(SpReqs)
  BY <1>3 DEF SpTyped
<1>5. SpLists'
  <2>1. SUFFICES ASSUME SpListOp PROVE SpLists'
    BY <1>1 DEF SpLists, SpListOp
  <2>2. SpParents /\ SpListsIn(t, f, a)
    BY <1>3, <2>1 DEF SpLists, SpListOp
  <2>3. SpParents' /\ SpListsIn(t, f, a)'
    BY <1>2, <1>4, <2>2, SpParentsOn, SpListsOn
  <2> QED BY <1>1, <1>3, <2>1, <2>3 DEF SpLists, SpListOp
<1>6. SpSearches'
  <2>1. SUFFICES ASSUME call.op = "search_files" PROVE SpSearches'
    BY <1>1 DEF SpSearches
  <2>2. SpSearchIn(t, a)
    BY <1>3, <2>1 DEF SpSearches
  <2>3. SpSearchIn(t, a)'
    BY <1>2, <2>2, SpSearchOn
  <2> QED BY <1>1, <1>3, <2>1, <2>3 DEF SpSearches
<1> QED BY <1>5, <1>6

(* The invariant speaks of the variables alone.                            *)
LEMMA RemoteStill ==
  ASSUME RemoteInv, UNCHANGED remoteVars
  PROVE  RemoteInv'
<1>1. Base'
  BY DEF RemoteInv, Base, Known, Ending, Counted, Facts, remoteVars, service, troubles
<1>2. call' = call
  BY DEF remoteVars
<1>3. call.client = "hex" => HexInv'
  BY HexStill DEF RemoteInv
<1>4. call.client = "cloud run" => CrInv'
  BY CrStill DEF RemoteInv
<1>5. call.client = "compute cluster" => CcInv'
  BY CcStill DEF RemoteInv
<1>6. call.client = "teradata" => TdInv'
  BY TdStill DEF RemoteInv
<1>7. call.client = "salesforce" => SfInv'
  BY SfStill DEF RemoteInv
<1>8. call.client = "sftp" => SftpInv'
  BY SftpStill DEF RemoteInv
<1>9. call.client = "elasticsearch" => EsInv'
  BY EsStill DEF RemoteInv
<1>10. call.client = "dataform" => DfInv'
  BY DfStill DEF RemoteInv
<1>11. call.client = "sharepoint" => SpInv'
  BY SpStill DEF RemoteInv
<1>12. call.client = "sharepoint" => SpLists' /\ SpSearches'
  BY SpListsStill DEF RemoteInv, SpInv
<1> QED BY <1>1, <1>2, <1>3, <1>4, <1>5, <1>6, <1>7, <1>8, <1>9, <1>10, <1>11, <1>12 DEF RemoteInv

(* Every step keeps the invariant.                                         *)
LEMMA RemoteSteps ==
  ASSUME RemoteInv, RemoteNext
  PROVE  RemoteInv'
<1>1. CASE HexAct
  <2>1. call.client = "hex"
    BY <1>1, OfClients
  <2>2. Base /\ HexInv
    BY <2>1 DEF RemoteInv
  <2>3. Shape /\ HexInv'
    BY <1>1, <2>2, HexShape, HexStep
  <2>4. Base' /\ call' = call
    BY <2>2, <2>3, ShapeBase DEF Shape
  <2> QED BY <2>1, <2>3, <2>4 DEF RemoteInv
<1>2. CASE CrAct
  <2>1. call.client = "cloud run"
    BY <1>2, OfClients
  <2>2. Base /\ CrInv
    BY <2>1 DEF RemoteInv
  <2>3. Shape /\ CrInv'
    BY <1>2, <2>2, CrShape, CrStep
  <2>4. Base' /\ call' = call
    BY <2>2, <2>3, ShapeBase DEF Shape
  <2> QED BY <2>1, <2>3, <2>4 DEF RemoteInv
<1>3. CASE CcAct
  <2>1. call.client = "compute cluster"
    BY <1>3, OfClients
  <2>2. Base /\ CcInv
    BY <2>1 DEF RemoteInv
  <2>3. Shape /\ CcInv'
    BY <1>3, <2>2, CcShape, CcStep
  <2>4. Base' /\ call' = call
    BY <2>2, <2>3, ShapeBase DEF Shape
  <2> QED BY <2>1, <2>3, <2>4 DEF RemoteInv
<1>4. CASE TdAct
  <2>1. call.client = "teradata"
    BY <1>4, OfClients
  <2>2. Base /\ TdInv
    BY <2>1 DEF RemoteInv
  <2>3. Shape /\ TdInv'
    BY <1>4, <2>2, TdShape, TdStep
  <2>4. Base' /\ call' = call
    BY <2>2, <2>3, ShapeBase DEF Shape
  <2> QED BY <2>1, <2>3, <2>4 DEF RemoteInv
<1>5. CASE SfAct
  <2>1. call.client = "salesforce"
    BY <1>5, OfClients
  <2>2. Base /\ SfInv
    BY <2>1 DEF RemoteInv
  <2>3. Shape /\ SfInv'
    BY <1>5, <2>2, SfShape, SfStep
  <2>4. Base' /\ call' = call
    BY <2>2, <2>3, ShapeBase DEF Shape
  <2> QED BY <2>1, <2>3, <2>4 DEF RemoteInv
<1>6. CASE SftpAct
  <2>1. call.client = "sftp"
    BY <1>6, OfClients
  <2>2. Base /\ SftpInv
    BY <2>1 DEF RemoteInv
  <2>3. Shape /\ SftpInv'
    BY <1>6, <2>2, SftpShape, SftpStep
  <2>4. Base' /\ call' = call
    BY <2>2, <2>3, ShapeBase DEF Shape
  <2> QED BY <2>1, <2>3, <2>4 DEF RemoteInv
<1>7. CASE EsAct
  <2>1. call.client = "elasticsearch"
    BY <1>7, OfClients
  <2>2. Base /\ EsInv
    BY <2>1 DEF RemoteInv
  <2>3. Shape /\ EsInv'
    BY <1>7, <2>2, EsShape, EsStep
  <2>4. Base' /\ call' = call
    BY <2>2, <2>3, ShapeBase DEF Shape
  <2> QED BY <2>1, <2>3, <2>4 DEF RemoteInv
<1>8. CASE DfAct
  <2>1. call.client = "dataform"
    BY <1>8, OfClients
  <2>2. Base /\ DfInv
    BY <2>1 DEF RemoteInv
  <2>3. Shape /\ DfInv'
    BY <1>8, <2>2, DfShape, DfStep
  <2>4. Base' /\ call' = call
    BY <2>2, <2>3, ShapeBase DEF Shape
  <2> QED BY <2>1, <2>3, <2>4 DEF RemoteInv
<1>9. CASE SpAct
  <2>1. call.client = "sharepoint"
    BY <1>9, OfClients
  <2>2. Base /\ SpInv /\ SpLists /\ SpSearches
    BY <2>1 DEF RemoteInv
  <2>3. Shape /\ SpInv' /\ SpLists' /\ SpSearches'
    BY <1>9, <2>2, SpShape, SpStep, SpListsStep, SpSearchesStep DEF SpInv
  <2>4. Base' /\ call' = call
    BY <2>2, <2>3, ShapeBase DEF Shape
  <2> QED BY <2>1, <2>3, <2>4 DEF RemoteInv
<1>10. CASE Ended
  BY <1>10, RemoteStill DEF Ended
<1> QED BY <1>1, <1>2, <1>3, <1>4, <1>5, <1>6, <1>7, <1>8, <1>9, <1>10, RemoteActs

(* The invariants of the nine clients, each of its own calls, hold of      *)
(* every behaviour.                                                        *)
THEOREM RemoteInvariant ==
  RemoteSpec => []RemoteInv
<1>1. RemoteInit => RemoteInv
  BY RemoteInitial
<1>2. RemoteInv /\ [RemoteNext]_remoteVars => RemoteInv'
  BY RemoteSteps, RemoteStill
<1> QED BY <1>1, <1>2, PTL DEF RemoteSpec

(* The invariant implies ReturnMeansDone.                                  *)
LEMMA DoneMeans ==
  ASSUME RemoteInv
  PROVE  ReturnMeansDone
<1> SUFFICES ASSUME told = "returned" PROVE ReturnMeansDone
  BY DEF ReturnMeansDone
<1>1. call.client = "hex" => HexDone
  BY HexMeans DEF RemoteInv
<1>2. call.client = "cloud run" => CrDone
  BY CrMeans DEF RemoteInv
<1>3. call.client = "compute cluster" => CcDone
  BY DEF RemoteInv, CcInv
<1>4. call.client = "teradata" => TdDone
  BY DEF RemoteInv, TdInv
<1>5. call.client = "salesforce" => SfDone
  BY SfMeans DEF RemoteInv
<1>6. call.client = "sftp" => SftpDone
  BY SftpMeans DEF RemoteInv
<1>7. call.client = "elasticsearch" => EsDone
  BY EsMeans DEF RemoteInv
<1>8. call.client = "dataform" => DfDone
  BY DfMeans DEF RemoteInv
<1>9. call.client = "sharepoint" => SpDone
  BY SpMeans DEF RemoteInv
<1> QED BY <1>1, <1>2, <1>3, <1>4, <1>5, <1>6, <1>7, <1>8, <1>9 DEF ReturnMeansDone, RemoteInv

(* The invariant implies ListingComplete.                                  *)
LEMMA ListingMeans ==
  ASSUME RemoteInv
  PROVE  ListingComplete
<1> SUFFICES ASSUME told = "returned" PROVE ListingComplete
  BY DEF ListingComplete
<1>1. call.client = "salesforce" => SfListing
  BY SfMeans DEF RemoteInv
<1>2. call.client = "sftp" => SftpListing
  BY SftpMeans DEF RemoteInv
<1>3. call.client = "elasticsearch" => EsListing
  BY EsMeans DEF RemoteInv
<1>4. call.client = "dataform" => DfListing
  BY DfMeans DEF RemoteInv
<1>5. call.client = "sharepoint" => SpListing
  BY SpListingMeans DEF RemoteInv, SpInv
<1> QED BY <1>1, <1>2, <1>3, <1>4, <1>5 DEF ListingComplete

(* A listing that returns has everything that stayed in its place while it *)
(* was made, once, and nothing that was never there, in however many pages *)
(* and folders and however often others changed what was listed.           *)
THEOREM RemoteListings ==
  RemoteSpec => []ListingComplete
BY RemoteInvariant, ListingMeans, PTL

(* A call that returns has done what it was called for, whichever of the   *)
(* nine clients made it and however often it retried.                      *)
THEOREM RemoteReturns ==
  RemoteSpec => []ReturnMeansDone
BY RemoteInvariant, DoneMeans, PTL

(* The invariant implies NoStrays.                                         *)
LEMMA StraysMeans ==
  ASSUME RemoteInv
  PROVE  NoStrays
<1> SUFFICES ASSUME told # "none" PROVE NoStrays
  BY DEF NoStrays
<1>1. call.client = "hex" => HexNoStrays
  BY HexMeans DEF RemoteInv
<1>2. call.client = "cloud run" => CrNoStrays
  BY CrMeans DEF RemoteInv
<1>3. call.client = "elasticsearch" => EsNoStrays
  BY EsMeans DEF RemoteInv
<1>4. call.client = "sharepoint" => SpNoStrays
  BY SpMeans DEF RemoteInv
<1> QED BY <1>1, <1>2, <1>3, <1>4 DEF NoStrays

(* A call that has ended leaves nothing going that its caller cannot know  *)
(* of: no run of Hex after its timeout, no execution that was not asked to *)
(* stop, no more runs or folders than answers lost or not read, no alias   *)
(* on half an output.                                                      *)
THEOREM RemoteStrays ==
  RemoteSpec => []NoStrays
BY RemoteInvariant, StraysMeans, PTL
================================================================================
