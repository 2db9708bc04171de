---------------------------- MODULE TodayTasksProofs ----------------------------
(***************************************************************************)
(* The pages of one tab with the voice dialog, for any tasks, estimates    *)
(* and bounds: the types; that no second is counted twice; that a finished *)
(* task gets completed; that the page shows what the service holds; and    *)
(* that a closed voice dialog begins no creation.                          *)
(***************************************************************************)
EXTENDS VoiceCapture, SumLemmas, TLAPS

\* What TypeOK says of everything but the timer.
PageTypes ==
    /\ db \in [status : [Task -> RowStatus], delay : [Task -> Nat], total : Total,
               unpriced : SUBSET Task]
    /\ page \in Page
    /\ IsList(list) /\ {isLoading, armed, fresh} \subseteq BOOLEAN
    /\ ops = [s \in Slot |-> ops[s]] /\ \A s \in Busy : IsOp(ops[s])
    /\ recorded \union moved \subseteq Task /\ modal \in Task \union {NoTask}
    /\ undo \in {NoUndo} \union [kind : {"restore", "recreate"}, arg : Task, delay : Nat, live : BOOLEAN]
    /\ missed \in [Task -> Nat] /\ voiceOpen \in BOOLEAN
    /\ form \in [open : BOOLEAN, creating : BOOLEAN, error : BOOLEAN]
    /\ clicks \in 0 .. MaxClick /\ lost \in 0 .. MaxLost

\* What a function works on, and that the animation of a tick box sends no request.
TaskKind == {"refund", "check", "complete", "snooze", "archive", "post", "restore", "delete",
             "recreate", "voice"}
ArgsFit ==
    \A s \in Busy : /\ ops[s].kind \in TaskKind => ops[s].arg \in Task
                    /\ ops[s].kind = "set" => ops[s].arg \in Total
                    /\ ops[s].kind = "check" => ops[s].at = "done"

Types == PageTypes /\ ArgsFit

-----------------------------------------------------------------------------
(* The async functions. *)

\* What a function keeps while another one begins or the page is left.
SameCall(s) ==
    /\ ops'[s].kind = ops[s].kind /\ ops'[s].arg = ops[s].arg
    /\ ops'[s].list = ops[s].list /\ ops'[s].at = ops[s].at

\* A function has begun in slot n, and whatever was under way is not alone any more.
BegunIn(n, kind, arg, snapshot, at) ==
    /\ n \in Slot \ Busy /\ Busy' = Busy \union {n}
    /\ ops'[n] = [kind |-> kind, arg |-> arg, list |-> snapshot, at |-> at, live |-> TRUE,
                  alone |-> Busy = {}]
    /\ \A s \in Busy : SameCall(s) /\ ops'[s].live = ops[s].live /\ ops'[s].alone = FALSE
Begun(kind, arg, snapshot, at) == \E n \in Slot : BegunIn(n, kind, arg, snapshot, at)

\* The function in slot s has gone on, or has ended; the others stay as they are.
OthersStay(s) == \A u \in Busy \ {s} : ops'[u] = ops[u]
GoesOn(s) == s \in Busy /\ Busy' = Busy /\ OthersStay(s)
Ended(s) == s \in Busy /\ Busy' = Busy \ {s} /\ OthersStay(s)

\* The least of some slots is one of them.
LEMMA MinSlot ==
  ASSUME NEW S \in SUBSET Slot, S # {}
  PROVE  Min(S) \in S
  <1>1. S \subseteq Nat
    BY PageAssumption DEF Slot
  <1>2. PICK t \in S : \A u \in S : ~ (<<u, t>> \in OpToRel(<, Nat))
    BY <1>1, NatLessThanWellFounded, WFMin
  <1>3. \A u \in S : t <= u
    <2>1. \A u \in S : ~ (u < t)
      BY <1>1, <1>2 DEF OpToRel
    <2> QED BY <1>1, <2>1
  <1> QED BY <1>3 DEF Min

\* A function is a record of the right kind, and not a free slot.
LEMMA OpIs ==
  ASSUME NEW o, IsOp(o)
  PROVE  /\ o = [kind |-> o.kind, arg |-> o.arg, list |-> o.list, at |-> o.at,
                 live |-> o.live, alone |-> o.alone]
         /\ o.kind \in Kind /\ o.kind # "none"
         /\ o.arg \in Task \union Total \union {NoTask}
         /\ o.at \in {"request", "done", "failed"}
         /\ o.live \in BOOLEAN /\ o.alone \in BOOLEAN /\ IsList(o.list)
  BY DEF IsOp, Kind

\* A record with these fields is such a function.
LEMMA OpFrom ==
  ASSUME NEW kind \in Kind, NEW arg \in Task \union Total \union {NoTask}, NEW snapshot,
         IsList(snapshot), NEW at \in {"request", "done", "failed"}, NEW live \in BOOLEAN,
         NEW alone \in BOOLEAN
  PROVE  LET o == [kind |-> kind, arg |-> arg, list |-> snapshot, at |-> at, live |-> live,
                   alone |-> alone]
         IN IsOp(o) /\ o # Free
  <1> DEFINE o == [kind |-> kind, arg |-> arg, list |-> snapshot, at |-> at, live |-> live,
                   alone |-> alone]
  <1>1. o \in [kind : Kind, arg : Task \union Total \union {NoTask}, list : {o.list},
               at : {"request", "done", "failed"}, live : BOOLEAN, alone : BOOLEAN]
    OBVIOUS
  <1>2. IsList(o.list)
    OBVIOUS
  <1>3. o # Free
    <2>1. o.kind # "none"
      BY DEF Kind
    <2> HIDE DEF o
    <2> QED BY <2>1 DEF Free
  <1> HIDE DEF o
  <1> QED BY <1>1, <1>2, <1>3 DEF IsOp, o

\* The types of the functions under way, and of one that is about to begin.
OpsTyped ==
    /\ ops = [s \in Slot |-> ops[s]] /\ \A s \in Busy : IsOp(ops[s])
    /\ ArgsFit
Fits(kind, arg, snapshot, at) ==
    /\ kind \in Kind /\ arg \in Task \union Total \union {NoTask} /\ IsList(snapshot)
    /\ at \in {"request", "done", "failed"}
    /\ kind \in TaskKind => arg \in Task
    /\ kind = "set" => arg \in Total
    /\ kind = "check" => at = "done"

\* Begin takes a free slot, and whatever runs already overlaps from now on.
LEMMA BeginIs ==
  ASSUME Types, NEW kind, NEW arg, NEW snapshot, NEW at,
         Begin(kind, arg, snapshot, at), Fits(kind, arg, snapshot, at)
  PROVE  Begun(kind, arg, snapshot, at) /\ OpsTyped'
  <1> DEFINE n == Min(Slot \ Busy)
             o == [kind |-> kind, arg |-> arg, list |-> snapshot, at |-> at, live |-> TRUE,
                   alone |-> Busy = {}]
  <1>1. n \in Slot \ Busy
    <2>1. Slot \ Busy # {} /\ Slot \ Busy \in SUBSET Slot
      BY DEF Begin, Busy
    <2> QED BY <2>1, MinSlot
  <1>2. Started(kind, arg, snapshot, at) = [ops EXCEPT ![n] = o]
    BY DEF Started
  <1> HIDE DEF n
  <1>3. IsOp(o) /\ o # Free
    <2> DEFINE alone == Busy = {}
    <2>1. alone \in BOOLEAN
      OBVIOUS
    <2>2. /\ kind \in Kind /\ arg \in Task \union Total \union {NoTask} /\ IsList(snapshot)
          /\ at \in {"request", "done", "failed"} /\ TRUE \in BOOLEAN
      BY DEF Fits
    <2> HIDE DEF alone
    <2>3. LET p == [kind |-> kind, arg |-> arg, list |-> snapshot, at |-> at, live |-> TRUE,
                    alone |-> alone]
          IN IsOp(p) /\ p # Free
      BY <2>1, <2>2, OpFrom
    <2> QED BY <2>3 DEF alone
  <1> HIDE DEF o
  <1>4. ops = [s \in Slot |-> ops[s]]
    BY DEF Types, PageTypes
  <1>5. \A s \in Slot : Started(kind, arg, snapshot, at)[s] = IF s = n THEN o ELSE ops[s]
    BY <1>1, <1>2, <1>4
  <1>6. /\ ops' = [s \in Slot |-> IF s \in Busy THEN Overlapped(ops[s])
                                  ELSE Started(kind, arg, snapshot, at)[s]]
    BY DEF Begin
  <1>7. /\ ops' = [s \in Slot |-> ops'[s]]
        /\ ops'[n] = o
        /\ \A s \in Slot \ (Busy \union {n}) : ops'[s] = Free
        /\ \A s \in Busy : ops'[s] = Overlapped(ops[s])
    BY <1>1, <1>5, <1>6 DEF Busy
  <1>8. ASSUME NEW s \in Busy
        PROVE  /\ SameCall(s) /\ ops'[s].live = ops[s].live /\ ops'[s].alone = FALSE
               /\ IsOp(ops'[s]) /\ ops'[s] # Free
    <2>1. IsOp(ops[s]) /\ ops[s] # Free
      BY DEF Types, PageTypes, Busy
    <2>2. ops'[s] = [kind |-> ops[s].kind, arg |-> ops[s].arg, list |-> ops[s].list,
                     at |-> ops[s].at, live |-> ops[s].live, alone |-> FALSE]
      BY <1>7, <2>1, OpIs DEF Overlapped
    <2>3. IsOp(ops'[s]) /\ ops'[s] # Free
      <3>1. /\ ops[s].kind \in Kind /\ ops[s].arg \in Task \union Total \union {NoTask}
            /\ ops[s].at \in {"request", "done", "failed"} /\ IsList(ops[s].list)
            /\ ops[s].live \in BOOLEAN /\ FALSE \in BOOLEAN
        BY <2>1, OpIs
      <3>2. LET p == [kind |-> ops[s].kind, arg |-> ops[s].arg, list |-> ops[s].list,
                      at |-> ops[s].at, live |-> ops[s].live, alone |-> FALSE]
            IN IsOp(p) /\ p # Free
        BY <3>1, OpFrom, ZenonT(40)
      <3> QED BY <2>2, <3>2
    <2> QED BY <2>2, <2>3 DEF SameCall
  <1>9. Busy' = Busy \union {n}
    BY <1>1, <1>3, <1>7, <1>8 DEF Busy
  <1>10. ArgsFit'
    <2>1. ASSUME NEW s \in Busy'
          PROVE  /\ ops'[s].kind \in TaskKind => ops'[s].arg \in Task
                 /\ ops'[s].kind = "set" => ops'[s].arg \in Total
                 /\ ops'[s].kind = "check" => ops'[s].at = "done"
      <3>1. CASE s = n
        BY <1>7, <3>1 DEF Fits, o
      <3>2. CASE s \in Busy
        BY <1>8, <3>2 DEF SameCall, Types, ArgsFit
      <3> QED BY <1>9, <2>1, <3>1, <3>2
    <2> QED BY <2>1 DEF ArgsFit
  <1> QED BY <1>1, <1>3, <1>7, <1>8, <1>9, <1>10 DEF Begun, BegunIn, OpsTyped, o

\* A function that goes on with a new record, or ends.
LEMMA GoesOnIs ==
  ASSUME Types, NEW s \in Busy, NEW o, ops' = [ops EXCEPT ![s] = o], IsOp(o),
         Fits(o.kind, o.arg, o.list, o.at)
  PROVE  GoesOn(s) /\ ops'[s] = o /\ OpsTyped'
  <1>1. ops = [u \in Slot |-> ops[u]] /\ s \in Slot /\ \A u \in Busy : IsOp(ops[u])
    BY DEF Types, PageTypes, Busy
  <1>2. ops' = [u \in Slot |-> ops'[u]] /\ ops'[s] = o /\ \A u \in Slot \ {s} : ops'[u] = ops[u]
    BY <1>1
  <1>3. o # Free
    <2>1. o.kind # "none"
      BY DEF Fits, Kind
    <2> QED BY <2>1 DEF Free
  <1>4. Busy' = Busy
    BY <1>2, <1>3 DEF Busy
  <1>5. \A u \in Busy : IsOp(ops'[u])
    BY <1>1, <1>2 DEF Busy
  <1>6. ArgsFit'
    BY <1>2, <1>4 DEF ArgsFit, Fits, Types, Busy
  <1> QED BY <1>1, <1>2, <1>4, <1>5, <1>6 DEF GoesOn, OthersStay, OpsTyped, Busy

\* A function that ends frees its slot.
LEMMA EndIs ==
  ASSUME Types, NEW s \in Busy, ops' = [ops EXCEPT ![s] = Free]
  PROVE  Ended(s) /\ OpsTyped'
  <1>1. ops = [u \in Slot |-> ops[u]] /\ s \in Slot /\ \A u \in Busy : IsOp(ops[u])
    BY DEF Types, PageTypes, Busy
  <1>2. /\ ops' = [u \in Slot |-> ops'[u]] /\ ops'[s] = Free
        /\ \A u \in Slot \ {s} : ops'[u] = ops[u]
    BY <1>1
  <1>3. Busy' = Busy \ {s}
    BY <1>2 DEF Busy
  <1>4. \A u \in Busy \ {s} : ops'[u] = ops[u] /\ IsOp(ops'[u])
    BY <1>1, <1>2 DEF Busy
  <1>5. ArgsFit'
    BY <1>3, <1>4 DEF ArgsFit, Types
  <1> QED BY <1>2, <1>3, <1>4, <1>5 DEF Ended, OthersStay, OpsTyped

\* Lists of the service.
LEMMA ListOfIs ==
  ASSUME Types, NEW status
  PROVE  /\ IsList(ListOf(db, status)) /\ DOMAIN ListOf(db, status) = InStatus(db, status)
         /\ \A t \in InStatus(db, status) : ListOf(db, status)[t] = db.delay[t]
  BY DEF Types, PageTypes, IsList, ListOf, InStatus

\* The answer to a request.
LEMMA ServeIs ==
  ASSUME Types, NEW s \in Slot, Serve(s)
  PROVE  /\ GoesOn(s) /\ ops[s].at = "request" /\ OpsTyped'
         /\ ops'[s].kind = ops[s].kind /\ ops'[s].arg = ops[s].arg
         /\ ops'[s].live = ops[s].live /\ ops'[s].alone = ops[s].alone
         /\ ops'[s].at = IF Refused(ops[s]) THEN "failed" ELSE "done"
         /\ ops'[s].list = CASE ops[s].kind \in {"fetch", "refetch"} -> ListOf(db, "PENDING")
                             [] ops[s].kind = "items" -> ListOf(db, "ARCHIVED")
                             [] OTHER -> ops[s].list
  <1> DEFINE at == IF Refused(ops[s]) THEN "failed" ELSE "done"
             l == CASE ops[s].kind \in {"fetch", "refetch"} -> ListOf(db, "PENDING")
                    [] ops[s].kind = "items" -> ListOf(db, "ARCHIVED")
                    [] OTHER -> ops[s].list
             o == [kind |-> ops[s].kind, arg |-> ops[s].arg, list |-> l, at |-> at,
                   live |-> ops[s].live, alone |-> ops[s].alone]
  <1>1. s \in Busy /\ ops[s].at = "request" /\ ops' = [ops EXCEPT ![s] = Answer(@)]
    BY DEF Serve
  <1>2. IsOp(ops[s]) /\ ops = [u \in Slot |-> ops[u]]
    BY <1>1 DEF Types, PageTypes
  <1>9. Answer(ops[s]) = [ops[s] EXCEPT !.at = at, !.list = l]
    BY DEF Answer
  <1>4. IsList(l) /\ at \in {"request", "done", "failed"}
    BY <1>2, OpIs, ListOfIs
  <1> HIDE DEF l, at
  <1>3. Answer(ops[s]) = o
    BY <1>9, <1>2, OpIs
  <1>5. IsOp(o)
    BY <1>2, <1>4, OpIs, OpFrom
  <1>6. Fits(o.kind, o.arg, o.list, o.at)
    <2>1. ops[s].kind # "check"
      BY <1>1 DEF Types, ArgsFit
    <2> QED BY <1>1, <1>2, <1>4, <2>1, OpIs DEF Fits, Types, ArgsFit
  <1>7. ops' = [ops EXCEPT ![s] = o]
    BY <1>1, <1>3
  <1> HIDE DEF o
  <1>8. GoesOn(s) /\ ops'[s] = o /\ OpsTyped'
    BY <1>1, <1>5, <1>6, <1>7, GoesOnIs
  <1> QED BY <1>1, <1>8 DEF o, at, l

\* A request or an answer that is lost.
LEMMA LoseIs ==
  ASSUME Types, NEW s \in Slot, LoseRequest(s) \/ LoseAnswer(s)
  PROVE  /\ GoesOn(s) /\ OpsTyped' /\ ops[s].kind # "check"
         /\ ops'[s].kind = ops[s].kind /\ ops'[s].arg = ops[s].arg
         /\ ops'[s].live = ops[s].live /\ ops'[s].alone = ops[s].alone
         /\ ops'[s].at = "failed" /\ ops'[s].list = ops[s].list
  <1> DEFINE o == [kind |-> ops[s].kind, arg |-> ops[s].arg, list |-> ops[s].list,
                   at |-> "failed", live |-> ops[s].live, alone |-> ops[s].alone]
  <1>1. s \in Busy /\ ops' = [ops EXCEPT ![s].at = "failed"]
    BY DEF LoseRequest, LoseAnswer
  <1>2. IsOp(ops[s]) /\ ops = [u \in Slot |-> ops[u]]
    BY <1>1 DEF Types, PageTypes
  <1>3. ops[s].kind # "check"
    BY <1>1 DEF LoseRequest, LoseAnswer, Types, ArgsFit
  <1>4. [ops[s] EXCEPT !.at = "failed"] = o
    BY <1>2, OpIs
  <1>5. IsOp(o)
    BY <1>2, OpIs, OpFrom
  <1>6. Fits(o.kind, o.arg, o.list, o.at)
    BY <1>1, <1>2, <1>3, OpIs DEF Fits, Types, ArgsFit
  <1>7. ops' = [ops EXCEPT ![s] = o]
    BY <1>1, <1>4
  <1> HIDE DEF o
  <1>8. GoesOn(s) /\ ops'[s] = o /\ OpsTyped'
    BY <1>1, <1>5, <1>6, <1>7, GoesOnIs
  <1> QED BY <1>3, <1>8 DEF o

\* A function sends its next request.
LEMMA NextRequestIs ==
  ASSUME Types, NEW s \in Busy, NEW kind \in {"complete", "refetch"},
         kind = "complete" => ops[s].kind \in {"refund", "check"},
         ops' = [ops EXCEPT ![s].kind = kind, ![s].at = "request"]
  PROVE  /\ GoesOn(s) /\ OpsTyped'
         /\ ops'[s].kind = kind /\ ops'[s].arg = ops[s].arg
         /\ ops'[s].live = ops[s].live /\ ops'[s].alone = ops[s].alone
         /\ ops'[s].at = "request" /\ ops'[s].list = ops[s].list
  <1> DEFINE o == [kind |-> kind, arg |-> ops[s].arg, list |-> ops[s].list,
                   at |-> "request", live |-> ops[s].live, alone |-> ops[s].alone]
  <1>1. IsOp(ops[s]) /\ ops = [u \in Slot |-> ops[u]] /\ s \in Slot
    BY DEF Types, PageTypes, Busy
  <1>2. PICK p : p = [ops[s] EXCEPT !.kind = kind]
    OBVIOUS
  <1>3. p = [kind |-> kind, arg |-> ops[s].arg, list |-> ops[s].list,
             at |-> ops[s].at, live |-> ops[s].live, alone |-> ops[s].alone]
    BY <1>1, <1>2, OpIs
  <1>4. [p EXCEPT !.at = "request"] = o
    BY <1>3
  <1>5. IsOp(o)
    BY <1>1, OpIs, OpFrom, ZenonT(40) DEF Kind
  <1>6. Fits(o.kind, o.arg, o.list, o.at)
    BY <1>1, OpIs DEF Fits, Types, ArgsFit, Kind, TaskKind
  <1>7. ops' = [ops EXCEPT ![s] = o]
    <2>1. ops' = [[ops EXCEPT ![s] = p] EXCEPT ![s].at = "request"]
      BY <1>2
    <2> QED BY <1>1, <1>4, <2>1
  <1> HIDE DEF o
  <1>8. GoesOn(s) /\ ops'[s] = o /\ OpsTyped'
    BY <1>5, <1>6, <1>7, GoesOnIs
  <1> QED BY <1>8 DEF o

\* Another page is shown: what was under way has no effect on it, and it may begin a load.
Left(s, p) ==
    /\ SameCall(s) /\ ops'[s].live = FALSE
    /\ ops'[s].alone = (ops[s].alone /\ Opening(p) = "none")
LoadsIn(n, p) ==
    /\ n \in Slot \ Busy /\ Busy' = Busy \union {n}
    /\ ops'[n] = [kind |-> Opening(p), arg |-> NoTask, list |-> <<>>, at |-> "request",
                  live |-> TRUE, alone |-> Busy = {}]
Changed(p) ==
    /\ \A s \in Busy : Left(s, p)
    /\ Opening(p) = "none" => Busy' = Busy
    /\ Opening(p) # "none" => \E n \in Slot : LoadsIn(n, p)

\* A page begins without tasks.
LEMMA EmptyList == IsList(<<>>) /\ DOMAIN <<>> = {}
  <1>1. DOMAIN <<>> = {}
    OBVIOUS
  <1>2. <<>> \in [{} -> Nat]
    OBVIOUS
  <1> QED BY <1>1, <1>2 DEF IsList

\* Showing a page leaves the functions of the old one to themselves.
LEMMA ShowIs ==
  ASSUME Types, NEW p \in Page, Show(p)
  PROVE  Changed(p) /\ OpsTyped'
  <1> DEFINE n == Min(Slot \ Busy)
             alone == Busy = {}
             o == [kind |-> Opening(p), arg |-> NoTask, list |-> <<>>, at |-> "request",
                   live |-> TRUE, alone |-> alone]
  <1>1. ops = [s \in Slot |-> ops[s]] /\ \A s \in Busy : IsOp(ops[s])
    BY DEF Types, PageTypes
  <1>2. /\ ops' = [s \in Slot |->
                IF s \in Busy THEN [ops[s] EXCEPT !.live = FALSE, !.alone = @ /\ Opening(p) = "none"]
                ELSE IF Opening(p) # "none" THEN Started(Opening(p), NoTask, <<>>, "request")[s]
                     ELSE Free]
    BY DEF Show
  <1>3. Started(Opening(p), NoTask, <<>>, "request") = [ops EXCEPT ![n] = o]
    BY DEF Started
  <1>4. Opening(p) # "none" => n \in Slot \ Busy
    <2>1. Opening(p) # "none" => Slot \ Busy # {} /\ Slot \ Busy \in SUBSET Slot
      BY DEF Show, Busy
    <2> HIDE DEF n
    <2> QED BY <2>1, MinSlot DEF n
  <1>5. Opening(p) # "none" => Fits(Opening(p), NoTask, <<>>, "request")
    BY EmptyList DEF Opening, Fits, Kind, TaskKind
  <1>6. alone \in BOOLEAN
    OBVIOUS
  <1> HIDE DEF n, alone
  <1>7. Opening(p) # "none" => IsOp(o) /\ o # Free
    BY <1>5, <1>6, OpFrom DEF Fits
  <1> HIDE DEF o
  <1>8. /\ ops' = [s \in Slot |-> ops'[s]]
        /\ \A s \in Busy :
              ops'[s] = [ops[s] EXCEPT !.live = FALSE, !.alone = @ /\ Opening(p) = "none"]
    BY <1>2 DEF Busy
  <1>9. Opening(p) = "none" => \A s \in Slot \ Busy : ops'[s] = Free
    BY <1>2
  <1>10. Opening(p) # "none" => ops'[n] = o /\ \A s \in Slot \ (Busy \union {n}) : ops'[s] = Free
    BY <1>1, <1>2, <1>3, <1>4 DEF Busy
  <1>11. ASSUME NEW s \in Busy
         PROVE  Left(s, p) /\ IsOp(ops'[s]) /\ ops'[s] # Free
    <2> DEFINE b == ops[s].alone /\ Opening(p) = "none"
    <2>1. IsOp(ops[s])
      BY <1>1
    <2>2. b \in BOOLEAN /\ FALSE \in BOOLEAN
      OBVIOUS
    <2>3. ops'[s] = [ops[s] EXCEPT !.live = FALSE, !.alone = b]
      BY <1>8
    <2> HIDE DEF b
    <2>4. ops'[s] = [kind |-> ops[s].kind, arg |-> ops[s].arg, list |-> ops[s].list,
                     at |-> ops[s].at, live |-> FALSE, alone |-> b]
      BY <2>1, <2>3, OpIs
    <2>5. /\ ops[s].kind \in Kind /\ ops[s].arg \in Task \union Total \union {NoTask}
          /\ ops[s].at \in {"request", "done", "failed"} /\ IsList(ops[s].list)
      BY <2>1, OpIs
    <2>6. LET q == [kind |-> ops[s].kind, arg |-> ops[s].arg, list |-> ops[s].list,
                    at |-> ops[s].at, live |-> FALSE, alone |-> b]
          IN IsOp(q) /\ q # Free
      BY <2>2, <2>5, OpFrom, ZenonT(40)
    <2> QED BY <2>4, <2>6 DEF Left, SameCall, b
  <1>12. Opening(p) = "none" => Busy' = Busy
    BY <1>9, <1>11 DEF Busy
  <1>13. Opening(p) # "none" => Busy' = Busy \union {n}
    BY <1>4, <1>7, <1>10, <1>11 DEF Busy
  <1>14. \A s \in Busy' : IsOp(ops'[s])
    BY <1>7, <1>10, <1>11, <1>12, <1>13
  <1>15. ArgsFit'
    <2>1. ASSUME NEW s \in Busy'
          PROVE  /\ ops'[s].kind \in TaskKind => ops'[s].arg \in Task
                 /\ ops'[s].kind = "set" => ops'[s].arg \in Total
                 /\ ops'[s].kind = "check" => ops'[s].at = "done"
      <3>1. CASE s \in Busy
        BY <1>11, <3>1 DEF Left, SameCall, Types, ArgsFit
      <3>2. CASE s \notin Busy
        BY <1>5, <1>10, <1>12, <1>13, <2>1, <3>2 DEF Fits, o
      <3> QED BY <3>1, <3>2
    <2> QED BY <2>1 DEF ArgsFit
  <1>16. Opening(p) # "none" => LoadsIn(n, p)
    BY <1>4, <1>10, <1>13 DEF LoadsIn, o, alone
  <1> QED BY <1>4, <1>8, <1>11, <1>12, <1>14, <1>15, <1>16 DEF Changed, OpsTyped

-----------------------------------------------------------------------------
(* The lists. *)

\* A list stays a list, and gets no more tasks.
LEMMA OptimisticIs ==
  ASSUME NEW kind, NEW t, NEW l, IsList(l)
  PROVE  /\ IsList(optimistic(kind, t, l)) /\ DOMAIN optimistic(kind, t, l) \subseteq DOMAIN l
  <1>1. CASE t \notin DOMAIN l
    BY <1>1 DEF optimistic
  <1>2. CASE t \in DOMAIN l /\ kind = "snooze"
    BY <1>2 DEF optimistic, IsList
  <1>3. CASE t \in DOMAIN l /\ kind # "snooze"
    BY <1>3 DEF optimistic, IsList, Restrict
  <1> QED BY <1>1, <1>2, <1>3

\* A task that comes back makes a list again.
LEMMA ReinsertedIs ==
  ASSUME NEW l, IsList(l), NEW t \in Task, NEW delay \in Nat
  PROVE  /\ IsList(Reinserted(l, t, delay)) /\ DOMAIN Reinserted(l, t, delay) = DOMAIN l \union {t}
  BY DEF IsList, Reinserted

\* The record of finished tasks, as a list.
LEMMA CompletedList ==
  ASSUME Types
  PROVE  IsList(loadCompleted) /\ DOMAIN loadCompleted = recorded
  BY DEF Types, PageTypes, IsList, loadCompleted

\* Only listed tasks are shown.
LEMMA ShownIs ==
  ASSUME Types, NEW t \in Shown
  PROVE  t \in DOMAIN list /\ t \in Task
  <1>1. Shown \subseteq DOMAIN list
    BY DEF Types, PageTypes, Page, Shown, priorityTask, pending, important, visible
  <1> QED BY <1>1 DEF Types, PageTypes, IsList

-----------------------------------------------------------------------------
(* Types. *)

\* What no function, no call and no list takes part in.
Idle ==
    /\ UNCHANGED <<db, ops, page, list, recorded, moved, missed, fresh>>
    /\ undo' \in {undo, NoUndo}
    /\ modal' \in {modal, NoTask} \/ (modal' \in DOMAIN list /\ page \in {"today", "important"})
    /\ form'.open => form.open \/ page = "today"
    /\ armed' = armed \/ page = "today"
IdleAction ==
    \/ \E t \in Task : Start(t) \/ Pause(t) \/ Resume(t) \/ OpenZombie(t)
    \/ CloseZombie \/ ToastGone \/ OpenAdd \/ CloseAdd \/ EditForm \/ ChangeContext \/ Tick
    \/ (onTrigger /\ page = "today") \/ onTestClap \/ CloseVoice
    \/ doBriefing \/ startListening \/ NothingHeard
    \/ \E t \in Task : handleVoiceResult(t) \/ handleManualSubmit(t)
    \/ \E c \in chains : \/ Parsed(c) \/ CloseAfterDone(c)
                         \/ c.at = "wait" /\ cancelRef /\ chains' = chains \ {c}
                            /\ UNCHANGED <<stage, clicks, phase>> /\ Conversation

\* A click is counted.
LEMMA ClickIs ==
  ASSUME Types, Click
  PROVE  clicks' \in 0 .. MaxClick
  BY PageAssumption DEF Click, Types, PageTypes

\* Nothing begins, goes on or ends.
LEMMA SameOps ==
  ASSUME Types, ops' = ops
  PROVE  OpsTyped' /\ Busy' = Busy
  <1>1. Busy' = Busy
    BY DEF Busy
  <1> QED BY <1>1 DEF Types, PageTypes, ArgsFit, OpsTyped

\* The types of what an idle step may change.
LEMMA SmallTypes ==
  ASSUME Types, Idle, OpsTyped', armed' \in BOOLEAN, isLoading' = isLoading,
         modal' \in Task \union {NoTask}, lost' = lost, voiceOpen' \in BOOLEAN,
         form' \in [open : BOOLEAN, creating : BOOLEAN, error : BOOLEAN],
         clicks' \in 0 .. MaxClick
  PROVE  Types'
  BY DEF Types, PageTypes, Idle, OpsTyped

\* The form, however it is changed.
LEMMA FormTyped ==
  ASSUME Types
  PROVE  /\ Closed \in [open : BOOLEAN, creating : BOOLEAN, error : BOOLEAN]
         /\ \A a \in BOOLEAN : [form EXCEPT !.open = a] \in [open : BOOLEAN, creating : BOOLEAN, error : BOOLEAN]
         /\ \A a, b \in BOOLEAN : /\ [form EXCEPT !.open = a, !.error = b]
                                       \in [open : BOOLEAN, creating : BOOLEAN, error : BOOLEAN]
                                  /\ [form EXCEPT !.creating = a, !.open = b]
                                       \in [open : BOOLEAN, creating : BOOLEAN, error : BOOLEAN]
                                  /\ [form EXCEPT !.creating = a, !.error = b]
                                       \in [open : BOOLEAN, creating : BOOLEAN, error : BOOLEAN]
         /\ \A b \in BOOLEAN : [form EXCEPT !.error = b] \in [open : BOOLEAN, creating : BOOLEAN, error : BOOLEAN]
  BY DEF Types, PageTypes, Closed

\* The idle actions do what Idle says, and keep the types.
LEMMA IdleTyped ==
  ASSUME Types, IdleAction
  PROVE  Idle /\ Types'
  <1>0. /\ armed \in BOOLEAN /\ voiceOpen \in BOOLEAN /\ modal \in Task \union {NoTask}
        /\ form \in [open : BOOLEAN, creating : BOOLEAN, error : BOOLEAN]
        /\ clicks \in 0 .. MaxClick
    BY DEF Types, PageTypes
  <1>1. ASSUME NEW t \in Task, Start(t) \/ Pause(t) \/ Resume(t) PROVE Idle /\ Types'
    <2>1. /\ Idle /\ ops' = ops /\ Click
          /\ UNCHANGED <<armed, isLoading, modal, lost, voiceOpen, form>>
      BY <1>1 DEF Start, Pause, Resume, Button, TimerOnly, Steady, shell, Idle
    <2> QED BY <1>0, <2>1, SameOps, ClickIs, SmallTypes
  <1>2. ASSUME NEW t \in Task, OpenZombie(t) PROVE Idle /\ Types'
    <2>1. t \in DOMAIN list
      BY <1>2, ShownIs DEF OpenZombie
    <2>2. /\ Idle /\ ops' = ops /\ Click /\ modal' \in Task
          /\ UNCHANGED <<armed, isLoading, lost, voiceOpen, form>>
      BY <1>2, <2>1 DEF OpenZombie, onCardClick, timer, Steady, Idle
    <2> QED BY <1>0, <2>2, SameOps, ClickIs, SmallTypes
  <1>3. CASE CloseZombie
    <2>1. /\ Idle /\ ops' = ops /\ modal' = NoTask
          /\ UNCHANGED <<armed, isLoading, lost, voiceOpen, form, clicks>>
      BY <1>3 DEF CloseZombie, timer, Steady, Idle
    <2> QED BY <1>0, <2>1, SameOps, SmallTypes
  <1>4. CASE ToastGone
    <2>1. Idle /\ ops' = ops /\ UNCHANGED <<armed, isLoading, modal, lost, voiceOpen, form, clicks>>
      BY <1>4 DEF ToastGone, timer, Steady, Idle
    <2> QED BY <1>0, <2>1, SameOps, SmallTypes
  <1>5. CASE OpenAdd \/ CloseAdd \/ EditForm
    <2>1. /\ form' \in [open : BOOLEAN, creating : BOOLEAN, error : BOOLEAN]
          /\ form'.open => form.open \/ page = "today"
      <3>1. CASE OpenAdd
        BY <3>1, FormTyped DEF OpenAdd
      <3>2. CASE CloseAdd
        BY <1>0, <3>2, FormTyped DEF CloseAdd
      <3>3. CASE EditForm
        BY <1>0, <3>3, FormTyped DEF EditForm
      <3> QED BY <1>5, <3>1, <3>2, <3>3
    <2>2. Idle /\ ops' = ops /\ UNCHANGED <<armed, isLoading, modal, lost, voiceOpen>>
      BY <1>5, <2>1 DEF OpenAdd, CloseAdd, EditForm, FormOnly, timer, Steady, Idle
    <2>3. clicks' \in 0 .. MaxClick
      BY <1>0, <1>5, ClickIs DEF OpenAdd, CloseAdd, EditForm
    <2> QED BY <1>0, <2>1, <2>2, <2>3, SameOps, SmallTypes
  <1>6. CASE ChangeContext
    <2>1. /\ Idle /\ ops' = ops /\ Click /\ armed' = TRUE
          /\ UNCHANGED <<isLoading, modal, lost, voiceOpen, form>>
      BY <1>6 DEF ChangeContext, timer, shell, history, Idle
    <2> QED BY <1>0, <2>1, SameOps, ClickIs, SmallTypes
  <1>7. CASE Tick
    <2>1. Idle /\ ops' = ops /\ UNCHANGED <<armed, isLoading, modal, lost, voiceOpen, form, clicks>>
      BY <1>7 DEF Tick, shell, Steady, Idle
    <2> QED BY <1>0, <2>1, SameOps, SmallTypes
  <1>8. CASE onTrigger /\ page = "today"
    <2>1. /\ Idle /\ ops' = ops /\ Click /\ voiceOpen' = TRUE
          /\ UNCHANGED <<armed, isLoading, modal, lost, form>>
      BY <1>8 DEF onTrigger, timer, history, Idle
    <2> QED BY <1>0, <2>1, SameOps, ClickIs, SmallTypes
  <1>9. CASE onTestClap
    <2>1. /\ Idle /\ ops' = ops /\ Click /\ voiceOpen' = TRUE
          /\ UNCHANGED <<armed, isLoading, modal, lost, form>>
      BY <1>9 DEF onTestClap, PagesStill, timer, history, Idle
    <2> QED BY <1>0, <2>1, SameOps, ClickIs, SmallTypes
  <1>10. CASE CloseVoice
    <2>1. /\ Idle /\ ops' = ops /\ voiceOpen' = FALSE
          /\ UNCHANGED <<armed, isLoading, modal, lost, form, clicks>>
      BY <1>10 DEF CloseVoice, onClose, PagesStill, timer, history, Idle
    <2> QED BY <1>0, <2>1, SameOps, SmallTypes
  <1>11. ASSUME Conversation, clicks' \in 0 .. MaxClick PROVE Idle /\ Types'
    <2>1. Idle /\ ops' = ops /\ UNCHANGED <<armed, isLoading, modal, lost, voiceOpen, form>>
      BY <1>11 DEF Conversation, PagesStill, timer, history, Idle
    <2> QED BY <1>0, <1>11, <2>1, SameOps, SmallTypes
  <1>12. CASE doBriefing \/ startListening \/ NothingHeard
    BY <1>0, <1>11, <1>12 DEF doBriefing, startListening, NothingHeard
  <1>13. ASSUME NEW t \in Task, handleVoiceResult(t) \/ handleManualSubmit(t) PROVE Idle /\ Types'
    <2>1. Conversation /\ Click
      BY <1>13 DEF handleVoiceResult, handleManualSubmit, smartParse
    <2> QED BY <1>11, <2>1, ClickIs
  <1>14. ASSUME NEW c \in chains,
                \/ Parsed(c)
                \/ c.at = "wait" /\ cancelRef /\ chains' = chains \ {c}
                   /\ UNCHANGED <<stage, clicks, phase>> /\ Conversation
         PROVE  Idle /\ Types'
    BY <1>0, <1>11, <1>14 DEF Parsed
  <1>15. ASSUME NEW c \in chains, CloseAfterDone(c) PROVE Idle /\ Types'
    <2>1. PagesStill /\ UNCHANGED clicks /\ voiceOpen' \in {voiceOpen, FALSE}
      BY <1>15 DEF CloseAfterDone, onClose
    <2>2. Idle /\ ops' = ops /\ UNCHANGED <<armed, isLoading, modal, lost, form, clicks>>
      BY <2>1 DEF PagesStill, timer, history, Idle
    <2> QED BY <1>0, <2>1, <2>2, SameOps, SmallTypes
  <1> QED BY <1>1, <1>2, <1>3, <1>4, <1>5, <1>6, <1>7, <1>8, <1>9, <1>10, <1>12, <1>13, <1>14,
       <1>15
     DEF IdleAction

\* What a beginning function leaves alone.
Starts(kind, arg, snapshot, at) ==
    Begun(kind, arg, snapshot, at) /\ OpsTyped' /\ UNCHANGED <<db, page, missed, lost>>
Undos == {NoUndo} \union [kind : {"restore", "recreate"}, arg : Task, delay : Nat, live : BOOLEAN]

\* The types, when a function begins.
LEMMA BeginTypes ==
  ASSUME Types, OpsTyped', UNCHANGED <<db, page, missed, lost, isLoading, voiceOpen>>,
         IsList(list'), {armed', fresh'} \subseteq BOOLEAN,
         recorded' \union moved' \subseteq Task, modal' \in Task \union {NoTask},
         undo' \in Undos, clicks' \in 0 .. MaxClick,
         form' \in [open : BOOLEAN, creating : BOOLEAN, error : BOOLEAN]
  PROVE  Types'
  BY DEF Types, PageTypes, OpsTyped, Undos

\* The types used below, one by one.
LEMMA TypesAre ==
  ASSUME Types
  PROVE  /\ {armed, fresh, isLoading, voiceOpen} \subseteq BOOLEAN
         /\ IsList(list) /\ undo \in Undos /\ modal \in Task \union {NoTask}
         /\ form \in [open : BOOLEAN, creating : BOOLEAN, error : BOOLEAN]
         /\ clicks \in 0 .. MaxClick /\ recorded \union moved \subseteq Task
         /\ page \in Page
  BY DEF Types, PageTypes, Undos

\* The bodies of the Begin actions.
LEMMA FinishIs ==
  ASSUME Types, NEW t \in Task, Finish(t) \/ MiniFinish(t)
  PROVE  /\ page = "today" /\ t \in DOMAIN list
         /\ Starts("refund", t, list, "request") /\ Types'
         /\ recorded' = recorded \union {t} /\ fresh' = (fresh /\ Busy = {})
         /\ UNCHANGED <<list, armed, modal, undo, form, moved>>
  <1>1. /\ page = "today" /\ t \in Shown /\ Click /\ handleFinish(t)
    BY DEF Finish, MiniFinish, Button, Listed
  <1>2. Fits("refund", t, list, "request")
    BY TypesAre DEF Fits, Kind
  <1>3. /\ Begin("refund", t, list, "request") /\ recorded' = recorded \union {t}
        /\ fresh' = (fresh /\ Busy = {})
        /\ UNCHANGED <<list, armed, modal, undo, form, moved, db, page, missed, lost, isLoading,
                       voiceOpen>>
    BY <1>1 DEF handleFinish, appendCompleted, Steady, shell
  <1>4. Starts("refund", t, list, "request")
    BY <1>2, <1>3, BeginIs DEF Starts
  <1>5. Types'
    BY <1>1, <1>3, <1>4, TypesAre, ClickIs, BeginTypes DEF Starts
  <1> QED BY <1>1, <1>3, <1>4, <1>5, ShownIs

\* The tick box.
LEMMA CheckIs ==
  ASSUME Types, NEW t \in Task, Check(t)
  PROVE  /\ page = "important" /\ t \in DOMAIN list
         /\ Starts("check", t, list, "done") /\ Types' /\ fresh' = (fresh /\ Busy = {})
         /\ UNCHANGED <<list, armed, modal, undo, form, moved, recorded>>
  <1>1. Fits("check", t, list, "done")
    BY TypesAre DEF Fits, Kind
  <1>2. /\ page = "important" /\ t \in Shown /\ Click
        /\ Begin("check", t, list, "done") /\ fresh' = (fresh /\ Busy = {})
        /\ UNCHANGED <<list, armed, modal, undo, form, moved, recorded, db, page, missed, lost,
                       isLoading, voiceOpen>>
    BY DEF Check, handleCheck, Steady, shell, timer
  <1>3. Starts("check", t, list, "done")
    BY <1>1, <1>2, BeginIs DEF Starts
  <1>4. Types'
    BY <1>2, <1>3, TypesAre, ClickIs, BeginTypes DEF Starts
  <1> QED BY <1>2, <1>3, <1>4, ShownIs

\* Keeping a zombie.
LEMMA KeepIs ==
  ASSUME Types, KeepZombie
  PROVE  /\ modal \in Task /\ modal # NoTask /\ modal' = NoTask
         /\ Starts("snooze", modal, list, "request") /\ Types'
         /\ list' = optimistic("snooze", modal, list)
         /\ fresh' = (fresh /\ Busy = {} /\ (undo # NoUndo => undo.arg # modal))
         /\ UNCHANGED <<armed, undo, form, moved, recorded>>
  <1>1. modal \in Task /\ Fits("snooze", modal, list, "request")
    BY TypesAre DEF KeepZombie, Fits, Kind
  <1>2. /\ modal # NoTask /\ modal' = NoTask /\ Begin("snooze", modal, list, "request")
        /\ list' = optimistic("snooze", modal, list)
        /\ fresh' = (fresh /\ Busy = {} /\ (undo # NoUndo => undo.arg # modal))
        /\ UNCHANGED <<armed, undo, form, moved, recorded, db, page, missed, lost, isLoading,
                       voiceOpen, clicks>>
    BY DEF KeepZombie, mutate, Steady, timer
  <1>3. Starts("snooze", modal, list, "request")
    BY <1>1, <1>2, BeginIs DEF Starts
  <1>4. Types'
    <2>1. IsList(list')
      BY <1>2, OptimisticIs, TypesAre
    <2>2. fresh' \in BOOLEAN
      BY <1>2, TypesAre
    <2> QED BY <1>2, <1>3, <2>1, <2>2, TypesAre, BeginTypes DEF Starts
  <1> QED BY <1>1, <1>2, <1>3, <1>4

\* Archiving a zombie.
LEMMA ArchiveIs ==
  ASSUME Types, ArchiveZombie
  PROVE  /\ modal \in Task /\ modal # NoTask /\ modal' = NoTask
         /\ Starts("archive", modal, list, "request") /\ Types'
         /\ list' = optimistic("archive", modal, list)
         /\ moved' = moved \union {modal} /\ fresh' = (fresh /\ Busy = {})
         /\ \/ page = "today" /\ undo' = undo
            \/ page # "today" /\ modal \notin DOMAIN list /\ undo' = NoUndo
            \/ /\ page # "today" /\ modal \in DOMAIN list
               /\ undo' = [kind |-> "restore", arg |-> modal, delay |-> list[modal], live |-> TRUE]
         /\ UNCHANGED <<armed, form, recorded>>
  <1>1. modal \in Task /\ Fits("archive", modal, list, "request")
    BY TypesAre DEF ArchiveZombie, Fits, Kind
  <1>2. /\ modal # NoTask /\ modal' = NoTask /\ Begin("archive", modal, list, "request")
        /\ list' = optimistic("archive", modal, list)
        /\ moved' = moved \union {modal} /\ fresh' = (fresh /\ Busy = {})
        /\ UNCHANGED <<armed, form, recorded, db, page, missed, lost, isLoading, voiceOpen, clicks>>
    BY DEF ArchiveZombie, mutate, Steady, timer
  <1>3. /\ \/ page = "today" /\ undo' = undo
           \/ page # "today" /\ modal \notin DOMAIN list /\ undo' = NoUndo
           \/ /\ page # "today" /\ modal \in DOMAIN list
              /\ undo' = [kind |-> "restore", arg |-> modal, delay |-> list[modal], live |-> TRUE]
    <2>1. PICK r : r = [kind |-> "restore", arg |-> modal, delay |-> list[modal], live |-> TRUE]
      OBVIOUS
    <2>2. undo' = CASE page = "today" -> undo
                     [] page # "today" /\ modal \in DOMAIN list -> r
                     [] OTHER -> NoUndo
      BY <2>1 DEF ArchiveZombie
    <2>3. page = "today" => undo' = undo
      BY <2>2
    <2>4. page # "today" /\ modal \in DOMAIN list => undo' = r
      BY <2>2
    <2>5. page # "today" /\ modal \notin DOMAIN list => undo' = NoUndo
      BY <2>2
    <2> QED BY <2>1, <2>3, <2>4, <2>5
  <1>4. Starts("archive", modal, list, "request")
    BY <1>1, <1>2, BeginIs DEF Starts
  <1>5. undo' \in Undos
    <2>1. ASSUME modal \in DOMAIN list PROVE list[modal] \in Nat
      BY <2>1, TypesAre DEF IsList
    <2>2. CASE modal \in DOMAIN list
      <3>1. [kind |-> "restore", arg |-> modal, delay |-> list[modal], live |-> TRUE] \in Undos
        BY <1>1, <2>1, <2>2 DEF Undos
      <3> QED BY <1>3, <2>2, <3>1, TypesAre
    <2>3. CASE modal \notin DOMAIN list
      BY <1>3, <2>3, TypesAre DEF Undos
    <2> QED BY <2>2, <2>3
  <1>6. Types'
    <2>1. IsList(list')
      BY <1>2, OptimisticIs, TypesAre
    <2> QED BY <1>1, <1>2, <1>4, <1>5, <2>1, TypesAre, BeginTypes DEF Starts
  <1> QED BY <1>1, <1>2, <1>3, <1>4, <1>6

\* Bringing a task back from the archive.
LEMMA RestoreIs ==
  ASSUME Types, NEW t \in Task, restore(t)
  PROVE  /\ page = "archive" /\ t \in DOMAIN list
         /\ Starts("restore", t, <<>>, "request") /\ Types'
         /\ list' = optimistic("drop", t, list) /\ undo' = NoUndo
         /\ moved' = moved \union {t} /\ fresh' = (fresh /\ Busy = {})
         /\ UNCHANGED <<armed, form, recorded, modal>>
  <1>1. Fits("restore", t, <<>>, "request")
    BY EmptyList DEF Fits, Kind
  <1>2. /\ page = "archive" /\ t \in Shown /\ Click /\ Begin("restore", t, <<>>, "request")
        /\ list' = optimistic("drop", t, list) /\ undo' = NoUndo
        /\ moved' = moved \union {t} /\ fresh' = (fresh /\ Busy = {})
        /\ UNCHANGED <<armed, form, recorded, modal, db, page, missed, lost, isLoading, voiceOpen>>
    BY DEF restore, drop, Steady, timer
  <1>3. Starts("restore", t, <<>>, "request")
    BY <1>1, <1>2, BeginIs DEF Starts
  <1>4. IsList(list') /\ NoUndo \in Undos
    BY <1>2, OptimisticIs, TypesAre DEF Undos
  <1>5. Types'
    BY <1>2, <1>3, <1>4, TypesAre, ClickIs, BeginTypes DEF Starts
  <1> QED BY <1>2, <1>3, <1>5, ShownIs

\* Deleting a task of the archive.
LEMMA RemoveIs ==
  ASSUME Types, NEW t \in Task, remove(t)
  PROVE  /\ page = "archive" /\ t \in DOMAIN list
         /\ Starts("delete", t, <<>>, "request") /\ Types'
         /\ list' = optimistic("drop", t, list)
         /\ undo' = [kind |-> "recreate", arg |-> t, delay |-> list[t], live |-> TRUE]
         /\ fresh' = (fresh /\ Busy = {})
         /\ UNCHANGED <<armed, form, recorded, modal, moved>>
  <1>1. Fits("delete", t, <<>>, "request")
    BY EmptyList DEF Fits, Kind
  <1>2. /\ page = "archive" /\ t \in Shown /\ Click /\ Begin("delete", t, <<>>, "request")
        /\ list' = optimistic("drop", t, list)
        /\ undo' = [kind |-> "recreate", arg |-> t,
                    delay |-> IF t \in DOMAIN list THEN list[t] ELSE 0, live |-> TRUE]
        /\ fresh' = (fresh /\ Busy = {})
        /\ UNCHANGED <<armed, form, recorded, modal, moved, db, page, missed, lost, isLoading,
                       voiceOpen>>
    BY DEF remove, drop, Steady, timer
  <1>3. Starts("delete", t, <<>>, "request")
    BY <1>1, <1>2, BeginIs DEF Starts
  <1>4. t \in DOMAIN list /\ list[t] \in Nat
    BY <1>2, ShownIs, TypesAre DEF IsList
  <1>5. undo' = [kind |-> "recreate", arg |-> t, delay |-> list[t], live |-> TRUE]
    BY <1>2, <1>4
  <1>6. IsList(list') /\ undo' \in Undos
    BY <1>2, <1>4, <1>5, OptimisticIs, TypesAre DEF Undos
  <1>7. Types'
    BY <1>2, <1>3, <1>6, TypesAre, ClickIs, BeginTypes DEF Starts
  <1> QED BY <1>2, <1>3, <1>4, <1>5, <1>7

\* The button of the toast.
LEMMA UndoIs ==
  ASSUME Types, Undo
  PROVE  /\ undo # NoUndo /\ undo' = NoUndo
         /\ undo \in [kind : {"restore", "recreate"}, arg : Task, delay : Nat, live : BOOLEAN]
         /\ Starts(undo.kind, undo.arg, <<>>, "request") /\ Types'
         /\ list' = IF undo.live THEN Reinserted(list, undo.arg, undo.delay) ELSE list
         /\ fresh' = (fresh /\ Busy = {} /\ undo.live)
         /\ UNCHANGED <<armed, form, recorded, modal, moved>>
  <1>1. /\ undo # NoUndo /\ undo' = NoUndo /\ Begin(undo.kind, undo.arg, <<>>, "request")
        /\ list' = IF undo.live THEN Reinserted(list, undo.arg, undo.delay) ELSE list
        /\ fresh' = (fresh /\ Busy = {} /\ undo.live)
        /\ UNCHANGED <<armed, form, recorded, modal, moved, db, page, missed, lost, isLoading,
                       voiceOpen, clicks>>
    BY DEF Undo, Steady, timer
  <1>2. undo \in [kind : {"restore", "recreate"}, arg : Task, delay : Nat, live : BOOLEAN]
    BY <1>1, TypesAre DEF Undos
  <1>3. Fits(undo.kind, undo.arg, <<>>, "request")
    BY <1>2, EmptyList DEF Fits, Kind
  <1>4. Starts(undo.kind, undo.arg, <<>>, "request")
    BY <1>1, <1>3, BeginIs DEF Starts
  <1>5. IsList(list') /\ undo' \in Undos /\ fresh' \in BOOLEAN
    BY <1>1, <1>2, ReinsertedIs, TypesAre DEF Undos
  <1>6. Types'
    BY <1>1, <1>4, <1>5, TypesAre, BeginTypes DEF Starts
  <1> QED BY <1>1, <1>2, <1>4, <1>6

\* Creating a task by the form, or the quick way.
LEMMA CreateIs ==
  ASSUME Types, NEW t \in Task, SubmitForm(t) \/ QuickAdd(t)
  PROVE  /\ page = "today" \/ form.open
         /\ db.status[t] = "NONE"
         /\ \A s \in Busy : ops[s].kind \in {"post", "voice"} => ops[s].arg # t
         /\ Starts("post", t, <<>>, "request") /\ Types'
         /\ fresh' = (fresh /\ Busy = {}) /\ form'.open = form.open
         /\ UNCHANGED <<list, armed, modal, undo, moved, recorded>>
  <1>1. (page = "today" \/ form.open) /\ handleCreate(t)
    BY DEF SubmitForm, QuickAdd
  <1>2. Fits("post", t, <<>>, "request")
    BY EmptyList DEF Fits, Kind
  <1>3. /\ db.status[t] = "NONE"
        /\ \A s \in Busy : ops[s].kind \in {"post", "voice"} => ops[s].arg # t
        /\ Click /\ Begin("post", t, <<>>, "request")
        /\ form' = [form EXCEPT !.creating = TRUE, !.error = FALSE]
        /\ fresh' = (fresh /\ Busy = {})
        /\ UNCHANGED <<list, armed, modal, undo, moved, recorded, db, page, missed, lost, isLoading,
                       voiceOpen>>
    BY <1>1 DEF handleCreate, Steady, timer
  <1>4. Starts("post", t, <<>>, "request")
    BY <1>2, <1>3, BeginIs DEF Starts
  <1>5. /\ form' \in [open : BOOLEAN, creating : BOOLEAN, error : BOOLEAN]
        /\ form'.open = form.open
    BY <1>3, TypesAre
  <1>6. Types'
    BY <1>3, <1>4, <1>5, TypesAre, ClickIs, BeginTypes DEF Starts
  <1> QED BY <1>1, <1>3, <1>4, <1>5, <1>6

\* Setting the available time.
LEMMA SetIs ==
  ASSUME Types, NEW seconds \in Total, updateAvailable(seconds)
  PROVE  /\ page = "today"
         /\ Starts("set", seconds, <<>>, "request") /\ Types' /\ fresh' = (fresh /\ Busy = {})
         /\ UNCHANGED <<list, armed, modal, undo, form, moved, recorded>>
  <1>1. Fits("set", seconds, <<>>, "request")
    BY EmptyList DEF Fits, Kind, TaskKind
  <1>2. /\ page = "today" /\ Click
        /\ Begin("set", seconds, <<>>, "request") /\ fresh' = (fresh /\ Busy = {})
        /\ UNCHANGED <<list, armed, modal, undo, form, moved, recorded, db, page, missed, lost,
                       isLoading, voiceOpen>>
    BY DEF updateAvailable, Steady, shell, timer
  <1>3. Starts("set", seconds, <<>>, "request")
    BY <1>1, <1>2, BeginIs DEF Starts
  <1>4. Types'
    BY <1>2, <1>3, TypesAre, ClickIs, BeginTypes DEF Starts
  <1> QED BY <1>2, <1>3, <1>4

\* The debounced load.
LEMMA FetchIs ==
  ASSUME Types, fetchTasks
  PROVE  /\ armed = TRUE /\ armed' = FALSE
         /\ Starts("fetch", NoTask, <<>>, "request") /\ Types' /\ fresh' = (fresh /\ Busy = {})
         /\ UNCHANGED <<list, modal, undo, form, moved, recorded>>
  <1>1. Fits("fetch", NoTask, <<>>, "request")
    BY EmptyList DEF Fits, Kind, TaskKind
  <1>2. /\ armed /\ armed' = FALSE
        /\ Begin("fetch", NoTask, <<>>, "request") /\ fresh' = (fresh /\ Busy = {})
        /\ UNCHANGED <<list, modal, undo, form, moved, recorded, db, page, missed, lost,
                       isLoading, voiceOpen, clicks>>
    BY DEF fetchTasks, shell, timer
  <1>3. Starts("fetch", NoTask, <<>>, "request")
    BY <1>1, <1>2, BeginIs DEF Starts
  <1>4. Types'
    BY <1>2, <1>3, TypesAre, BeginTypes DEF Starts
  <1> QED BY <1>2, <1>3, <1>4, TypesAre

\* The creation of a sentence.
LEMMA VoiceIs ==
  ASSUME Types, NEW c \in chains, c.arg \in Task, c.at = "wait", Create(c)
  PROVE  /\ Starts("voice", c.arg, <<>>, "request") /\ Types' /\ fresh' = FALSE
         /\ chains' = chains \ {c} /\ UNCHANGED <<supported, cancelRef, stage, voiceOpen>>
         /\ UNCHANGED <<list, armed, modal, undo, form, moved, recorded>>
  <1>1. Fits("voice", c.arg, <<>>, "request")
    BY EmptyList DEF Fits, Kind
  <1>2. /\ Begin("voice", c.arg, <<>>, "request") /\ fresh' = FALSE
        /\ chains' = chains \ {c} /\ UNCHANGED <<supported, cancelRef, stage, voiceOpen>>
        /\ UNCHANGED <<list, armed, modal, undo, form, moved, recorded, db, page, missed, lost,
                       isLoading, clicks>>
    BY DEF Create, Steady, shell, timer
  <1>3. Starts("voice", c.arg, <<>>, "request")
    BY <1>1, <1>2, BeginIs DEF Starts
  <1>4. Types'
    BY <1>2, <1>3, TypesAre, BeginTypes DEF Starts
  <1> QED BY <1>2, <1>3, <1>4

-----------------------------------------------------------------------------
(* The service. *)

DbType == [status : [Task -> RowStatus], delay : [Task -> Nat], total : Total,
           unpriced : SUBSET Task]
LoadKind == {"fetch", "items", "completed", "refetch"}

\* A change of status is one of one task.
LEMMA UpdateIs ==
  ASSUME db \in DbType, NEW t \in Task,
         NEW action \in {"complete", "refund", "archive", "restore", "snooze"},
         NEW d, d = updateTaskStatus(db, t, action)
  PROVE  /\ d \in DbType
         /\ \A u \in Task \ {t} : d.status[u] = db.status[u] /\ d.delay[u] = db.delay[u]
         /\ ~Stored(db, t) => d = db
         /\ Stored(db, t) =>
               /\ d.status[t] = IF action \in {"complete", "refund"} THEN "COMPLETED"
                                ELSE IF action = "archive" THEN "ARCHIVED"
                                ELSE IF action = "restore" THEN "PENDING" ELSE db.status[t]
               /\ d.delay[t] = IF action = "snooze" THEN db.delay[t] + 1 ELSE db.delay[t]
  <1>1. CASE ~Stored(db, t)
    BY <1>1 DEF updateTaskStatus
  <1>2. CASE Stored(db, t) /\ action \in {"complete", "refund"}
    <2>1. d = [db EXCEPT !.status[t] = "COMPLETED"]
      BY <1>2 DEF updateTaskStatus
    <2> QED BY <1>2, <2>1 DEF DbType, RowStatus
  <1>3. CASE Stored(db, t) /\ action = "archive"
    <2>1. d = [db EXCEPT !.status[t] = "ARCHIVED"]
      BY <1>3 DEF updateTaskStatus
    <2> QED BY <1>3, <2>1 DEF DbType, RowStatus
  <1>4. CASE Stored(db, t) /\ action = "restore"
    <2>1. d = [db EXCEPT !.status[t] = "PENDING"]
      BY <1>4 DEF updateTaskStatus
    <2> QED BY <1>4, <2>1 DEF DbType, RowStatus
  <1>5. CASE Stored(db, t) /\ action = "snooze"
    <2>1. d = [db EXCEPT !.delay[t] = @ + 1]
      BY <1>5 DEF updateTaskStatus
    <2> QED BY <1>5, <2>1 DEF DbType, RowStatus
  <1> QED BY <1>1, <1>2, <1>3, <1>4, <1>5

\* A request to another task, or to none, changes neither status nor delay of a task.
LEMMA EffectIs ==
  ASSUME Types, NEW s \in Busy, ops[s].at = "request", NEW d, d = Effect(ops[s]),
         NEW t, t = ops[s].arg
  PROVE  /\ d \in DbType
         /\ ops[s].kind \in LoadKind \union {"set"} => d.status = db.status /\ d.delay = db.delay
         /\ ops[s].kind \notin LoadKind \union {"set"} =>
               /\ t \in Task /\ ops[s].kind \in TaskKind \ {"check"}
               /\ \A u \in Task \ {t} : d.status[u] = db.status[u] /\ d.delay[u] = db.delay[u]
         /\ ops[s].kind = "post" =>
               /\ d.status[t] = IF CreateRefused(db, t) THEN db.status[t] ELSE "PENDING"
               /\ d.delay[t] = db.delay[t]
         /\ ops[s].kind = "voice" => d.status[t] = "PENDING" /\ d.delay[t] = db.delay[t]
         /\ ops[s].kind = "delete" =>
               /\ d.status[t] = IF Stored(db, t) THEN "DELETED" ELSE db.status[t]
               /\ d.delay[t] = db.delay[t]
         /\ ops[s].kind = "recreate" =>
               /\ d.status[t] = IF Stored(db, t) THEN db.status[t] ELSE "ARCHIVED"
               /\ d.delay[t] = db.delay[t]
         /\ ops[s].kind \in {"refund", "complete"} =>
               /\ d.status[t] = IF Stored(db, t) THEN "COMPLETED" ELSE db.status[t]
               /\ d.delay[t] = db.delay[t]
         /\ ops[s].kind = "archive" =>
               /\ d.status[t] = IF Stored(db, t) THEN "ARCHIVED" ELSE db.status[t]
               /\ d.delay[t] = db.delay[t]
         /\ ops[s].kind = "restore" =>
               /\ d.status[t] = IF Stored(db, t) THEN "PENDING" ELSE db.status[t]
               /\ d.delay[t] = db.delay[t]
         /\ ops[s].kind = "snooze" =>
               /\ d.status[t] = db.status[t]
               /\ d.delay[t] = IF Stored(db, t) THEN db.delay[t] + 1 ELSE db.delay[t]
  <1>1. IsOp(ops[s]) /\ db \in DbType /\ ops[s].kind # "check"
    BY DEF Types, PageTypes, ArgsFit, DbType
  <1>2. /\ ops[s].kind \in Kind
        /\ ops[s].kind \in TaskKind => t \in Task
        /\ ops[s].kind = "set" => t \in Total
    BY <1>1, OpIs DEF Types, ArgsFit
  <1>3. CASE ops[s].kind \in LoadKind
    <2>1. d = db
      BY <1>3 DEF Effect, LoadKind
    <2> QED BY <1>1, <1>3, <2>1 DEF LoadKind
  <1>4. CASE ops[s].kind = "set"
    <2>1. d = db \/ d = [db EXCEPT !.total = t]
      BY <1>4 DEF Effect, setAvailableTime
    <2> QED BY <1>1, <1>2, <1>4, <2>1 DEF DbType, LoadKind
  <1>5. CASE ops[s].kind = "post"
    <2>1. t \in Task /\ d = IF CreateRefused(db, t) THEN db ELSE [db EXCEPT !.status[t] = "PENDING"]
      BY <1>2, <1>5 DEF Effect, createTaskWithBudget, TaskKind
    <2> QED BY <1>1, <1>5, <2>1 DEF DbType, RowStatus, LoadKind, TaskKind
  <1>6. CASE ops[s].kind = "voice"
    <2>1. t \in Task /\ d = [db EXCEPT !.status[t] = "PENDING", !.unpriced = @ \union {t}]
      BY <1>2, <1>6 DEF Effect, createUnchecked, TaskKind
    <2>2. PICK e : e = [db EXCEPT !.status[t] = "PENDING"]
      OBVIOUS
    <2>3. e \in DbType /\ e.delay = db.delay /\ e.status = [db.status EXCEPT ![t] = "PENDING"]
      BY <1>1, <2>1, <2>2 DEF DbType, RowStatus
    <2>4. d = [e EXCEPT !.unpriced = @ \union {t}]
      BY <2>1, <2>2
    <2>5. d \in DbType /\ d.delay = db.delay /\ d.status = [db.status EXCEPT ![t] = "PENDING"]
      BY <2>1, <2>3, <2>4 DEF DbType
    <2> QED BY <1>1, <1>6, <2>1, <2>5 DEF DbType, LoadKind, TaskKind
  <1>7. CASE ops[s].kind = "delete"
    <2>1. t \in Task /\ d = IF Stored(db, t) THEN [db EXCEPT !.status[t] = "DELETED"] ELSE db
      BY <1>2, <1>7 DEF Effect, deleteTask, TaskKind
    <2> QED BY <1>1, <1>7, <2>1 DEF DbType, RowStatus, LoadKind, TaskKind
  <1>8. CASE ops[s].kind = "recreate"
    <2>1. t \in Task /\ d = IF Stored(db, t) THEN db ELSE [db EXCEPT !.status[t] = "ARCHIVED"]
      BY <1>2, <1>8 DEF Effect, recreateTask, TaskKind
    <2> QED BY <1>1, <1>8, <2>1 DEF DbType, RowStatus, LoadKind, TaskKind
  <1>9. CASE ops[s].kind \in {"complete", "refund", "archive", "restore", "snooze"}
    <2>1. t \in Task /\ d = updateTaskStatus(db, t, ops[s].kind)
      BY <1>2, <1>9 DEF Effect, TaskKind
    <2>2. /\ d \in DbType
          /\ \A u \in Task \ {t} : d.status[u] = db.status[u] /\ d.delay[u] = db.delay[u]
          /\ ~Stored(db, t) => d = db
          /\ Stored(db, t) =>
                /\ d.status[t] = IF ops[s].kind \in {"complete", "refund"} THEN "COMPLETED"
                                 ELSE IF ops[s].kind = "archive" THEN "ARCHIVED"
                                 ELSE IF ops[s].kind = "restore" THEN "PENDING" ELSE db.status[t]
                /\ d.delay[t] = IF ops[s].kind = "snooze" THEN db.delay[t] + 1 ELSE db.delay[t]
      BY <1>1, <1>9, <2>1, UpdateIs
    <2> QED BY <1>9, <2>1, <2>2 DEF LoadKind, TaskKind
  <1>10. ops[s].kind \in {"complete", "refund", "archive", "restore", "snooze", "recreate", "delete",
                          "voice", "post", "set"} \union LoadKind
    BY <1>1, <1>2 DEF Kind, LoadKind
  <1> QED BY <1>3, <1>4, <1>5, <1>6, <1>7, <1>8, <1>9, <1>10

\* What the service and the network leave alone.
PageIs == UNCHANGED <<page, list, armed, recorded, modal, undo, form, moved, isLoading, voiceOpen,
                      clicks>>

\* What the service leaves alone.
LEMMA ServeTyped ==
  ASSUME Types, NEW s \in Slot, Serve(s)
  PROVE  /\ s \in Busy /\ db' = Effect(ops[s]) /\ UNCHANGED <<fresh, missed>> /\ PageIs /\ Types'
  <1>1. s \in Busy /\ db' = Effect(ops[s]) /\ UNCHANGED <<fresh, missed, lost>> /\ PageIs
    BY DEF Serve, PageIs, PageStill, timer, shell
  <1>2. ops[s].at = "request" /\ OpsTyped'
    BY ServeIs
  <1>3. db' \in DbType
    BY <1>1, <1>2, EffectIs
  <1>4. Types'
    BY <1>1, <1>2, <1>3 DEF Types, PageTypes, OpsTyped, PageIs, DbType
  <1> QED BY <1>1, <1>4

\* What a loss leaves alone, and when the list is still known to agree.
LEMMA LoseTyped ==
  ASSUME Types, NEW s \in Slot, LoseRequest(s) \/ LoseAnswer(s)
  PROVE  /\ s \in Busy /\ db' = db /\ PageIs /\ Types' /\ (fresh' => fresh)
         /\ LoseRequest(s) =>
               /\ ops[s].at = "request"
               /\ fresh' = (fresh /\ ops[s].kind \in HarmlessRequest
                            /\ (ops[s].kind = "complete" => db.status[ops[s].arg] # "COMPLETED"))
               /\ missed' = IF ops[s].kind \in {"refund", "complete"}
                            THEN [missed EXCEPT ![ops[s].arg] = @ + 1] ELSE missed
         /\ LoseAnswer(s) =>
               /\ ops[s].at = "done" /\ missed' = missed
               /\ fresh' = (fresh /\ ops[s].kind \in HarmlessAnswer)
  <1>1. s \in Busy /\ db' = db /\ PageIs /\ lost < MaxLost /\ lost' = lost + 1
    BY DEF LoseRequest, LoseAnswer, PageIs, PageStill, timer, shell
  <1>2. /\ LoseRequest(s) =>
               /\ ops[s].at = "request"
               /\ fresh' = (fresh /\ ops[s].kind \in HarmlessRequest
                            /\ (ops[s].kind = "complete" => db.status[ops[s].arg] # "COMPLETED"))
               /\ missed' = IF ops[s].kind \in {"refund", "complete"}
                            THEN [missed EXCEPT ![ops[s].arg] = @ + 1] ELSE missed
        /\ LoseAnswer(s) =>
               /\ ops[s].at = "done" /\ missed' = missed
               /\ fresh' = (fresh /\ ops[s].kind \in HarmlessAnswer)
    BY DEF LoseRequest, LoseAnswer
  <1>3. missed' \in [Task -> Nat] /\ fresh' \in BOOLEAN /\ lost' \in 0 .. MaxLost
    <2>1. missed \in [Task -> Nat] /\ fresh \in BOOLEAN /\ lost \in 0 .. MaxLost
      BY DEF Types, PageTypes
    <2>2. ops[s].kind \in {"refund", "complete"} => ops[s].arg \in Task
      BY <1>1 DEF Types, ArgsFit, TaskKind
    <2>3. missed' \in [Task -> Nat]
      <3>1. CASE LoseRequest(s) /\ ops[s].kind \in {"refund", "complete"}
        BY <1>2, <2>1, <2>2, <3>1
      <3>2. CASE ~(LoseRequest(s) /\ ops[s].kind \in {"refund", "complete"})
        BY <1>2, <2>1, <3>2
      <3> QED BY <3>1, <3>2
    <2>4. fresh' \in BOOLEAN
      BY <1>2, <2>1
    <2>5. lost' \in 0 .. MaxLost
      BY <1>1, <2>1, PageAssumption
    <2> QED BY <2>3, <2>4, <2>5
  <1>4. Types'
    BY <1>1, <1>3, LoseIs DEF Types, PageTypes, OpsTyped, PageIs
  <1> QED BY <1>1, <1>2, <1>4

-----------------------------------------------------------------------------
(* The functions go on. *)

\* What the code after an await leaves alone.
Calm == UNCHANGED <<db, page, armed, recorded, modal, moved, missed, voiceOpen, clicks, lost>>

\* The types, when a function goes on.
LEMMA CalmTypes ==
  ASSUME Types, Calm, OpsTyped', IsList(list'), {isLoading', fresh'} \subseteq BOOLEAN,
         undo' \in Undos, form' \in [open : BOOLEAN, creating : BOOLEAN, error : BOOLEAN]
  PROVE  Types'
  BY DEF Types, PageTypes, OpsTyped, Calm, Undos

\* The types of a function under way.
LEMMA BusyOp ==
  ASSUME Types, NEW s \in Busy
  PROVE  /\ IsOp(ops[s]) /\ IsList(ops[s].list) /\ {ops[s].live, ops[s].alone} \subseteq BOOLEAN
         /\ ops[s].kind \in Kind /\ s \in Slot /\ ops[s].at \in {"request", "done", "failed"}
  <1>1. IsOp(ops[s]) /\ s \in Slot
    BY DEF Types, PageTypes, Busy
  <1> QED BY <1>1, OpIs

\* After the refund, or the animation.
LEMMA CompleteNowIs ==
  ASSUME Types, NEW s \in Slot, CompleteNow(s)
  PROVE  /\ s \in Busy /\ ops[s].kind \in {"refund", "check"} /\ ops[s].at # "request"
         /\ GoesOn(s) /\ ops'[s].kind = "complete" /\ ops'[s].at = "request"
         /\ ops'[s].arg = ops[s].arg /\ ops'[s].list = ops[s].list
         /\ ops'[s].live = ops[s].live /\ ops'[s].alone = ops[s].alone
         /\ list' = IF ops[s].live THEN optimistic("complete", ops[s].arg, ops[s].list) ELSE list
         /\ Calm /\ UNCHANGED <<fresh, undo, form>> /\ Types'
  <1>1. /\ s \in Busy /\ ops[s].kind \in {"refund", "check"} /\ ops[s].at # "request"
        /\ ops' = [ops EXCEPT ![s].kind = "complete", ![s].at = "request"]
        /\ list' = IF ops[s].live THEN optimistic("complete", ops[s].arg, ops[s].list) ELSE list
        /\ Calm /\ UNCHANGED <<fresh, undo, form, isLoading>>
    BY DEF CompleteNow, Answered, Quiet, Calm, timer
  <1>2. /\ GoesOn(s) /\ OpsTyped' /\ ops'[s].kind = "complete" /\ ops'[s].at = "request"
        /\ ops'[s].arg = ops[s].arg /\ ops'[s].list = ops[s].list
        /\ ops'[s].live = ops[s].live /\ ops'[s].alone = ops[s].alone
    BY <1>1, NextRequestIs
  <1>3. IsList(list')
    BY <1>1, BusyOp, OptimisticIs, TypesAre
  <1>4. Types'
    BY <1>1, <1>2, <1>3, TypesAre, CalmTypes
  <1> QED BY <1>1, <1>2, <1>4

\* The end of a change, with its roll-back.
LEMMA SettleIs ==
  ASSUME Types, NEW s \in Slot, Settle(s)
  PROVE  /\ s \in Busy /\ ops[s].kind \in {"complete", "snooze", "archive"} /\ ops[s].at # "request"
         /\ Ended(s)
         /\ list' = IF ops[s].live /\ ops[s].at = "failed" THEN ops[s].list ELSE list
         /\ Calm /\ UNCHANGED <<fresh, undo, form>> /\ Types'
  <1>1. /\ s \in Busy /\ ops[s].kind \in {"complete", "snooze", "archive"} /\ ops[s].at # "request"
        /\ ops' = [ops EXCEPT ![s] = Free]
        /\ list' = IF ops[s].live /\ ops[s].at = "failed" THEN ops[s].list ELSE list
        /\ Calm /\ UNCHANGED <<fresh, undo, form, isLoading>>
    BY DEF Settle, Answered, End, Quiet, Calm, timer
  <1>2. Ended(s) /\ OpsTyped'
    BY <1>1, EndIs
  <1>3. IsList(list')
    BY <1>1, BusyOp, TypesAre
  <1>4. Types'
    BY <1>1, <1>2, <1>3, TypesAre, CalmTypes
  <1> QED BY <1>1, <1>2, <1>4

\* A list that arrives.
Arrives(s) ==
    /\ list' = IF Good(s) THEN ops[s].list ELSE list
    /\ fresh' = (fresh \/ (Good(s) /\ ops[s].alone))

\* The types of what arrives.
LEMMA LoadIsTyped ==
  ASSUME Types, NEW s \in Busy, Load(s)
  PROVE  Arrives(s) /\ IsList(list') /\ {isLoading', fresh'} \subseteq BOOLEAN
  <1>1. IsList(list')
    BY BusyOp, TypesAre DEF Load
  <1>2. isLoading' \in BOOLEAN /\ fresh' \in BOOLEAN
    BY BusyOp, TypesAre DEF Load
  <1> QED BY <1>1, <1>2 DEF Load, Arrives

\* A load of Today, Important or Archive ends.
LEMMA LoadedIs ==
  ASSUME Types, NEW s \in Slot, Loaded(s)
  PROVE  /\ s \in Busy /\ ops[s].kind \in {"fetch", "items"} /\ ops[s].at # "request"
         /\ Ended(s) /\ Arrives(s) /\ Calm /\ UNCHANGED <<undo, form>> /\ Types'
  <1>1. /\ s \in Busy /\ ops[s].kind \in {"fetch", "items"} /\ ops[s].at # "request"
        /\ ops' = [ops EXCEPT ![s] = Free] /\ Load(s)
        /\ Calm /\ UNCHANGED <<undo, form>>
    BY DEF Loaded, Answered, End, Quiet, Calm, timer
  <1>2. Ended(s) /\ OpsTyped'
    BY <1>1, EndIs
  <1>3. Arrives(s) /\ IsList(list') /\ {isLoading', fresh'} \subseteq BOOLEAN
    BY <1>1, LoadIsTyped
  <1>4. Types'
    BY <1>1, <1>2, <1>3, TypesAre, CalmTypes
  <1> QED BY <1>1, <1>2, <1>3, <1>4

\* The load after a creation ends.
LEMMA RefetchedIs ==
  ASSUME Types, NEW s \in Slot, Refetched(s)
  PROVE  /\ s \in Busy /\ ops[s].kind = "refetch" /\ ops[s].at # "request"
         /\ Ended(s) /\ Arrives(s) /\ Calm /\ undo' = undo /\ (form'.open => form.open) /\ Types'
  <1>1. /\ s \in Busy /\ ops[s].kind = "refetch" /\ ops[s].at # "request"
        /\ ops' = [ops EXCEPT ![s] = Free] /\ Load(s)
        /\ Calm /\ undo' = undo
        /\ form' = IF ops[s].live THEN [form EXCEPT !.creating = FALSE, !.open = FALSE] ELSE form
    BY DEF Refetched, Answered, End, Quiet, Calm, timer
  <1>2. Ended(s) /\ OpsTyped'
    BY <1>1, EndIs
  <1>3. Arrives(s) /\ IsList(list') /\ {isLoading', fresh'} \subseteq BOOLEAN
    BY <1>1, LoadIsTyped
  <1>4. /\ form' \in [open : BOOLEAN, creating : BOOLEAN, error : BOOLEAN]
        /\ form'.open => form.open
    BY <1>1, TypesAre
  <1>5. Types'
    BY <1>1, <1>2, <1>3, <1>4, TypesAre, CalmTypes
  <1> QED BY <1>1, <1>2, <1>3, <1>4, <1>5

\* The load of History ends.
LEMMA CompletedIs ==
  ASSUME Types, NEW s \in Slot, CompletedLoaded(s)
  PROVE  /\ s \in Busy /\ ops[s].kind = "completed" /\ ops[s].at # "request"
         /\ Ended(s) /\ Calm /\ UNCHANGED <<undo, form>> /\ Types'
         /\ list' = IF ops[s].live THEN loadCompleted ELSE list
         /\ fresh' = (fresh \/ (ops[s].live /\ ops[s].alone))
  <1>1. /\ s \in Busy /\ ops[s].kind = "completed" /\ ops[s].at # "request"
        /\ ops' = [ops EXCEPT ![s] = Free]
        /\ Calm /\ UNCHANGED <<undo, form>>
        /\ list' = IF ops[s].live THEN loadCompleted ELSE list
        /\ isLoading' = (isLoading /\ ~ops[s].live)
        /\ fresh' = (fresh \/ (ops[s].live /\ ops[s].alone))
    BY DEF CompletedLoaded, Answered, End, Quiet, Calm, timer
  <1>2. Ended(s) /\ OpsTyped'
    BY <1>1, EndIs
  <1>3. IsList(list') /\ isLoading' \in BOOLEAN /\ fresh' \in BOOLEAN
    BY <1>1, CompletedList, BusyOp, TypesAre
  <1>4. Types'
    BY <1>1, <1>2, <1>3, TypesAre, CalmTypes
  <1> QED BY <1>1, <1>2, <1>4

\* A creation is answered.
LEMMA PostedIs ==
  ASSUME Types, NEW s \in Slot, Posted(s)
  PROVE  /\ s \in Busy /\ ops[s].kind = "post" /\ ops[s].at # "request"
         /\ \/ /\ ops[s].at = "done"
               /\ GoesOn(s) /\ ops'[s].kind = "refetch" /\ ops'[s].at = "request"
               /\ ops'[s].arg = ops[s].arg /\ ops'[s].list = ops[s].list
               /\ ops'[s].live = ops[s].live /\ ops'[s].alone = ops[s].alone
            \/ ops[s].at = "failed" /\ Ended(s)
         /\ Calm /\ UNCHANGED <<list, fresh, undo>> /\ form'.open = form.open /\ Types'
  <1>1. /\ s \in Busy /\ ops[s].kind = "post" /\ ops[s].at # "request"
        /\ Calm /\ UNCHANGED <<list, fresh, undo, isLoading>>
    BY DEF Posted, Answered, Quiet, Calm, timer
  <1>2. CASE ops[s].at = "done"
    <2>1. ops' = [ops EXCEPT ![s].kind = "refetch", ![s].at = "request"] /\ form' = form
      BY <1>2 DEF Posted
    <2>2. /\ GoesOn(s) /\ OpsTyped' /\ ops'[s].kind = "refetch" /\ ops'[s].at = "request"
          /\ ops'[s].arg = ops[s].arg /\ ops'[s].list = ops[s].list
          /\ ops'[s].live = ops[s].live /\ ops'[s].alone = ops[s].alone
      BY <1>1, <2>1, NextRequestIs
    <2>3. Types'
      BY <1>1, <2>1, <2>2, TypesAre, CalmTypes
    <2> QED BY <1>1, <1>2, <2>1, <2>2, <2>3
  <1>3. CASE ops[s].at # "done"
    <2>1. /\ ops' = [ops EXCEPT ![s] = Free]
          /\ form' = IF ops[s].live THEN [form EXCEPT !.creating = FALSE, !.error = TRUE] ELSE form
      BY <1>3 DEF Posted, End
    <2>2. Ended(s) /\ OpsTyped' /\ ops[s].at = "failed"
      BY <1>1, <1>3, <2>1, EndIs, BusyOp
    <2>3. /\ form' \in [open : BOOLEAN, creating : BOOLEAN, error : BOOLEAN]
          /\ form'.open = form.open
      BY <2>1, TypesAre
    <2>4. Types'
      BY <1>1, <2>2, <2>3, TypesAre, CalmTypes
    <2> QED BY <1>1, <2>2, <2>3, <2>4
  <1> QED BY <1>2, <1>3

\* The calls whose answer nobody reads.
LEMMA ForgetIs ==
  ASSUME Types, NEW s \in Slot, Forget(s)
  PROVE  /\ s \in Busy /\ ops[s].kind \in {"restore", "delete", "recreate", "set"}
         /\ ops[s].at # "request"
         /\ Ended(s) /\ Calm /\ UNCHANGED <<list, fresh, undo, form>> /\ Types'
  <1>1. /\ s \in Busy /\ ops[s].kind \in {"restore", "delete", "recreate", "set"}
        /\ ops[s].at # "request" /\ ops' = [ops EXCEPT ![s] = Free]
        /\ Calm /\ UNCHANGED <<list, fresh, undo, form, isLoading>>
    BY DEF Forget, Answered, End, Quiet, Calm, timer
  <1>2. Ended(s) /\ OpsTyped'
    BY <1>1, EndIs
  <1>3. Types'
    BY <1>1, <1>2, TypesAre, CalmTypes
  <1> QED BY <1>1, <1>2, <1>3

\* A creation by voice is answered.
LEMMA CreatedIs ==
  ASSUME Types, NEW s \in Slot, Created(s)
  PROVE  /\ s \in Busy /\ ops[s].kind = "voice" /\ ops[s].at # "request"
         /\ Ended(s) /\ Calm /\ UNCHANGED <<list, fresh, form>> /\ undo' = NoUndo /\ Types'
         /\ UNCHANGED <<supported, cancelRef, stage>>
         /\ chains' \in {chains, chains \union {[at |-> "close", arg |-> ops[s].arg]}}
  <1>1. /\ s \in Busy /\ ops[s].kind = "voice" /\ ops[s].at # "request"
        /\ ops' = [ops EXCEPT ![s] = Free] /\ undo' = NoUndo
        /\ Calm /\ UNCHANGED <<list, fresh, form, isLoading>>
    BY DEF Created, Answered, End, Calm, timer
  <1>2. Ended(s) /\ OpsTyped'
    BY <1>1, EndIs
  <1>3. Types'
    BY <1>1, <1>2, TypesAre, CalmTypes DEF Undos
  <1>4. /\ UNCHANGED <<supported, cancelRef, stage>>
        /\ chains' \in {chains, chains \union {[at |-> "close", arg |-> ops[s].arg]}}
    BY DEF Created
  <1> QED BY <1>1, <1>2, <1>3, <1>4

\* Another page is shown.
LEMMA ShowTyped ==
  ASSUME Types, NEW p \in Page, Show(p), clicks' \in 0 .. MaxClick, voiceOpen' \in BOOLEAN
  PROVE  /\ page' = p /\ list' = <<>> /\ fresh' = FALSE /\ form' = Closed /\ modal' = NoTask
         /\ armed' = (Opening(p) = "none")
         /\ undo' = IF undo = NoUndo THEN undo ELSE [undo EXCEPT !.live = FALSE]
         /\ UNCHANGED <<db, recorded, moved, missed>> /\ Types'
  <1>1. /\ page' = p /\ list' = <<>> /\ isLoading' = TRUE /\ fresh' = FALSE /\ form' = Closed
        /\ modal' = NoTask /\ armed' = (Opening(p) = "none")
        /\ undo' = IF undo = NoUndo THEN undo ELSE [undo EXCEPT !.live = FALSE]
        /\ UNCHANGED <<db, recorded, moved, missed, lost>>
    BY DEF Show, timer
  <1>2. undo' \in Undos
    BY <1>1, TypesAre DEF Undos
  <1>3. /\ Closed \in [open : BOOLEAN, creating : BOOLEAN, error : BOOLEAN] /\ IsList(<<>>)
        /\ armed' \in BOOLEAN
    BY <1>1, EmptyList DEF Closed
  <1>4. OpsTyped'
    BY ShowIs
  <1>5. Types'
    BY <1>1, <1>2, <1>3, <1>4 DEF Types, PageTypes, OpsTyped, Undos
  <1> QED BY <1>1, <1>5

-----------------------------------------------------------------------------
(* The steps. *)

PageAction ==
    \/ \E t \in Task : Finish(t) \/ MiniFinish(t) \/ Check(t) \/ restore(t) \/ remove(t)
                       \/ SubmitForm(t) \/ QuickAdd(t)
    \/ KeepZombie \/ ArchiveZombie \/ Undo \/ fetchTasks
    \/ \E seconds \in Total : updateAvailable(seconds)
OpAction ==
    \E s \in Slot : \/ Serve(s) \/ LoseRequest(s) \/ LoseAnswer(s)
                    \/ CompleteNow(s) \/ Settle(s) \/ Loaded(s) \/ CompletedLoaded(s)
                    \/ Posted(s) \/ Refetched(s) \/ Forget(s)
ShowAction ==
    \E p \in Page : Show(p) /\ clicks' \in 0 .. MaxClick /\ voiceOpen' \in BOOLEAN
VoiceAction ==
    \/ \E c \in chains : c.at = "wait" /\ ~cancelRef /\ Create(c)
    \/ \E s \in Slot : Created(s)

\* The steps of the pages.
LEMMA NextCases ==
  ASSUME Types, Next
  PROVE  IdleAction \/ PageAction \/ OpAction \/ ShowAction
  <1>1. ASSUME NEW p \in Page, Navigate(p) PROVE ShowAction
    BY <1>1, ClickIs, TypesAre DEF Navigate, ShowAction
  <1> QED BY <1>1 DEF Next, IdleAction, PageAction, OpAction, Deliver

\* The steps of the dialog.
LEMMA VoiceCases ==
  ASSUME Types, Voice
  PROVE  IdleAction \/ VoiceAction \/ ShowAction
  <1>1. CASE onTrigger /\ page # "today"
    <2>1. Click /\ voiceOpen' = TRUE /\ Show("today")
      BY <1>1 DEF onTrigger
    <2>2. "today" \in Page
      BY DEF Page
    <2> QED BY <2>1, <2>2, ClickIs DEF ShowAction
  <1>2. ASSUME NEW c \in chains, createFromParsed(c) PROVE IdleAction \/ VoiceAction
    BY <1>2 DEF createFromParsed, IdleAction, VoiceAction
  <1> QED BY <1>1, <1>2 DEF Voice, Chain, IdleAction, VoiceAction

\* All steps.
LEMMA StepCases ==
  ASSUME Types, AppNext
  PROVE  IdleAction \/ PageAction \/ OpAction \/ ShowAction \/ VoiceAction
  BY NextCases, VoiceCases DEF AppNext

\* The types of the dialog.
VoiceTypes ==
    /\ chains \subseteq [at : {"parse", "wait", "close"}, arg : Task]
    /\ {supported, cancelRef} \subseteq BOOLEAN

\* Every step keeps the types.
LEMMA TypesKept ==
  ASSUME Types, VoiceTypes, AppNext
  PROVE  Types'
  <1>1. CASE IdleAction
    BY <1>1, IdleTyped
  <1>2. CASE PageAction
    BY <1>2, FinishIs, CheckIs, RestoreIs, RemoveIs, CreateIs, KeepIs, ArchiveIs, UndoIs,
         FetchIs, SetIs
       DEF PageAction
  <1>3. CASE OpAction
    BY <1>3, ServeTyped, LoseTyped, CompleteNowIs, SettleIs, LoadedIs, CompletedIs, PostedIs,
         RefetchedIs, ForgetIs
       DEF OpAction
  <1>4. CASE ShowAction
    BY <1>4, ShowTyped DEF ShowAction
  <1>5. CASE VoiceAction
    <2>1. ASSUME NEW c \in chains, c.at = "wait", Create(c) PROVE Types'
      BY <2>1, VoiceIs DEF VoiceTypes
    <2> QED BY <1>5, <2>1, CreatedIs DEF VoiceAction
  <1> QED BY <1>1, <1>2, <1>3, <1>4, <1>5, StepCases

-----------------------------------------------------------------------------
(* Pages. *)

\* The pages on which a function of a kind may still have an effect.
InPlace(kind, p) ==
    /\ kind = "items" => p = "archive"
    /\ kind = "completed" => p = "history"
    /\ kind \in {"fetch", "complete", "snooze", "archive"} => p \in {"today", "important"}
    /\ kind = "check" => p = "important"
    /\ kind \in {"post", "refetch", "refund"} => p = "today"
OpPlaces == \A s \in Busy : ops[s].live => InPlace(ops[s].kind, page)
ShellPlaces ==
    /\ modal # NoTask => page \in {"today", "important"}
    /\ form.open => page = "today"
    /\ armed => page \in {"today", "important"}
    /\ undo # NoUndo /\ undo.live => page = IF undo.kind = "restore" THEN "important" ELSE "archive"
Places == OpPlaces /\ ShellPlaces

\* A function begins where it belongs.
LEMMA OpPlacesBegun ==
  ASSUME OpPlaces, NEW kind, NEW arg, NEW snapshot, NEW at, Starts(kind, arg, snapshot, at),
         InPlace(kind, page)
  PROVE  OpPlaces'
  <1>1. PICK n \in Slot : BegunIn(n, kind, arg, snapshot, at)
    BY DEF Starts, Begun
  <1>2. ASSUME NEW s \in Busy', ops'[s].live PROVE InPlace(ops'[s].kind, page)
    <2>1. CASE s = n
      BY <1>1, <2>1 DEF BegunIn
    <2>2. CASE s \in Busy
      BY <1>1, <1>2, <2>2 DEF BegunIn, SameCall, OpPlaces
    <2> QED BY <1>1, <2>1, <2>2 DEF BegunIn
  <1> QED BY <1>2 DEF OpPlaces, Starts

\* A function goes on where it belongs.
LEMMA OpPlacesGoesOn ==
  ASSUME OpPlaces, NEW s, GoesOn(s), page' = page, ops'[s].live = ops[s].live,
         ops'[s].kind = ops[s].kind \/ (InPlace(ops[s].kind, page) => InPlace(ops'[s].kind, page))
  PROVE  OpPlaces'
  BY DEF OpPlaces, GoesOn, OthersStay

\* The others stay where they belong.
LEMMA OpPlacesEnded ==
  ASSUME OpPlaces, NEW s, Ended(s), page' = page
  PROVE  OpPlaces'
  BY DEF OpPlaces, Ended, OthersStay

\* What is left behind has no effect on another page.
LEMMA PlacesShow ==
  ASSUME Types, Places, NEW p \in Page, Show(p), clicks' \in 0 .. MaxClick, voiceOpen' \in BOOLEAN
  PROVE  Places'
  <1>1. Changed(p)
    BY ShowIs
  <1>2. /\ page' = p /\ form' = Closed /\ modal' = NoTask /\ armed' = (Opening(p) = "none")
        /\ undo' = IF undo = NoUndo THEN undo ELSE [undo EXCEPT !.live = FALSE]
    BY ShowTyped
  <1>3. OpPlaces'
    <2>1. CASE Opening(p) = "none"
      BY <1>1, <2>1 DEF Changed, Left, OpPlaces
    <2>2. CASE Opening(p) # "none"
      <3>1. PICK n \in Slot : LoadsIn(n, p)
        BY <1>1, <2>2 DEF Changed
      <3>2. InPlace(Opening(p), p)
        BY DEF Opening, InPlace
      <3>3. \A s \in Busy : ops'[s].live = FALSE
        BY <1>1 DEF Changed, Left
      <3> QED BY <1>2, <3>1, <3>2, <3>3 DEF LoadsIn, OpPlaces
    <2> QED BY <2>1, <2>2
  <1>4. ShellPlaces'
    <2>1. undo' # NoUndo => ~undo'.live
      BY <1>2, TypesAre DEF Undos
    <2> QED BY <1>2, <2>1 DEF ShellPlaces, Closed, Opening, Page
  <1> QED BY <1>3, <1>4 DEF Places

\* Every step keeps everything in its place.
LEMMA PlacesKept ==
  ASSUME Types, VoiceTypes, Places, AppNext
  PROVE  Places'
  <1> USE DEF Places
  <1>1. CASE IdleAction
    <2>1. Idle
      BY <1>1, IdleTyped
    <2>2. Busy' = Busy /\ OpPlaces'
      BY <2>1 DEF Idle, Busy, OpPlaces
    <2>3. ShellPlaces'
      BY <2>1, TypesAre DEF Idle, ShellPlaces
    <2> QED BY <2>2, <2>3
  <1>2. ASSUME NEW t \in Task, Finish(t) \/ MiniFinish(t) PROVE Places'
    BY <1>2, FinishIs, OpPlacesBegun DEF InPlace, ShellPlaces, Starts
  <1>3. ASSUME NEW t \in Task, Check(t) PROVE Places'
    BY <1>3, CheckIs, OpPlacesBegun DEF InPlace, ShellPlaces, Starts
  <1>4. CASE KeepZombie
    BY <1>4, KeepIs, OpPlacesBegun DEF InPlace, ShellPlaces, Starts
  <1>5. CASE ArchiveZombie
    <2>1. OpPlaces'
      BY <1>5, ArchiveIs, OpPlacesBegun DEF InPlace, ShellPlaces
    <2>2. ShellPlaces'
      <3>1. /\ modal # NoTask /\ modal' = NoTask /\ page' = page /\ UNCHANGED <<armed, form>>
            /\ \/ page = "today" /\ undo' = undo
               \/ page # "today" /\ modal \notin DOMAIN list /\ undo' = NoUndo
               \/ /\ page # "today" /\ modal \in DOMAIN list
                  /\ undo' = [kind |-> "restore", arg |-> modal, delay |-> list[modal], live |-> TRUE]
        BY <1>5, ArchiveIs DEF Starts
      <3>2. undo' # NoUndo /\ undo'.live =>
                page = IF undo'.kind = "restore" THEN "important" ELSE "archive"
        BY <3>1 DEF ShellPlaces
      <3> QED BY <3>1, <3>2 DEF ShellPlaces
    <2> QED BY <2>1, <2>2
  <1>6. ASSUME NEW t \in Task, restore(t) PROVE Places'
    BY <1>6, RestoreIs, OpPlacesBegun DEF InPlace, ShellPlaces, Starts
  <1>7. ASSUME NEW t \in Task, remove(t) PROVE Places'
    <2>1. OpPlaces'
      BY <1>7, RemoveIs, OpPlacesBegun DEF InPlace
    <2>2. ShellPlaces'
      <3>1. /\ page = "archive" /\ page' = page /\ UNCHANGED <<armed, form, modal>>
            /\ undo' = [kind |-> "recreate", arg |-> t, delay |-> list[t], live |-> TRUE]
        BY <1>7, RemoveIs DEF Starts
      <3>2. undo'.kind = "recreate"
        BY <3>1
      <3> QED BY <3>1, <3>2 DEF ShellPlaces
    <2> QED BY <2>1, <2>2
  <1>8. CASE Undo
    BY <1>8, UndoIs, OpPlacesBegun DEF InPlace, ShellPlaces, Starts
  <1>9. ASSUME NEW t \in Task, SubmitForm(t) \/ QuickAdd(t) PROVE Places'
    BY <1>9, CreateIs, OpPlacesBegun DEF InPlace, ShellPlaces, Starts
  <1>10. ASSUME NEW seconds \in Total, updateAvailable(seconds) PROVE Places'
    BY <1>10, SetIs, OpPlacesBegun DEF InPlace, ShellPlaces, Starts
  <1>11. CASE fetchTasks
    BY <1>11, FetchIs, OpPlacesBegun DEF InPlace, ShellPlaces, Starts
  <1>12. ASSUME NEW c \in chains, c.at = "wait", Create(c) PROVE Places'
    <2>1. c.arg \in Task
      BY DEF VoiceTypes
    <2> QED BY <1>12, <2>1, VoiceIs, OpPlacesBegun DEF InPlace, ShellPlaces, Starts
  <1>13. CASE ShowAction
    BY <1>13, PlacesShow DEF ShowAction
  <1>14. ASSUME NEW s \in Slot, Serve(s) PROVE Places'
    BY <1>14, ServeIs, ServeTyped, OpPlacesGoesOn DEF ShellPlaces, PageIs
  <1>15. ASSUME NEW s \in Slot, LoseRequest(s) \/ LoseAnswer(s) PROVE Places'
    BY <1>15, LoseIs, LoseTyped, OpPlacesGoesOn DEF ShellPlaces, PageIs
  <1>16. ASSUME NEW s \in Slot, CompleteNow(s) PROVE Places'
    BY <1>16, CompleteNowIs, OpPlacesGoesOn DEF ShellPlaces, Calm, InPlace
  <1>17. ASSUME NEW s \in Slot, Settle(s) PROVE Places'
    BY <1>17, SettleIs, OpPlacesEnded DEF ShellPlaces, Calm
  <1>18. ASSUME NEW s \in Slot, Loaded(s) PROVE Places'
    BY <1>18, LoadedIs, OpPlacesEnded DEF ShellPlaces, Calm
  <1>19. ASSUME NEW s \in Slot, CompletedLoaded(s) PROVE Places'
    BY <1>19, CompletedIs, OpPlacesEnded DEF ShellPlaces, Calm
  <1>20. ASSUME NEW s \in Slot, Posted(s) PROVE Places'
    BY <1>20, PostedIs, OpPlacesEnded, OpPlacesGoesOn DEF ShellPlaces, Calm, InPlace
  <1>21. ASSUME NEW s \in Slot, Refetched(s) PROVE Places'
    BY <1>21, RefetchedIs, OpPlacesEnded DEF ShellPlaces, Calm
  <1>22. ASSUME NEW s \in Slot, Forget(s) PROVE Places'
    BY <1>22, ForgetIs, OpPlacesEnded DEF ShellPlaces, Calm
  <1>23. ASSUME NEW s \in Slot, Created(s) PROVE Places'
    BY <1>23, CreatedIs, OpPlacesEnded DEF ShellPlaces, Calm
  <1> QED BY <1>1, <1>2, <1>3, <1>4, <1>5, <1>6, <1>7, <1>8, <1>9, <1>10, <1>11, <1>12, <1>13,
       <1>14, <1>15, <1>16, <1>17, <1>18, <1>19, <1>20, <1>21, <1>22, <1>23, StepCases
     DEF PageAction, OpAction, VoiceAction

-----------------------------------------------------------------------------
(* Which tasks are listed, archived or deleted. *)

Known == {t \in Task : db.status[t] # "NONE"}
Gone == {t \in Task : db.status[t] \in {"ARCHIVED", "DELETED"}}
Rolls == {"refund", "check", "complete", "snooze", "archive"}

\* The tasks of a function: those it archives or brings back were moved, and its list is
\* one of tasks that exist.
Traced(kind, arg, l, m) ==
    /\ kind \in {"archive", "restore", "delete", "recreate"} => arg \in m
    /\ kind \in Rolls => arg \in Known
    /\ DOMAIN l \subseteq Known
    /\ kind = "items" => DOMAIN l \subseteq m
OpsTraced == \A s \in Busy : Traced(ops[s].kind, ops[s].arg, ops[s].list, moved)
PageTraced ==
    /\ DOMAIN list \subseteq Known
    /\ page = "archive" => DOMAIN list \subseteq moved
    /\ modal # NoTask => modal \in Known
    /\ undo # NoUndo => undo.arg \in moved
MovedOnly ==
    /\ Gone \subseteq moved /\ moved \subseteq Known /\ recorded \subseteq Known
    /\ OpsTraced /\ PageTraced

\* Nothing but a step of the service changes these sets.
LEMMA SameDb ==
  ASSUME db' = db
  PROVE  Known' = Known /\ Gone' = Gone
  BY DEF Known, Gone

\* A function begins on tasks that exist.
LEMMA TracedBegun ==
  ASSUME OpsTraced, NEW kind, NEW arg, NEW snapshot, NEW at, Starts(kind, arg, snapshot, at),
         moved \subseteq moved', Traced(kind, arg, snapshot, moved')
  PROVE  OpsTraced'
  <1>1. PICK n \in Slot : BegunIn(n, kind, arg, snapshot, at)
    BY DEF Starts, Begun
  <1>2. Known' = Known
    BY SameDb DEF Starts
  <1>3. ASSUME NEW s \in Busy'
        PROVE  Traced(ops'[s].kind, ops'[s].arg, ops'[s].list, moved')
    <2>1. CASE s = n
      BY <1>1, <2>1 DEF BegunIn
    <2>2. CASE s \in Busy
      BY <1>1, <2>2 DEF BegunIn, SameCall, OpsTraced, Traced
    <2> QED BY <1>1, <1>3, <2>1, <2>2 DEF BegunIn
  <1> QED BY <1>2, <1>3 DEF OpsTraced, Traced

\* It keeps its task.
LEMMA TracedGoesOn ==
  ASSUME OpsTraced, NEW s, GoesOn(s), UNCHANGED <<db, moved>>, ops'[s].arg = ops[s].arg,
         ops'[s].list = ops[s].list,
         \/ ops'[s].kind = ops[s].kind
         \/ ops'[s].kind = "refetch"
         \/ ops[s].kind \in Rolls /\ ops'[s].kind = "complete"
  PROVE  OpsTraced'
  <1>1. Known' = Known
    BY SameDb
  <1> QED BY <1>1 DEF OpsTraced, GoesOn, OthersStay, Traced, Rolls

\* The others keep theirs.
LEMMA TracedEnded ==
  ASSUME OpsTraced, NEW s, Ended(s), UNCHANGED <<db, moved>>
  PROVE  OpsTraced'
  BY SameDb DEF OpsTraced, Ended, OthersStay, Traced

\* The service forgets no task, and puts none out of the way that was not moved.
LEMMA ServeKnown ==
  ASSUME Types, MovedOnly, NEW s \in Slot, Serve(s)
  PROVE  /\ Known \subseteq Known' /\ Gone' \subseteq moved
         /\ ops[s].kind \notin {"post", "voice"} => Known' = Known
         /\ ops[s].kind \in {"post", "voice"} => Known' \subseteq Known \union {ops[s].arg}
  <1> DEFINE t == ops[s].arg
  <1>1. s \in Busy /\ ops[s].at = "request" /\ db' = Effect(ops[s])
    BY ServeIs, ServeTyped
  <1>2. CASE ops[s].kind \in LoadKind \union {"set"}
    <2>1. db'.status = db.status
      BY <1>1, <1>2, EffectIs
    <2> QED BY <1>2, <2>1 DEF Known, Gone, MovedOnly, LoadKind
  <1>3. CASE ops[s].kind \notin LoadKind \union {"set"}
    <2>1. /\ t \in Task /\ ops[s].kind \in TaskKind \ {"check"}
          /\ \A u \in Task \ {t} : db'.status[u] = db.status[u]
      BY <1>1, <1>3, EffectIs
    <2>2. CASE ops[s].kind \in {"post", "voice"}
      <3>1. db'.status[t] \in {db.status[t], "PENDING"}
        BY <1>1, <2>2, EffectIs
      <3> QED BY <2>1, <2>2, <3>1 DEF Known, Gone, MovedOnly
    <2>3. CASE ops[s].kind \in {"delete", "recreate", "archive", "restore"}
      <3>1. t \in moved /\ db.status[t] # "NONE"
        BY <1>1, <2>3 DEF MovedOnly, OpsTraced, Traced, Known
      <3>2. db'.status[t] # "NONE"
        BY <1>1, <2>3, <3>1, EffectIs
      <3> QED BY <2>1, <2>3, <3>1, <3>2 DEF Known, Gone, MovedOnly
    <2>4. CASE ops[s].kind \in {"refund", "complete", "snooze"}
      <3>1. /\ db'.status[t] \in {db.status[t], "COMPLETED"}
            /\ db'.status[t] # db.status[t] => Stored(db, t)
        BY <1>1, <2>4, EffectIs
      <3>2. db.status[t] = "NONE" => ~Stored(db, t)
        BY DEF Stored
      <3> QED BY <2>1, <2>4, <3>1, <3>2 DEF Known, Gone, MovedOnly
    <2> QED BY <2>1, <2>2, <2>3, <2>4 DEF TaskKind
  <1> QED BY <1>2, <1>3

\* The service keeps account of the tasks that were moved.
LEMMA MovedServe ==
  ASSUME Types, MovedOnly, NEW s \in Slot, Serve(s)
  PROVE  MovedOnly'
  <1>1. Known \subseteq Known' /\ Gone' \subseteq moved
    BY ServeKnown
  <1>2. PageIs /\ s \in Busy
    BY ServeTyped
  <1>3. OpsTraced'
    <2>1. /\ GoesOn(s) /\ ops'[s].kind = ops[s].kind /\ ops'[s].arg = ops[s].arg
          /\ ops'[s].list = CASE ops[s].kind \in {"fetch", "refetch"} -> ListOf(db, "PENDING")
                             [] ops[s].kind = "items" -> ListOf(db, "ARCHIVED")
                             [] OTHER -> ops[s].list
      BY ServeIs
    <2>2. InStatus(db, "PENDING") \subseteq Known
      BY DEF InStatus, Known
    <2>3. InStatus(db, "ARCHIVED") \subseteq Known /\ InStatus(db, "ARCHIVED") \subseteq moved
      BY DEF InStatus, Known, MovedOnly, Gone
    <2>4. Traced(ops'[s].kind, ops'[s].arg, ops'[s].list, moved)
      <3>1. CASE ops[s].kind \in {"fetch", "refetch"}
        BY <1>2, <2>1, <2>2, <3>1, ListOfIs DEF Traced, Rolls
      <3>2. CASE ops[s].kind = "items"
        BY <1>2, <2>1, <2>3, <3>2, ListOfIs DEF Traced, Rolls
      <3>3. CASE ops[s].kind \notin {"fetch", "refetch", "items"}
        BY <1>2, <2>1, <3>3 DEF MovedOnly, OpsTraced
      <3> QED BY <3>1, <3>2, <3>3
    <2>5. ASSUME NEW u \in Busy' PROVE Traced(ops'[u].kind, ops'[u].arg, ops'[u].list, moved)
      <3>1. CASE u = s
        BY <2>4, <3>1
      <3>2. CASE u # s
        BY <2>1, <3>2 DEF MovedOnly, OpsTraced, GoesOn, OthersStay
      <3> QED BY <3>1, <3>2
    <2> QED BY <1>1, <1>2, <2>5 DEF OpsTraced, Traced, PageIs
  <1> QED BY <1>1, <1>2, <1>3 DEF MovedOnly, PageTraced, PageIs

\* Every step keeps account of them.
LEMMA MovedKept ==
  ASSUME Types, VoiceTypes, Places, MovedOnly, AppNext
  PROVE  MovedOnly'
  <1>1. CASE IdleAction
    <2>1. Idle
      BY <1>1, IdleTyped
    <2>2. Busy' = Busy /\ Known' = Known /\ Gone' = Gone
      BY <2>1, SameDb DEF Idle, Busy
    <2>3. OpsTraced'
      BY <2>1, <2>2 DEF Idle, OpsTraced, Traced, MovedOnly
    <2>4. PageTraced'
      BY <2>1, <2>2 DEF Idle, PageTraced, MovedOnly
    <2> QED BY <2>1, <2>2, <2>3, <2>4 DEF MovedOnly, Idle
  <1>2. ASSUME NEW t \in Task, Finish(t) \/ MiniFinish(t) PROVE MovedOnly'
    BY <1>2, FinishIs, SameDb, TracedBegun DEF Traced, Rolls, MovedOnly, PageTraced, Starts
  <1>3. ASSUME NEW t \in Task, Check(t) PROVE MovedOnly'
    BY <1>3, CheckIs, SameDb, TracedBegun DEF Traced, Rolls, MovedOnly, PageTraced, Starts
  <1>4. CASE KeepZombie
    BY <1>4, KeepIs, SameDb, TracedBegun, OptimisticIs, TypesAre
       DEF Traced, Rolls, MovedOnly, PageTraced, Starts
  <1>5. CASE ArchiveZombie
    <2>1. /\ modal \in Task /\ modal # NoTask /\ modal' = NoTask
          /\ Starts("archive", modal, list, "request")
          /\ list' = optimistic("archive", modal, list)
          /\ moved' = moved \union {modal} /\ recorded' = recorded
      BY <1>5, ArchiveIs
    <2>2. Known' = Known /\ Gone' = Gone /\ page' = page
      BY <2>1, SameDb DEF Starts
    <2>3. OpsTraced'
      BY <2>1, TracedBegun DEF Traced, Rolls, MovedOnly, PageTraced
    <2>4. undo' # NoUndo => undo'.arg \in moved'
      <3>1. \/ undo' = undo
            \/ undo' = NoUndo
            \/ undo' = [kind |-> "restore", arg |-> modal, delay |-> list[modal], live |-> TRUE]
        BY <1>5, ArchiveIs
      <3> QED BY <2>1, <3>1 DEF MovedOnly, PageTraced
    <2>5. DOMAIN list' \subseteq DOMAIN list
      BY <2>1, OptimisticIs, TypesAre
    <2> QED BY <2>1, <2>2, <2>3, <2>4, <2>5 DEF MovedOnly, PageTraced
  <1>6. ASSUME NEW t \in Task, restore(t) PROVE MovedOnly'
    <2>1. /\ page = "archive" /\ t \in DOMAIN list /\ Starts("restore", t, <<>>, "request")
          /\ list' = optimistic("drop", t, list) /\ undo' = NoUndo
          /\ moved' = moved \union {t} /\ UNCHANGED <<recorded, modal>>
      BY <1>6, RestoreIs
    <2>2. OpsTraced'
      BY <2>1, TracedBegun, EmptyList DEF Traced, Rolls, MovedOnly
    <2> QED BY <2>1, <2>2, SameDb, OptimisticIs, TypesAre DEF MovedOnly, PageTraced, Starts
  <1>7. ASSUME NEW t \in Task, remove(t) PROVE MovedOnly'
    <2>1. /\ page = "archive" /\ t \in DOMAIN list /\ Starts("delete", t, <<>>, "request")
          /\ list' = optimistic("drop", t, list)
          /\ undo' = [kind |-> "recreate", arg |-> t, delay |-> list[t], live |-> TRUE]
          /\ UNCHANGED <<recorded, modal, moved>>
      BY <1>7, RemoveIs
    <2>2. OpsTraced'
      BY <2>1, TracedBegun, EmptyList DEF Traced, Rolls, MovedOnly, PageTraced
    <2>3. undo'.arg \in moved'
      BY <2>1 DEF MovedOnly, PageTraced
    <2>4. DOMAIN list' \subseteq DOMAIN list
      BY <2>1, OptimisticIs, TypesAre
    <2>5. Known' = Known /\ Gone' = Gone /\ page' = page
      BY <2>1, SameDb DEF Starts
    <2> QED BY <2>1, <2>2, <2>3, <2>4, <2>5 DEF MovedOnly, PageTraced
  <1>8. CASE Undo
    <2>1. /\ undo # NoUndo /\ undo' = NoUndo
          /\ undo \in [kind : {"restore", "recreate"}, arg : Task, delay : Nat, live : BOOLEAN]
          /\ Starts(undo.kind, undo.arg, <<>>, "request")
          /\ list' = IF undo.live THEN Reinserted(list, undo.arg, undo.delay) ELSE list
          /\ UNCHANGED <<recorded, modal, moved>>
      BY <1>8, UndoIs
    <2>2. undo.arg \in moved /\ undo.arg \in Known
      BY <2>1 DEF MovedOnly, PageTraced
    <2>3. OpsTraced'
      BY <2>1, <2>2, TracedBegun, EmptyList DEF Traced, Rolls, MovedOnly, PageTraced
    <2>4. DOMAIN list' \subseteq DOMAIN list \union {undo.arg}
      BY <2>1, ReinsertedIs, TypesAre
    <2>5. Known' = Known /\ Gone' = Gone /\ page' = page
      BY <2>1, SameDb DEF Starts
    <2> QED BY <2>1, <2>2, <2>3, <2>4, <2>5 DEF MovedOnly, PageTraced
  <1>9. ASSUME NEW t \in Task, SubmitForm(t) \/ QuickAdd(t) PROVE MovedOnly'
    BY <1>9, CreateIs, SameDb, TracedBegun, EmptyList
       DEF Traced, Rolls, MovedOnly, PageTraced, Starts
  <1>10. ASSUME NEW seconds \in Total, updateAvailable(seconds) PROVE MovedOnly'
    BY <1>10, SetIs, SameDb, TracedBegun, EmptyList
       DEF Traced, Rolls, MovedOnly, PageTraced, Starts
  <1>11. CASE fetchTasks
    BY <1>11, FetchIs, SameDb, TracedBegun, EmptyList
       DEF Traced, Rolls, MovedOnly, PageTraced, Starts
  <1>12. ASSUME NEW c \in chains, c.at = "wait", Create(c) PROVE MovedOnly'
    <2>1. /\ Starts("voice", c.arg, <<>>, "request")
          /\ UNCHANGED <<list, modal, undo, moved, recorded>>
      BY <1>12, VoiceIs DEF VoiceTypes
    <2>2. OpsTraced'
      BY <2>1, TracedBegun, EmptyList DEF Traced, Rolls, MovedOnly
    <2>3. Known' = Known /\ Gone' = Gone /\ page' = page
      BY <2>1, SameDb DEF Starts
    <2> QED BY <2>1, <2>2, <2>3 DEF MovedOnly, PageTraced
  <1>13. ASSUME NEW p \in Page, Show(p), clicks' \in 0 .. MaxClick, voiceOpen' \in BOOLEAN
         PROVE  MovedOnly'
    <2>1. /\ list' = <<>> /\ modal' = NoTask /\ UNCHANGED <<db, recorded, moved>>
          /\ undo' = IF undo = NoUndo THEN undo ELSE [undo EXCEPT !.live = FALSE]
      BY <1>13, ShowTyped
    <2>2. Known' = Known /\ Gone' = Gone
      BY <2>1, SameDb
    <2>3. undo' # NoUndo => undo'.arg \in moved
      BY <2>1, TypesAre DEF MovedOnly, PageTraced, Undos
    <2>4. Changed(p)
      BY <1>13, ShowIs
    <2>5. ASSUME NEW s \in Busy' PROVE Traced(ops'[s].kind, ops'[s].arg, ops'[s].list, moved)
      <3>1. CASE s \in Busy
        BY <2>4, <3>1 DEF Changed, Left, SameCall, MovedOnly, OpsTraced
      <3>2. CASE s \notin Busy
        <4>1. PICK n \in Slot : LoadsIn(n, p)
          BY <2>4, <2>5, <3>2 DEF Changed
        <4>2. s = n
          BY <2>5, <3>2, <4>1 DEF LoadsIn
        <4> QED BY <4>1, <4>2, EmptyList DEF LoadsIn, Traced, Rolls, Opening
      <3> QED BY <3>1, <3>2
    <2> QED BY <2>1, <2>2, <2>3, <2>5, EmptyList DEF MovedOnly, OpsTraced, PageTraced, Traced
  <1>14. ASSUME NEW s \in Slot, Serve(s) PROVE MovedOnly'
    BY <1>14, MovedServe
  <1>15. ASSUME NEW s \in Slot, LoseRequest(s) \/ LoseAnswer(s) PROVE MovedOnly'
    BY <1>15, LoseIs, LoseTyped, SameDb, TracedGoesOn DEF MovedOnly, PageTraced, PageIs
  <1>16. ASSUME NEW s \in Slot, CompleteNow(s) PROVE MovedOnly'
    <2>1. /\ s \in Busy /\ ops[s].kind \in Rolls /\ Calm /\ undo' = undo
          /\ list' = IF ops[s].live THEN optimistic("complete", ops[s].arg, ops[s].list) ELSE list
      BY <1>16, CompleteNowIs DEF Rolls
    <2>2. OpsTraced'
      BY <1>16, <2>1, CompleteNowIs, TracedGoesOn DEF MovedOnly, Calm
    <2>3. ops[s].live => page # "archive"
      BY <1>16, CompleteNowIs DEF Places, OpPlaces, InPlace
    <2>4. DOMAIN ops[s].list \subseteq Known
      BY <2>1 DEF MovedOnly, OpsTraced, Traced
    <2>5. ops[s].live => DOMAIN list' \subseteq DOMAIN ops[s].list
      BY <2>1, OptimisticIs, BusyOp
    <2>6. PageTraced'
      BY <2>1, <2>3, <2>4, <2>5, SameDb DEF MovedOnly, PageTraced, Calm
    <2> QED BY <2>1, <2>2, <2>6, SameDb DEF MovedOnly, Calm
  <1>17. ASSUME NEW s \in Slot, Settle(s) PROVE MovedOnly'
    <2>1. /\ s \in Busy /\ ops[s].kind \in {"complete", "snooze", "archive"} /\ Calm /\ undo' = undo
          /\ Ended(s) /\ list' = IF ops[s].live /\ ops[s].at = "failed" THEN ops[s].list ELSE list
      BY <1>17, SettleIs
    <2>2. OpsTraced'
      BY <2>1, TracedEnded DEF MovedOnly, Calm
    <2>3. ops[s].live => page # "archive"
      BY <2>1 DEF Places, OpPlaces, InPlace
    <2>4. DOMAIN ops[s].list \subseteq Known
      BY <2>1 DEF MovedOnly, OpsTraced, Traced
    <2> QED BY <2>1, <2>2, <2>3, <2>4, SameDb DEF MovedOnly, PageTraced, Calm
  <1>18. ASSUME NEW s \in Slot, Loaded(s) \/ Refetched(s) PROVE MovedOnly'
    <2>1. /\ s \in Busy /\ ops[s].kind \in {"fetch", "items", "refetch"} /\ Calm /\ undo' = undo
          /\ Ended(s) /\ Arrives(s)
      BY <1>18, LoadedIs, RefetchedIs
    <2>2. OpsTraced'
      BY <2>1, TracedEnded DEF MovedOnly, Calm
    <2>3. ops[s].live /\ ops[s].kind # "items" => page # "archive"
      BY <2>1 DEF Places, OpPlaces, InPlace
    <2>4. DOMAIN ops[s].list \subseteq Known /\ (ops[s].kind = "items" => DOMAIN ops[s].list \subseteq moved)
      BY <2>1 DEF MovedOnly, OpsTraced, Traced
    <2> QED BY <2>1, <2>2, <2>3, <2>4, SameDb DEF MovedOnly, PageTraced, Calm, Arrives, Good
  <1>19. ASSUME NEW s \in Slot, CompletedLoaded(s) PROVE MovedOnly'
    <2>1. /\ s \in Busy /\ ops[s].kind = "completed" /\ Calm /\ undo' = undo
          /\ Ended(s) /\ list' = IF ops[s].live THEN loadCompleted ELSE list
      BY <1>19, CompletedIs
    <2>2. OpsTraced'
      BY <2>1, TracedEnded DEF MovedOnly, Calm
    <2>3. ops[s].live => page # "archive"
      BY <2>1 DEF Places, OpPlaces, InPlace
    <2> QED BY <2>1, <2>2, <2>3, SameDb, CompletedList DEF MovedOnly, PageTraced, Calm
  <1>20. ASSUME NEW s \in Slot, Posted(s) PROVE MovedOnly'
    BY <1>20, PostedIs, SameDb, TracedEnded, TracedGoesOn DEF MovedOnly, PageTraced, Calm
  <1>21. ASSUME NEW s \in Slot, Forget(s) PROVE MovedOnly'
    BY <1>21, ForgetIs, SameDb, TracedEnded DEF MovedOnly, PageTraced, Calm
  <1>22. ASSUME NEW s \in Slot, Created(s) PROVE MovedOnly'
    BY <1>22, CreatedIs, SameDb, TracedEnded DEF MovedOnly, PageTraced, Calm
  <1> QED BY <1>1, <1>2, <1>3, <1>4, <1>5, <1>6, <1>7, <1>8, <1>9, <1>10, <1>11, <1>12, <1>13,
       <1>14, <1>15, <1>16, <1>17, <1>18, <1>19, <1>20, <1>21, <1>22, StepCases
     DEF PageAction, OpAction, VoiceAction, ShowAction

-----------------------------------------------------------------------------
(* Every creation is for a task of its own. *)

Creating(s) == s \in Busy /\ ops[s].kind \in {"post", "voice"}
OpsFresh ==
    /\ \A s \in Slot : Creating(s) /\ ops[s].at = "request" => ops[s].arg \notin Known
    /\ \A s, u \in Slot : Creating(s) /\ Creating(u) /\ ops[s].arg = ops[u].arg => s = u
ChainsFresh ==
    /\ \A c \in chains : c.at \in {"parse", "wait"} => c.arg \notin Known
    /\ \A c, d \in chains : c.arg = d.arg => c = d
IdsFresh == OpsFresh /\ ChainsFresh /\ OneEach

\* No creation has begun.
Stays(s) ==
    /\ s \in Busy /\ ops'[s].kind = ops[s].kind /\ ops'[s].arg = ops[s].arg
    /\ ops'[s].at = "request" => ops[s].at = "request"
OnlyOld == \A s \in Busy' : ops'[s].kind \in {"post", "voice"} => Stays(s)

\* No creation begins with another function,
LEMMA OldBegun ==
  ASSUME NEW kind, NEW arg, NEW snapshot, NEW at, Starts(kind, arg, snapshot, at),
         kind \notin {"post", "voice"}
  PROVE  OnlyOld
  <1>1. PICK n \in Slot : BegunIn(n, kind, arg, snapshot, at)
    BY DEF Starts, Begun
  <1>2. ASSUME NEW s \in Busy', ops'[s].kind \in {"post", "voice"} PROVE Stays(s)
    BY <1>1, <1>2 DEF BegunIn, SameCall, Stays
  <1> QED BY <1>2 DEF OnlyOld

\* nor when one goes on,
LEMMA OldGoesOn ==
  ASSUME NEW s, GoesOn(s), ops'[s].kind \in {"post", "voice"} => Stays(s)
  PROVE  OnlyOld
  BY DEF GoesOn, OthersStay, OnlyOld, Stays

\* nor when one ends,
LEMMA OldEnded ==
  ASSUME NEW s, Ended(s)
  PROVE  OnlyOld
  BY DEF Ended, OthersStay, OnlyOld, Stays

\* nor when another page is shown.
LEMMA OldShow ==
  ASSUME Types, NEW p \in Page, Show(p)
  PROVE  OnlyOld
  <1>1. Changed(p)
    BY ShowIs
  <1>2. ASSUME NEW s \in Busy', ops'[s].kind \in {"post", "voice"} PROVE Stays(s)
    <2>1. CASE s \in Busy
      BY <1>1, <2>1 DEF Changed, Left, SameCall, Stays
    <2>2. CASE s \notin Busy
      <3>1. PICK n \in Slot : LoadsIn(n, p)
        BY <1>1, <1>2, <2>2 DEF Changed
      <3>2. ops'[s].kind = Opening(p)
        BY <1>2, <2>2, <3>1 DEF LoadsIn
      <3> QED BY <1>2, <3>2 DEF Opening
    <2> QED BY <2>1, <2>2
  <1> QED BY <1>2 DEF OnlyOld

\* A creation begins by the form, the quick way or a sentence.
LEMMA NewCreations ==
  ASSUME Types, VoiceTypes, AppNext
  PROVE  \/ OnlyOld
         \/ \E t \in Task : SubmitForm(t) \/ QuickAdd(t)
         \/ \E c \in chains : c.at = "wait" /\ ~cancelRef /\ Create(c)
  <1>1. CASE IdleAction
    BY <1>1, IdleTyped DEF Idle, Busy, OnlyOld, Stays
  <1>2. CASE ShowAction
    BY <1>2, OldShow DEF ShowAction
  <1>3. ASSUME NEW t \in Task, Finish(t) \/ MiniFinish(t) PROVE OnlyOld
    BY <1>3, FinishIs, OldBegun
  <1>4. ASSUME NEW t \in Task, Check(t) PROVE OnlyOld
    BY <1>4, CheckIs, OldBegun
  <1>5. ASSUME NEW t \in Task, restore(t) PROVE OnlyOld
    BY <1>5, RestoreIs, OldBegun
  <1>6. ASSUME NEW t \in Task, remove(t) PROVE OnlyOld
    BY <1>6, RemoveIs, OldBegun
  <1>7. CASE KeepZombie
    BY <1>7, KeepIs, OldBegun
  <1>8. CASE ArchiveZombie
    BY <1>8, ArchiveIs, OldBegun
  <1>9. CASE Undo
    <2>1. undo.kind \in {"restore", "recreate"} /\ Starts(undo.kind, undo.arg, <<>>, "request")
      BY <1>9, UndoIs
    <2> QED BY <2>1, OldBegun
  <1>10. CASE fetchTasks
    BY <1>10, FetchIs, OldBegun
  <1>11. ASSUME NEW seconds \in Total, updateAvailable(seconds) PROVE OnlyOld
    BY <1>11, SetIs, OldBegun
  <1>12. ASSUME NEW s \in Slot, Serve(s) PROVE OnlyOld
    BY <1>12, ServeIs, OldGoesOn DEF Stays, GoesOn
  <1>13. ASSUME NEW s \in Slot, LoseRequest(s) \/ LoseAnswer(s) PROVE OnlyOld
    BY <1>13, LoseIs, OldGoesOn DEF Stays, GoesOn
  <1>14. ASSUME NEW s \in Slot, CompleteNow(s) PROVE OnlyOld
    BY <1>14, CompleteNowIs, OldGoesOn
  <1>15. ASSUME NEW s \in Slot, Posted(s) PROVE OnlyOld
    BY <1>15, PostedIs, OldGoesOn, OldEnded
  <1>16. ASSUME NEW s \in Slot, Settle(s) \/ Loaded(s) \/ CompletedLoaded(s) \/ Refetched(s) \/ Forget(s)
                                \/ Created(s)
         PROVE OnlyOld
    BY <1>16, SettleIs, LoadedIs, CompletedIs, RefetchedIs, ForgetIs, CreatedIs, OldEnded
  <1> QED BY <1>1, <1>2, <1>3, <1>4, <1>5, <1>6, <1>7, <1>8, <1>9, <1>10, <1>11, <1>12, <1>13,
       <1>14, <1>15, <1>16, StepCases
     DEF PageAction, OpAction, VoiceAction

\* Only the service changes its tasks.
LEMMA ServiceOnly ==
  ASSUME Types, VoiceTypes, AppNext
  PROVE  db' = db \/ (Next /\ \E s \in Slot : Serve(s))
  <1>1. CASE Voice
    <2>1. ASSUME NEW c \in chains, Create(c) PROVE db' = db
      BY <2>1 DEF Create, Steady
    <2>2. ASSUME NEW s \in Slot, Created(s) PROVE db' = db
      BY <2>2 DEF Created
    <2> QED BY <1>1, <2>1, <2>2, VoiceCases, IdleTyped, ShowTyped
       DEF Idle, VoiceAction, ShowAction
  <1>2. CASE Next
    <2>1. CASE IdleAction \/ ShowAction
      BY <2>1, IdleTyped, ShowTyped DEF Idle, ShowAction
    <2>2. CASE PageAction
      BY <2>2, FinishIs, CheckIs, RestoreIs, RemoveIs, CreateIs, KeepIs, ArchiveIs, UndoIs,
           FetchIs, SetIs
         DEF PageAction, Starts
    <2>3. CASE OpAction
      BY <1>2, <2>3, LoseTyped, CompleteNowIs, SettleIs, LoadedIs, CompletedIs, PostedIs,
           RefetchedIs, ForgetIs
         DEF OpAction, Calm
    <2> QED BY <1>2, <2>1, <2>2, <2>3, NextCases
  <1> QED BY <1>1, <1>2 DEF AppNext

\* A creation begins, for a task that is neither known nor asked for.
LEMMA FreshBegun ==
  ASSUME OpsFresh, NEW kind, NEW arg, NEW snapshot, NEW at, Starts(kind, arg, snapshot, at),
         arg \notin Known, \A s \in Slot : Creating(s) => ops[s].arg # arg
  PROVE  OpsFresh'
  <1>1. PICK n \in Slot : BegunIn(n, kind, arg, snapshot, at)
    BY DEF Starts, Begun
  <1>2. Known' = Known
    BY SameDb DEF Starts
  <1>3. ops'[n].arg = arg /\ n \notin Busy
    BY <1>1 DEF BegunIn
  <1>4. ASSUME NEW s \in Slot, Creating(s)', s # n
        PROVE  Creating(s) /\ ops'[s].arg = ops[s].arg /\ ops'[s].at = ops[s].at
    BY <1>1, <1>4 DEF BegunIn, SameCall, Creating
  <1>5. \A s \in Slot : Creating(s)' /\ ops'[s].at = "request" => ops'[s].arg \notin Known'
    BY <1>2, <1>3, <1>4 DEF OpsFresh
  <1>6. \A s, u \in Slot : Creating(s)' /\ Creating(u)' /\ ops'[s].arg = ops'[u].arg => s = u
    BY <1>3, <1>4 DEF OpsFresh
  <1> QED BY <1>5, <1>6 DEF OpsFresh

\* Every step keeps the creations apart.
LEMMA OpsFreshKept ==
  ASSUME Types, VoiceTypes, MovedOnly, IdsFresh, AppNext
  PROVE  OpsFresh'
  <1>1. CASE OnlyOld
    <2>1. ASSUME NEW s \in Slot, Creating(s)'
          PROVE  /\ Creating(s) /\ ops'[s].arg = ops[s].arg
                 /\ ops'[s].at = "request" => ops[s].at = "request"
      BY <1>1, <2>1 DEF OnlyOld, Creating, Stays
    <2>2. \A s, u \in Slot : Creating(s)' /\ Creating(u)' /\ ops'[s].arg = ops'[u].arg => s = u
      BY <2>1 DEF IdsFresh, OpsFresh
    <2>3. ASSUME NEW s \in Slot, Creating(s)', ops'[s].at = "request" PROVE ops'[s].arg \notin Known'
      <3>1. ops[s].arg \notin Known
        BY <2>1, <2>3 DEF IdsFresh, OpsFresh
      <3>2. CASE db' = db
        BY <2>1, <2>3, <3>1, <3>2, SameDb
      <3>3. ASSUME NEW u \in Slot, Serve(u) PROVE ops[s].arg \notin Known'
        <4>1. u \in Busy /\ ops'[u].at # "request"
          BY <3>3, ServeIs DEF GoesOn
        <4>2. CASE ops[u].kind \in {"post", "voice"}
          <5>1. ops[s].arg # ops[u].arg
            BY <2>1, <2>3, <4>1, <4>2 DEF Creating, IdsFresh, OpsFresh
          <5> QED BY <3>1, <3>3, <4>2, <5>1, ServeKnown
        <4>3. CASE ops[u].kind \notin {"post", "voice"}
          BY <3>1, <3>3, <4>3, ServeKnown
        <4> QED BY <4>2, <4>3
      <3> QED BY <2>1, <2>3, <3>2, <3>3, ServiceOnly
    <2> QED BY <2>2, <2>3 DEF OpsFresh
  <1>2. ASSUME NEW t \in Task, SubmitForm(t) \/ QuickAdd(t) PROVE OpsFresh'
    <2>1. /\ db.status[t] = "NONE" /\ Starts("post", t, <<>>, "request")
          /\ \A s \in Busy : ops[s].kind \in {"post", "voice"} => ops[s].arg # t
      BY <1>2, CreateIs
    <2> QED BY <2>1, FreshBegun DEF IdsFresh, Known, Creating
  <1>3. ASSUME NEW c \in chains, c.at = "wait", Create(c) PROVE OpsFresh'
    <2>1. Starts("voice", c.arg, <<>>, "request")
      BY <1>3, VoiceIs DEF VoiceTypes
    <2>2. c.arg \notin Known
      BY <1>3 DEF IdsFresh, ChainsFresh
    <2>3. \A s \in Slot : Creating(s) => ops[s].arg # c.arg
      BY DEF IdsFresh, OneEach, Creating
    <2> QED BY <2>1, <2>2, <2>3, FreshBegun DEF IdsFresh
  <1> QED BY <1>1, <1>2, <1>3, NewCreations

\* What a step of the dialog does to the sentences.
Heard(t) ==
    /\ db.status[t] = "NONE" /\ ~Asked(t)
    /\ \E at \in {"parse", "wait"} : chains' = chains \union {[at |-> at, arg |-> t]}
WaitsNow(c) == c.at = "parse" /\ chains' = Moved(c, "wait")

\* What a step of the dialog does to the sentences, case by case.
LEMMA ChainCases ==
  ASSUME Types, VoiceTypes, Voice
  PROVE  \/ UNCHANGED <<db, ops>> /\ chains' \subseteq chains
         \/ UNCHANGED <<db, ops>> /\ \E t \in Task : Heard(t)
         \/ UNCHANGED <<db, ops>> /\ \E c \in chains : WaitsNow(c)
         \/ chains' = chains /\ ShowAction
         \/ VoiceAction
  <1>1. CASE onTrigger
    <2>1. chains' = chains
      BY <1>1 DEF onTrigger, Opened, voice
    <2>2. CASE page = "today"
      BY <1>1, <2>1, <2>2 DEF onTrigger
    <2>3. CASE page # "today"
      <3>1. Click /\ voiceOpen' = TRUE /\ Show("today") /\ "today" \in Page
        BY <1>1, <2>3 DEF onTrigger, Page
      <3> QED BY <2>1, <3>1, ClickIs DEF ShowAction
    <2> QED BY <2>2, <2>3
  <1>2. CASE onTestClap
    BY <1>2 DEF onTestClap, Opened, voice, PagesStill
  <1>3. CASE CloseVoice
    BY <1>3 DEF CloseVoice, PagesStill
  <1>4. CASE doBriefing \/ startListening \/ NothingHeard
    BY <1>4 DEF doBriefing, startListening, NothingHeard, Conversation, PagesStill
  <1>5. ASSUME NEW t \in Task, handleVoiceResult(t) \/ handleManualSubmit(t)
        PROVE  UNCHANGED <<db, ops>> /\ (chains' \subseteq chains \/ Heard(t))
    <2>1. smartParse(t)
      BY <1>5 DEF handleVoiceResult, handleManualSubmit
    <2>2. UNCHANGED <<db, ops>>
      BY <2>1 DEF smartParse, Conversation, PagesStill
    <2>3. chains' \subseteq chains \/ Heard(t)
      <3>1. CASE cancelRef
        BY <2>1, <3>1 DEF smartParse
      <3>2. CASE ~cancelRef
        <4>1. PICK at \in {"parse", "wait"} : at = IF Gemini THEN "parse" ELSE "wait"
          OBVIOUS
        <4>2. chains' = chains \union {[at |-> at, arg |-> t]}
          BY <2>1, <3>2, <4>1 DEF smartParse
        <4> QED BY <2>1, <4>2 DEF smartParse, Heard
      <3> QED BY <3>1, <3>2
    <2> QED BY <2>2, <2>3
  <1>6. ASSUME NEW c \in chains, Parsed(c)
        PROVE  UNCHANGED <<db, ops>> /\ (chains' \subseteq chains \/ WaitsNow(c))
    BY <1>6 DEF Parsed, Conversation, PagesStill, WaitsNow
  <1>7. ASSUME NEW c \in chains, createFromParsed(c)
        PROVE  (UNCHANGED <<db, ops>> /\ chains' \subseteq chains) \/ VoiceAction
    BY <1>7 DEF createFromParsed, Conversation, PagesStill, VoiceAction
  <1>8. ASSUME NEW c \in chains, CloseAfterDone(c) PROVE UNCHANGED <<db, ops>> /\ chains' \subseteq chains
    BY <1>8 DEF CloseAfterDone, PagesStill
  <1>9. ASSUME NEW s \in Slot, Created(s) PROVE VoiceAction
    BY <1>9 DEF VoiceAction
  <1> QED BY <1>1, <1>2, <1>3, <1>4, <1>5, <1>6, <1>7, <1>8, <1>9 DEF Voice, Chain

\* A sentence is a record of this form.
LEMMA ChainIs ==
  ASSUME VoiceTypes, NEW c \in chains
  PROVE  /\ c = [at |-> c.at, arg |-> c.arg] /\ c.arg \in Task
         /\ c.at \in {"parse", "wait", "close"}
  BY DEF VoiceTypes

\* A sentence that was parsed waits.
LEMMA MovedIs ==
  ASSUME VoiceTypes, NEW c \in chains, WaitsNow(c)
  PROVE  chains' = (chains \ {c}) \union {[at |-> "wait", arg |-> c.arg]}
  <1>1. [c EXCEPT !.at = "wait"] = [at |-> "wait", arg |-> c.arg]
    BY ChainIs
  <1> QED BY <1>1 DEF WaitsNow, Moved

\* Whether one may cancel stays a yes or no.
LEMMA FlagsTyped ==
  ASSUME VoiceTypes, Voice
  PROVE  supported' = supported /\ cancelRef' \in BOOLEAN
  <1>1. {supported, cancelRef} \subseteq BOOLEAN
    BY DEF VoiceTypes
  <1>2. CASE onTrigger \/ onTestClap
    BY <1>1, <1>2 DEF onTrigger, onTestClap, Opened, voice
  <1>3. CASE CloseVoice
    BY <1>1, <1>3 DEF CloseVoice, onClose, Cleaned
  <1>4. CASE doBriefing \/ startListening \/ NothingHeard
    BY <1>1, <1>4 DEF doBriefing, startListening, NothingHeard, Conversation
  <1>5. ASSUME NEW t \in Task, handleVoiceResult(t) \/ handleManualSubmit(t)
        PROVE  supported' = supported /\ cancelRef' \in BOOLEAN
    BY <1>1, <1>5 DEF handleVoiceResult, handleManualSubmit, smartParse, Conversation
  <1>6. ASSUME NEW c \in chains, Parsed(c) \/ createFromParsed(c)
        PROVE  supported' = supported /\ cancelRef' \in BOOLEAN
    BY <1>1, <1>6 DEF Parsed, createFromParsed, Create, Conversation
  <1>7. ASSUME NEW c \in chains, CloseAfterDone(c) PROVE supported' = supported /\ cancelRef' \in BOOLEAN
    BY <1>1, <1>7 DEF CloseAfterDone, onClose, Cleaned
  <1>8. ASSUME NEW s \in Slot, Created(s) PROVE supported' = supported /\ cancelRef' \in BOOLEAN
    BY <1>1, <1>8 DEF Created
  <1> QED BY <1>2, <1>3, <1>4, <1>5, <1>6, <1>7, <1>8 DEF Voice, Chain

\* The dialog keeps its types.
LEMMA VoiceTypesKept ==
  ASSUME Types, VoiceTypes, AppNext
  PROVE  VoiceTypes'
  <1>1. CASE UNCHANGED voice
    BY <1>1 DEF voice, VoiceTypes
  <1>2. CASE Voice
    <2>1. {supported', cancelRef'} \subseteq BOOLEAN
      BY <1>2, FlagsTyped DEF VoiceTypes
    <2>2. chains' \subseteq [at : {"parse", "wait", "close"}, arg : Task]
      <3> DEFINE C == [at : {"parse", "wait", "close"}, arg : Task]
      <3>1. chains \subseteq C
        BY DEF VoiceTypes
      <3>2. \A t \in Task : \A at \in {"parse", "wait", "close"} : [at |-> at, arg |-> t] \in C
        OBVIOUS
      <3> HIDE DEF C
      <3>3. ASSUME NEW t \in Task, Heard(t) PROVE chains' \subseteq C
        BY <3>1, <3>2, <3>3 DEF Heard
      <3>4. ASSUME NEW c \in chains, WaitsNow(c) PROVE chains' \subseteq C
        <4>1. chains' = (chains \ {c}) \union {[at |-> "wait", arg |-> c.arg]}
          BY <3>4, MovedIs
        <4>2. c.arg \in Task
          BY ChainIs
        <4>3. [at |-> "wait", arg |-> c.arg] \in C
          BY <3>2, <4>2
        <4> QED BY <3>1, <4>1, <4>3
      <3>5. ASSUME NEW c \in chains, c.at = "wait", Create(c) PROVE chains' \subseteq C
        BY <3>1, <3>5 DEF Create
      <3>6. ASSUME NEW s \in Slot, Created(s) PROVE chains' \subseteq C
        <4>1. s \in Busy /\ ops[s].kind = "voice"
          BY <3>6, CreatedIs
        <4>2. ops[s].arg \in Task
          BY <4>1 DEF Types, ArgsFit, TaskKind
        <4>3. chains' \in {chains, chains \union {[at |-> "close", arg |-> ops[s].arg]}}
          BY <3>6, CreatedIs
        <4>4. [at |-> "close", arg |-> ops[s].arg] \in C
          BY <3>2, <4>2
        <4> QED BY <3>1, <4>3, <4>4
      <3>7. chains' \subseteq C
        BY <1>2, <3>1, <3>3, <3>4, <3>5, <3>6, ChainCases DEF VoiceAction
      <3> QED BY <3>7 DEF C
    <2> QED BY <2>1, <2>2 DEF VoiceTypes
  <1> QED BY <1>1, <1>2 DEF AppNext

\* The sentences stay apart.
LEMMA ChainsKept ==
  ASSUME Types, VoiceTypes, MovedOnly, IdsFresh, AppNext
  PROVE  ChainsFresh' /\ OneEach'
  <1>0. /\ \A c \in chains : c.at \in {"parse", "wait"} => c.arg \notin Known
        /\ \A c, d \in chains : c.arg = d.arg => c = d
        /\ \A c \in chains : \A s \in Busy : ops[s].kind \in {"post", "voice"} => ops[s].arg # c.arg
    BY DEF IdsFresh, ChainsFresh, OneEach
  <1>1. CASE Next /\ UNCHANGED voice /\ OneEach'
    <2>1. chains' = chains
      BY <1>1 DEF voice
    <2>2. ASSUME NEW c \in chains, c.at \in {"parse", "wait"} PROVE c.arg \notin Known'
      <3>1. ASSUME NEW s \in Slot, Serve(s) PROVE c.arg \notin Known'
        <4>1. s \in Busy
          BY <3>1, ServeTyped
        <4> QED BY <1>0, <2>2, <3>1, <4>1, ServeKnown
      <3> QED BY <1>0, <2>2, <3>1, ServiceOnly, SameDb
    <2> QED BY <1>0, <1>1, <2>1, <2>2 DEF ChainsFresh
  <1>2. CASE UNCHANGED <<db, ops>> /\ chains' \subseteq chains
    <2>1. Busy' = Busy /\ Known' = Known
      BY <1>2, SameDb DEF Busy
    <2> QED BY <1>0, <1>2, <2>1 DEF ChainsFresh, OneEach
  <1>3. ASSUME UNCHANGED <<db, ops>>, NEW t \in Task, Heard(t) PROVE ChainsFresh' /\ OneEach'
    <2>1. Busy' = Busy /\ Known' = Known
      BY <1>3, SameDb DEF Busy
    <2>2. PICK d : chains' = chains \union {d} /\ d.arg = t
      <3>1. PICK at : chains' = chains \union {[at |-> at, arg |-> t]}
        BY <1>3 DEF Heard
      <3>2. [at |-> at, arg |-> t].arg = t
        OBVIOUS
      <3> QED BY <3>1, <3>2
    <2>3. /\ t \notin Known /\ \A c \in chains : c.arg # t
          /\ \A s \in Busy : ops[s].kind \in {"post", "voice"} => ops[s].arg # t
      BY <1>3 DEF Heard, Known, Asked
    <2> QED BY <1>0, <1>3, <2>1, <2>2, <2>3 DEF ChainsFresh, OneEach
  <1>4. ASSUME UNCHANGED <<db, ops>>, NEW c \in chains, WaitsNow(c) PROVE ChainsFresh' /\ OneEach'
    <2>1. Busy' = Busy /\ Known' = Known
      BY <1>4, SameDb DEF Busy
    <2>2. PICK d : chains' = (chains \ {c}) \union {d} /\ d.arg = c.arg
      BY <1>4, MovedIs
    <2>3. c.arg \notin Known
      BY <1>0, <1>4 DEF WaitsNow
    <2> QED BY <1>0, <1>4, <2>1, <2>2, <2>3 DEF ChainsFresh, OneEach
  <1>5. ASSUME NEW p \in Page, Show(p), clicks' \in 0 .. MaxClick, voiceOpen' \in BOOLEAN,
               chains' = chains
        PROVE  ChainsFresh' /\ OneEach'
    <2>1. Known' = Known
      BY <1>5, ShowTyped, SameDb
    <2>2. OnlyOld
      BY <1>5, OldShow
    <2> QED BY <1>0, <1>5, <2>1, <2>2 DEF ChainsFresh, OneEach, OnlyOld, Stays
  <1>6. ASSUME NEW c \in chains, c.at = "wait", Create(c) PROVE ChainsFresh' /\ OneEach'
    <2>1. Starts("voice", c.arg, <<>>, "request") /\ chains' = chains \ {c}
      BY <1>6, VoiceIs DEF VoiceTypes
    <2>2. PICK n \in Slot : BegunIn(n, "voice", c.arg, <<>>, "request")
      BY <2>1 DEF Starts, Begun
    <2>3. Known' = Known
      BY <2>1, SameDb DEF Starts
    <2>4. \A s \in Busy' : s # n => s \in Busy /\ ops'[s].kind = ops[s].kind /\ ops'[s].arg = ops[s].arg
      BY <2>2 DEF BegunIn, SameCall
    <2>5. ops'[n].arg = c.arg
      BY <2>2 DEF BegunIn
    <2> QED BY <1>0, <2>1, <2>3, <2>4, <2>5 DEF ChainsFresh, OneEach
  <1>7. ASSUME NEW s \in Slot, Created(s) PROVE ChainsFresh' /\ OneEach'
    <2>1. /\ s \in Busy /\ ops[s].kind = "voice" /\ Ended(s) /\ Known' = Known
          /\ chains' \in {chains, chains \union {[at |-> "close", arg |-> ops[s].arg]}}
      BY <1>7, CreatedIs, SameDb DEF Calm
    <2>2. \A u \in Busy' : u \in Busy /\ u # s /\ ops'[u] = ops[u]
      BY <2>1 DEF Ended, OthersStay
    <2>3. \A u \in Busy' : ops[u].kind \in {"post", "voice"} => ops[u].arg # ops[s].arg
      BY <2>1, <2>2 DEF IdsFresh, OpsFresh, Creating, Busy
    <2>4. CASE chains' = chains
      BY <1>0, <2>1, <2>2, <2>4 DEF ChainsFresh, OneEach
    <2>5. CASE chains' # chains
      <3>1. PICK d : chains' = chains \union {d} /\ d.arg = ops[s].arg /\ d.at = "close"
        BY <2>1, <2>5
      <3>2. \A c \in chains : c.arg # d.arg
        BY <1>0, <2>1, <3>1
      <3> QED BY <1>0, <2>1, <2>2, <2>3, <3>1, <3>2 DEF ChainsFresh, OneEach
    <2> QED BY <2>4, <2>5
  <1> QED BY <1>1, <1>2, <1>3, <1>4, <1>5, <1>6, <1>7, ChainCases
     DEF AppNext, ShowAction, VoiceAction

\* Every creation stays one for a task of its own.
LEMMA IdsKept ==
  ASSUME Types, VoiceTypes, MovedOnly, IdsFresh, AppNext
  PROVE  IdsFresh'
  BY OpsFreshKept, ChainsKept DEF IdsFresh

-----------------------------------------------------------------------------
(* A dialog that is closed begins nothing. *)

\* Its conversation is over, and no sentence waits that may still become a task.
NothingBegins ==
    supported /\ ~voiceOpen => stage = "none" /\ (cancelRef \/ \A c \in chains : c.at = "close")

\* The pages leave the dialog alone.
LEMMA DialogStays ==
  ASSUME Types, Next
  PROVE  voiceOpen' = voiceOpen
  <1>1. ASSUME NEW t \in Task, Start(t) \/ Pause(t) \/ Resume(t) \/ Finish(t) \/ MiniFinish(t)
        PROVE  voiceOpen' = voiceOpen
    BY <1>1 DEF Start, Pause, Resume, Finish, MiniFinish, handleFinish, TimerOnly, shell
  <1>2. ASSUME NEW t \in Task, Check(t) \/ OpenZombie(t) \/ restore(t) \/ remove(t)
        PROVE  voiceOpen' = voiceOpen
    BY <1>2 DEF Check, OpenZombie, restore, remove, drop, shell
  <1>3. ASSUME NEW t \in Task, SubmitForm(t) \/ QuickAdd(t) PROVE voiceOpen' = voiceOpen
    BY <1>3 DEF SubmitForm, QuickAdd, handleCreate
  <1>4. CASE CloseZombie \/ KeepZombie \/ ArchiveZombie \/ Undo \/ ToastGone
    BY <1>4 DEF CloseZombie, KeepZombie, ArchiveZombie, Undo, ToastGone
  <1>5. CASE OpenAdd \/ CloseAdd \/ EditForm \/ ChangeContext \/ fetchTasks \/ Tick
    BY <1>5 DEF OpenAdd, CloseAdd, EditForm, FormOnly, ChangeContext, fetchTasks, Tick, shell
  <1>6. ASSUME NEW seconds \in Total, updateAvailable(seconds) PROVE voiceOpen' = voiceOpen
    BY <1>6 DEF updateAvailable, shell
  <1>7. ASSUME NEW p \in Page, Navigate(p) PROVE voiceOpen' = voiceOpen
    BY <1>7 DEF Navigate
  <1>8. ASSUME NEW s \in Slot, Serve(s) \/ LoseRequest(s) \/ LoseAnswer(s) PROVE voiceOpen' = voiceOpen
    BY <1>8, ServeTyped, LoseTyped DEF PageIs
  <1>9. ASSUME NEW s \in Slot, Deliver(s) PROVE voiceOpen' = voiceOpen
    BY <1>9, CompleteNowIs, SettleIs, LoadedIs, CompletedIs, PostedIs, RefetchedIs, ForgetIs
       DEF Deliver, Calm
  <1> QED BY <1>1, <1>2, <1>3, <1>4, <1>5, <1>6, <1>7, <1>8, <1>9 DEF Next

\* A dialog that was closed goes on beginning nothing.
LEMMA NothingBeginsKept ==
  ASSUME Types, VoiceTypes, NothingBegins, AppNext
  PROVE  NothingBegins'
  <1>0. voiceOpen \in BOOLEAN /\ {supported, cancelRef} \subseteq BOOLEAN
    BY TypesAre DEF VoiceTypes
  <1>1. CASE Next /\ UNCHANGED voice
    BY <1>1, DialogStays DEF voice, NothingBegins
  <1>2. CASE onTrigger \/ onTestClap
    BY <1>2 DEF onTrigger, onTestClap, NothingBegins
  <1>3. ASSUME onClose, chains' \subseteq chains PROVE NothingBegins'
    BY <1>0, <1>3 DEF onClose, Cleaned, NothingBegins
  <1>4. CASE doBriefing \/ startListening \/ NothingHeard
    BY <1>4 DEF doBriefing, startListening, NothingHeard, Conversation, NothingBegins
  <1>5. ASSUME NEW t \in Task, handleVoiceResult(t) \/ handleManualSubmit(t) PROVE NothingBegins'
    <2>1. UNCHANGED <<supported, voiceOpen>>
      BY <1>5 DEF handleVoiceResult, handleManualSubmit, smartParse, Conversation
    <2>2. stage = "listen" \/ voiceOpen
      BY <1>5 DEF handleVoiceResult, handleManualSubmit
    <2> QED BY <2>1, <2>2 DEF NothingBegins
  <1>6. ASSUME NEW c \in chains, Parsed(c) PROVE NothingBegins'
    <2>1. c.at = "parse" /\ UNCHANGED <<supported, voiceOpen, cancelRef, stage>>
      BY <1>6 DEF Parsed, Conversation
    <2>2. cancelRef \/ ~supported \/ voiceOpen
      BY <2>1 DEF NothingBegins
    <2> QED BY <2>1, <2>2 DEF NothingBegins
  <1>7. ASSUME NEW c \in chains, createFromParsed(c) PROVE NothingBegins'
    <2>1. chains' = chains \ {c} /\ UNCHANGED <<supported, voiceOpen, cancelRef, stage>>
      BY <1>7 DEF createFromParsed, Create, Conversation, shell
    <2> QED BY <2>1 DEF NothingBegins
  <1>8. ASSUME NEW s \in Slot, Created(s) PROVE NothingBegins'
    <2>1. /\ UNCHANGED <<supported, voiceOpen, cancelRef, stage>>
          /\ chains' \in {chains, chains \union {[at |-> "close", arg |-> ops[s].arg]}}
      BY <1>8, CreatedIs DEF Calm
    <2>2. \A c \in chains' : c \in chains \/ c.at = "close"
      BY <2>1
    <2> QED BY <2>1, <2>2 DEF NothingBegins
  <1>9. ASSUME NEW c \in chains, CloseAfterDone(c) PROVE NothingBegins'
    <2>1. CASE onClose
      BY <1>3, <1>9, <2>1 DEF CloseAfterDone
    <2>2. CASE ~onClose
      BY <1>9, <2>2 DEF CloseAfterDone, NothingBegins
    <2> QED BY <2>1, <2>2
  <1>10. CASE CloseVoice
    BY <1>3, <1>10 DEF CloseVoice
  <1> QED BY <1>1, <1>2, <1>4, <1>5, <1>6, <1>7, <1>8, <1>9, <1>10 DEF AppNext, Voice, Chain

\* A creation by voice that was not under way begins in a dialog that is open.
LEMMA CreatedOpen ==
  ASSUME Types, VoiceTypes, NothingBegins, AppNext, NEW t \in Task, supported, ~voiceOpen,
         t \notin {ops[s].arg : s \in Busy}, NEW s \in Slot, ops'[s] # Free
  PROVE  ops'[s].kind # "voice" \/ ops'[s].arg # t
  <1>1. SUFFICES ASSUME ops'[s].kind = "voice", ops'[s].arg = t
                 PROVE  FALSE
    OBVIOUS
  <1>2. s \in Busy'
    BY DEF Busy
  <1>3. CASE OnlyOld
    BY <1>1, <1>2, <1>3 DEF OnlyOld, Stays
  <1>4. ASSUME NEW u \in Task, SubmitForm(u) \/ QuickAdd(u) PROVE FALSE
    <2>1. Starts("post", u, <<>>, "request")
      BY <1>4, CreateIs
    <2>2. PICK n \in Slot : BegunIn(n, "post", u, <<>>, "request")
      BY <2>1 DEF Starts, Begun
    <2>3. s # n
      BY <1>1, <2>2 DEF BegunIn
    <2> QED BY <1>1, <1>2, <2>2, <2>3 DEF BegunIn, SameCall
  <1>5. ASSUME NEW c \in chains, c.at = "wait", ~cancelRef PROVE FALSE
    BY <1>5 DEF NothingBegins
  <1> QED BY <1>3, <1>4, <1>5, NewCreations

-----------------------------------------------------------------------------
(* A finished task gets completed. *)

\* A request that completes the task t is under way, or will be sent after the refund.
Refunds(s, t) == s \in Busy /\ ops[s].arg = t /\ ops[s].kind = "refund" /\ ops[s].at = "request"
ToComplete(s, t) ==
    /\ s \in Busy /\ ops[s].arg = t
    /\ \/ ops[s].kind = "refund" /\ ops[s].at = "failed"
       \/ ops[s].kind = "complete" /\ ops[s].at = "request"
OnItsWay(t) ==
    \/ db.status[t] = "COMPLETED"
    \/ missed[t] >= 2
    \/ \E s \in Slot : Refunds(s, t)
    \/ missed[t] >= 1 /\ \E s \in Slot : ToComplete(s, t)
FinishOnItsWay == \A t \in recorded \ moved : OnItsWay(t)

\* The requests that complete a task stay as they are.
RequestsStay ==
    \A s \in Busy :
        \/ s \in Busy' /\ ops'[s].kind = ops[s].kind /\ ops'[s].arg = ops[s].arg /\ ops'[s].at = ops[s].at
        \/ ops[s].kind \notin {"refund", "complete"}
        \/ ops[s].kind = "complete" /\ ops[s].at # "request"

\* A task whose requests stay gets completed all the same.
LEMMA StaysOnItsWay ==
  ASSUME RequestsStay, UNCHANGED <<db, missed>>, NEW t, OnItsWay(t)
  PROVE  OnItsWay(t)'
  <1>1. ASSUME NEW s \in Slot, Refunds(s, t) PROVE Refunds(s, t)'
    BY <1>1 DEF RequestsStay, Refunds
  <1>2. ASSUME NEW s \in Slot, ToComplete(s, t) PROVE ToComplete(s, t)'
    BY <1>2 DEF RequestsStay, ToComplete
  <1> QED BY <1>1, <1>2 DEF OnItsWay

\* A function that begins disturbs no request,
LEMMA StayBegun ==
  ASSUME NEW kind, NEW arg, NEW snapshot, NEW at, Starts(kind, arg, snapshot, at)
  PROVE  RequestsStay /\ UNCHANGED <<db, missed>>
  BY DEF Starts, Begun, BegunIn, SameCall, RequestsStay

\* nor does another page,
LEMMA StayShow ==
  ASSUME Types, NEW p \in Page, Show(p)
  PROVE  RequestsStay
  BY ShowIs DEF Changed, LoadsIn, Left, SameCall, RequestsStay

\* nor the end of one whose request was answered.
LEMMA StayEnded ==
  ASSUME NEW s, Ended(s), ops[s].kind # "refund", ops[s].at # "request"
  PROVE  RequestsStay
  BY DEF Ended, OthersStay, RequestsStay

\* The service completes the task, or leaves it on its way.
LEMMA ServeOnItsWay ==
  ASSUME Types, MovedOnly, IdsFresh, NEW s \in Slot, Serve(s), NEW t \in recorded \ moved, OnItsWay(t)
  PROVE  OnItsWay(t)'
  <1> DEFINE a == ops[s].arg
  <1>1. /\ s \in Busy /\ ops[s].at = "request" /\ db' = Effect(ops[s]) /\ missed' = missed
        /\ GoesOn(s)
    BY ServeIs, ServeTyped
  <1>2. t \in Task /\ db.status[t] # "NONE" /\ Stored(db, t)
    BY DEF MovedOnly, Known, Gone, Stored
  <1>3. db.status[t] = "COMPLETED" => db'.status[t] = "COMPLETED"
    <2>1. CASE ops[s].kind \in LoadKind \union {"set"}
      BY <1>1, <2>1, EffectIs
    <2>2. CASE ops[s].kind \notin LoadKind \union {"set"} /\ t # a
      BY <1>1, <1>2, <2>2, EffectIs
    <2>3. CASE ops[s].kind \notin LoadKind \union {"set"} /\ t = a
      <3>1. ops[s].kind \in TaskKind \ {"check"}
        BY <1>1, <2>3, EffectIs
      <3>2. ops[s].kind \notin {"post", "voice"}
        BY <1>1, <1>2, <2>3 DEF IdsFresh, OpsFresh, Creating, Known
      <3>3. ops[s].kind \notin {"archive", "restore", "delete", "recreate"}
        BY <1>1, <2>3 DEF MovedOnly, OpsTraced, Traced
      <3>4. ops[s].kind \in {"refund", "complete", "snooze"}
        BY <3>1, <3>2, <3>3 DEF TaskKind
      <3> QED BY <1>1, <2>3, <3>4, EffectIs
    <2> QED BY <2>1, <2>2, <2>3
  <1>4. CASE t = a /\ ops[s].kind \in {"refund", "complete"}
    <2>1. db'.status[t] = "COMPLETED"
      BY <1>1, <1>2, <1>4, EffectIs
    <2> QED BY <2>1 DEF OnItsWay
  <1>5. CASE ~(t = a /\ ops[s].kind \in {"refund", "complete"})
    <2>1. ASSUME NEW u \in Slot, Refunds(u, t) \/ ToComplete(u, t) PROVE u # s /\ ops'[u] = ops[u] /\ u \in Busy'
      BY <1>1, <1>5, <2>1 DEF GoesOn, OthersStay, Refunds, ToComplete
    <2> QED BY <1>1, <1>3, <2>1 DEF OnItsWay, Refunds, ToComplete
  <1> QED BY <1>4, <1>5

\* A loss is counted, and one request is still to come.
LEMMA LoseOnItsWay ==
  ASSUME Types, NEW s \in Slot, LoseRequest(s) \/ LoseAnswer(s), NEW t \in Task, OnItsWay(t)
  PROVE  OnItsWay(t)'
  <1>1. /\ s \in Busy /\ db' = db /\ GoesOn(s) /\ ops'[s].kind = ops[s].kind
        /\ ops'[s].arg = ops[s].arg /\ ops'[s].at = "failed" /\ ops[s].at \in {"request", "done"}
    BY LoseTyped, LoseIs
  <1>2. missed[t] \in Nat /\ missed'[t] \in Nat
    BY LoseTyped DEF Types, PageTypes
  <1>3. /\ missed'[t] >= missed[t]
        /\ ops[s].at = "request" /\ ops[s].kind \in {"refund", "complete"} /\ ops[s].arg = t =>
               missed'[t] = missed[t] + 1
    <2>1. missed \in [Task -> Nat]
      BY DEF Types, PageTypes
    <2>2. ops[s].kind \in {"refund", "complete"} => ops[s].arg \in Task
      BY <1>1 DEF Types, ArgsFit, TaskKind
    <2>3. CASE LoseRequest(s) /\ ops[s].kind \in {"refund", "complete"}
      <3>1. missed' = [missed EXCEPT ![ops[s].arg] = @ + 1]
        BY <2>3, LoseTyped
      <3> QED BY <1>2, <2>1, <2>2, <2>3, <3>1
    <2>4. CASE ~(LoseRequest(s) /\ ops[s].kind \in {"refund", "complete"})
      <3>1. missed' = missed
        BY <2>4, LoseTyped
      <3>2. ops[s].at = "request" => LoseRequest(s)
        BY LoseTyped
      <3> QED BY <1>2, <2>4, <3>1, <3>2
    <2> QED BY <2>3, <2>4
  <1>4. ASSUME NEW u \in Slot, u # s PROVE /\ Refunds(u, t) => Refunds(u, t)'
                                           /\ ToComplete(u, t) => ToComplete(u, t)'
    BY <1>1, <1>4 DEF GoesOn, OthersStay, Refunds, ToComplete
  <1>5. CASE Refunds(s, t)
    <2>1. ToComplete(s, t)'
      BY <1>1, <1>5 DEF Refunds, ToComplete, GoesOn
    <2>2. missed'[t] >= 1
      BY <1>2, <1>3, <1>5 DEF Refunds
    <2> QED BY <2>1, <2>2 DEF OnItsWay
  <1>6. CASE missed[t] >= 1 /\ ToComplete(s, t)
    <2>1. ops[s].kind = "complete" /\ ops[s].at = "request" /\ ops[s].arg = t
      BY <1>1, <1>6 DEF ToComplete
    <2>2. missed'[t] >= 2
      BY <1>2, <1>3, <1>6, <2>1
    <2> QED BY <2>2 DEF OnItsWay
  <1>7. CASE ~Refunds(s, t) /\ ~(missed[t] >= 1 /\ ToComplete(s, t))
    <2>1. missed[t] >= 1 => missed'[t] >= 1
      BY <1>2, <1>3
    <2>2. missed[t] >= 2 => missed'[t] >= 2
      BY <1>2, <1>3
    <2> QED BY <1>1, <1>4, <1>7, <2>1, <2>2 DEF OnItsWay
  <1> QED BY <1>5, <1>6, <1>7

\* After a refund that failed completeTask is sent.
LEMMA NowOnItsWay ==
  ASSUME Types, NEW s \in Slot, CompleteNow(s), NEW t, OnItsWay(t)
  PROVE  OnItsWay(t)'
  <1>1. /\ s \in Busy /\ GoesOn(s) /\ ops'[s].kind = "complete" /\ ops'[s].at = "request"
        /\ ops'[s].arg = ops[s].arg /\ UNCHANGED <<db, missed>> /\ ops[s].at # "request"
        /\ ops[s].kind # "complete"
    BY CompleteNowIs DEF Calm
  <1>2. ASSUME NEW u \in Slot, Refunds(u, t) PROVE Refunds(u, t)'
    BY <1>1, <1>2 DEF GoesOn, OthersStay, Refunds
  <1>3. ASSUME NEW u \in Slot, ToComplete(u, t) PROVE ToComplete(u, t)'
    BY <1>1, <1>3 DEF GoesOn, OthersStay, ToComplete
  <1> QED BY <1>1, <1>2, <1>3 DEF OnItsWay

\* Every step leaves the finished tasks on their way.
LEMMA FinishKept ==
  ASSUME Types, VoiceTypes, MovedOnly, IdsFresh, FinishOnItsWay, AppNext
  PROVE  FinishOnItsWay'
  <1>0. \A t \in recorded \ moved : t \in Task /\ OnItsWay(t)
    BY TypesAre DEF FinishOnItsWay
  <1>1. ASSUME RequestsStay, UNCHANGED <<db, missed, recorded>>, moved \subseteq moved'
        PROVE  FinishOnItsWay'
    BY <1>0, <1>1, StaysOnItsWay DEF FinishOnItsWay
  <1>2. CASE IdleAction
    <2>1. Idle
      BY <1>2, IdleTyped
    <2>2. RequestsStay
      BY <2>1 DEF Idle, Busy, RequestsStay
    <2> QED BY <1>1, <2>1, <2>2 DEF Idle
  <1>3. ASSUME NEW p \in Page, Show(p), clicks' \in 0 .. MaxClick, voiceOpen' \in BOOLEAN
        PROVE  FinishOnItsWay'
    BY <1>1, <1>3, StayShow, ShowTyped
  <1>4. ASSUME NEW t \in Task, Finish(t) \/ MiniFinish(t) PROVE FinishOnItsWay'
    <2>1. Starts("refund", t, list, "request") /\ recorded' = recorded \union {t} /\ moved' = moved
      BY <1>4, FinishIs
    <2>2. RequestsStay /\ UNCHANGED <<db, missed>>
      BY <2>1, StayBegun
    <2>3. OnItsWay(t)'
      <3>1. PICK n \in Slot : BegunIn(n, "refund", t, list, "request")
        BY <2>1 DEF Starts, Begun
      <3>2. Refunds(n, t)'
        BY <3>1 DEF BegunIn, Refunds
      <3> QED BY <3>2 DEF OnItsWay
    <2> QED BY <1>0, <2>1, <2>2, <2>3, StaysOnItsWay DEF FinishOnItsWay
  <1>5. ASSUME NEW t \in Task, Check(t) PROVE FinishOnItsWay'
    BY <1>1, <1>5, CheckIs, StayBegun
  <1>6. ASSUME NEW t \in Task, restore(t) PROVE FinishOnItsWay'
    BY <1>1, <1>6, RestoreIs, StayBegun
  <1>7. ASSUME NEW t \in Task, remove(t) PROVE FinishOnItsWay'
    BY <1>1, <1>7, RemoveIs, StayBegun
  <1>8. ASSUME NEW t \in Task, SubmitForm(t) \/ QuickAdd(t) PROVE FinishOnItsWay'
    BY <1>1, <1>8, CreateIs, StayBegun
  <1>9. CASE KeepZombie
    BY <1>1, <1>9, KeepIs, StayBegun
  <1>10. CASE ArchiveZombie
    BY <1>1, <1>10, ArchiveIs, StayBegun
  <1>11. CASE Undo
    BY <1>1, <1>11, UndoIs, StayBegun
  <1>12. CASE fetchTasks
    BY <1>1, <1>12, FetchIs, StayBegun
  <1>13. ASSUME NEW seconds \in Total, updateAvailable(seconds) PROVE FinishOnItsWay'
    BY <1>1, <1>13, SetIs, StayBegun
  <1>14. ASSUME NEW c \in chains, c.at = "wait", Create(c) PROVE FinishOnItsWay'
    BY <1>1, <1>14, VoiceIs, StayBegun DEF VoiceTypes
  <1>15. ASSUME NEW s \in Slot, Serve(s) PROVE FinishOnItsWay'
    BY <1>0, <1>15, ServeOnItsWay, ServeTyped DEF FinishOnItsWay, PageIs
  <1>16. ASSUME NEW s \in Slot, LoseRequest(s) \/ LoseAnswer(s) PROVE FinishOnItsWay'
    BY <1>0, <1>16, LoseOnItsWay, LoseTyped DEF FinishOnItsWay, PageIs
  <1>17. ASSUME NEW s \in Slot, CompleteNow(s) PROVE FinishOnItsWay'
    BY <1>0, <1>17, NowOnItsWay, CompleteNowIs DEF FinishOnItsWay, Calm
  <1>18. ASSUME NEW s \in Slot, Posted(s) PROVE FinishOnItsWay'
    <2>1. /\ s \in Busy /\ ops[s].kind = "post" /\ (GoesOn(s) \/ Ended(s))
          /\ UNCHANGED <<db, missed, recorded, moved>>
      BY <1>18, PostedIs DEF Calm
    <2>2. RequestsStay
      BY <2>1 DEF GoesOn, Ended, OthersStay, RequestsStay
    <2> QED BY <1>1, <2>1, <2>2
  <1>19. ASSUME NEW s \in Slot, Settle(s) \/ Loaded(s) \/ CompletedLoaded(s) \/ Refetched(s) \/ Forget(s)
                                \/ Created(s)
         PROVE  FinishOnItsWay'
    <2>1. /\ ops[s].kind # "refund" /\ ops[s].at # "request" /\ Ended(s)
          /\ UNCHANGED <<db, missed, recorded, moved>>
      BY <1>19, SettleIs, LoadedIs, CompletedIs, RefetchedIs, ForgetIs, CreatedIs DEF Calm
    <2> QED BY <1>1, <2>1, StayEnded
  <1> QED BY <1>2, <1>3, <1>4, <1>5, <1>6, <1>7, <1>8, <1>9, <1>10, <1>11, <1>12, <1>13, <1>14,
       <1>15, <1>16, <1>17, <1>18, <1>19, StepCases
     DEF PageAction, OpAction, VoiceAction, ShowAction

\* When its functions have ended, a finished task is completed.
LEMMA OnItsWayMeans ==
  ASSUME Types, FinishOnItsWay
  PROVE  FinishedIsCompleted
  <1>1. ASSUME NEW t \in recorded \ moved, missed[t] < 2, \A s \in Busy : ops[s].arg # t
        PROVE  db.status[t] = "COMPLETED"
    <2>1. missed[t] \in Nat /\ OnItsWay(t)
      BY TypesAre DEF Types, PageTypes, FinishOnItsWay
    <2>2. ~(missed[t] >= 2)
      BY <1>1, <2>1
    <2> QED BY <1>1, <2>1, <2>2 DEF OnItsWay, Refunds, ToComplete
  <1> QED BY <1>1 DEF FinishedIsCompleted

-----------------------------------------------------------------------------
(* No second is counted twice. *)

\* The timers: their types, and that at most one runs.
TimerTypes ==
    /\ clock \in 0 .. MaxTime /\ runtime \in [Task -> Entry]
    /\ \A t \in Task : runtime[t].since # 0 => runtime[t].status = "RUNNING"
OneRuns ==
    \A t, u \in Task : runtime[t].status = "RUNNING" /\ runtime[u].status = "RUNNING" => t = u
TimerInv == TimerTypes /\ OneRuns /\ TimeNotDoubled

\* What the cards show.
Times == [t \in Task |-> displaySeconds(runtime[t])]

\* Changes of the timers.
Starting(t) == runtime' = [pauseOthers EXCEPT ![t] = startEntry]
Resuming(t) == runtime' = [pauseOthers EXCEPT ![t] = resumeEntry(@)]
Pausing(t) == runtime' = [runtime EXCEPT ![t] = pauseEntry(@)]
Finishing(t) == runtime' = [runtime EXCEPT ![t] = finishEntry(@)]
Passing == clock < MaxTime /\ clock' = clock + 1 /\ runtime' = runtime

\* What a step does to the timers.
LEMMA TimerCases ==
  ASSUME AppNext
  PROVE  \/ UNCHANGED <<runtime, clock>>
         \/ Passing
         \/ clock' = clock /\ \E t \in Task : Starting(t) \/ Resuming(t) \/ Pausing(t) \/ Finishing(t)
  <1>1. ASSUME NEW t \in Task, Start(t) \/ Resume(t) \/ Pause(t)
        PROVE  clock' = clock /\ (Starting(t) \/ Resuming(t) \/ Pausing(t))
    BY <1>1 DEF Start, Resume, Pause, TimerOnly, Starting, Resuming, Pausing
  <1>2. ASSUME NEW t \in Task, Finish(t) \/ MiniFinish(t) PROVE clock' = clock /\ Finishing(t)
    BY <1>2 DEF Finish, MiniFinish, handleFinish, Finishing
  <1>3. ASSUME NEW t \in Task, Check(t) \/ OpenZombie(t) \/ restore(t) \/ remove(t)
        PROVE  UNCHANGED <<runtime, clock>>
    BY <1>3 DEF Check, OpenZombie, restore, remove, drop, timer
  <1>4. ASSUME NEW t \in Task, SubmitForm(t) \/ QuickAdd(t) PROVE UNCHANGED <<runtime, clock>>
    BY <1>4 DEF SubmitForm, QuickAdd, handleCreate, timer
  <1>5. CASE CloseZombie \/ KeepZombie \/ ArchiveZombie \/ Undo \/ ToastGone
    BY <1>5 DEF CloseZombie, KeepZombie, ArchiveZombie, Undo, ToastGone, timer
  <1>6. CASE OpenAdd \/ CloseAdd \/ EditForm \/ ChangeContext \/ fetchTasks
    BY <1>6 DEF OpenAdd, CloseAdd, EditForm, FormOnly, ChangeContext, fetchTasks, timer
  <1>7. ASSUME NEW seconds \in Total, updateAvailable(seconds) PROVE UNCHANGED <<runtime, clock>>
    BY <1>7 DEF updateAvailable, timer
  <1>8. ASSUME NEW p, Show(p) PROVE UNCHANGED <<runtime, clock>>
    BY <1>8 DEF Show, timer
  <1>9. ASSUME NEW s \in Slot, Serve(s) \/ LoseRequest(s) \/ LoseAnswer(s)
        PROVE  UNCHANGED <<runtime, clock>>
    BY <1>9 DEF Serve, LoseRequest, LoseAnswer, PageStill, timer
  <1>10. ASSUME NEW s \in Slot, Deliver(s) PROVE UNCHANGED <<runtime, clock>>
    BY <1>10
       DEF Deliver, CompleteNow, Settle, Loaded, CompletedLoaded, Posted, Refetched, Forget,
           Quiet, timer
  <1>11. CASE Tick
    BY <1>11 DEF Tick, Passing
  <1>12. CASE Next
    BY <1>1, <1>2, <1>3, <1>4, <1>5, <1>6, <1>7, <1>8, <1>9, <1>10, <1>11, <1>12
       DEF Next, Navigate
  <1>13. CASE onTrigger
    BY <1>8, <1>13 DEF onTrigger, timer
  <1>14. CASE onTestClap \/ CloseVoice \/ doBriefing \/ startListening \/ NothingHeard
    BY <1>14
       DEF onTestClap, CloseVoice, doBriefing, startListening, NothingHeard, Conversation,
           PagesStill, timer
  <1>15. ASSUME NEW t \in Task, handleVoiceResult(t) \/ handleManualSubmit(t)
         PROVE  UNCHANGED <<runtime, clock>>
    BY <1>15
       DEF handleVoiceResult, handleManualSubmit, smartParse, Conversation, PagesStill, timer
  <1>16. ASSUME NEW c \in chains, Parsed(c) \/ createFromParsed(c) \/ CloseAfterDone(c)
         PROVE  UNCHANGED <<runtime, clock>>
    BY <1>16
       DEF Parsed, createFromParsed, Create, CloseAfterDone, Conversation, PagesStill, timer
  <1>17. ASSUME NEW s \in Slot, Created(s) PROVE UNCHANGED <<runtime, clock>>
    BY <1>17 DEF Created, timer
  <1> QED BY <1>12, <1>13, <1>14, <1>15, <1>16, <1>17 DEF AppNext, Voice, Chain

\* An entry of the map.
LEMMA EntryIs ==
  ASSUME TimerTypes, NEW t \in Task
  PROVE  /\ clock \in Nat /\ runtime[t] \in Entry
         /\ runtime[t].status \in {"IDLE", "RUNNING", "PAUSED", "COMPLETED"}
         /\ runtime[t].elapsed \in 0 .. clock /\ runtime[t].since \in 0 .. clock
         /\ runtime[t].since # 0 => runtime[t].status = "RUNNING"
         /\ displaySeconds(runtime[t]) \in Nat
  <1>1. /\ clock \in Nat /\ runtime[t] \in Entry
        /\ runtime[t].since # 0 => runtime[t].status = "RUNNING"
    BY PageAssumption DEF TimerTypes
  <1> QED BY <1>1 DEF Entry, displaySeconds

\* The shown times are numbers.
LEMMA TimesAre ==
  ASSUME TimerTypes
  PROVE  Times \in [Task -> Nat] /\ \A t \in Task : Times[t] = displaySeconds(runtime[t])
  BY EntryIs DEF Times

\* No card shows more than has passed.
LEMMA ShownPassed ==
  ASSUME TimerInv, NEW t \in Task
  PROVE  displaySeconds(runtime[t]) \in 0 .. clock
  <1>1. Times \in [Task -> Nat] /\ Times[t] = displaySeconds(runtime[t]) /\ IsFiniteSet(Task)
    BY TimesAre, ServiceAssumption DEF TimerInv
  <1>2. [s \in Task \ {t} |-> Times[s]] \in [Task \ {t} -> Nat] /\ IsFiniteSet(Task \ {t})
    BY <1>1, FS_Subset
  <1>3. SumFunction([s \in Task \ {t} |-> Times[s]]) \in Nat
    BY <1>2, SumIsNat
  <1>4. SumFunction(Times) = Times[t] + SumFunction([s \in Task \ {t} |-> Times[s]])
    BY <1>1, SumWithout
  <1>5. SumFunction(Times) <= clock /\ clock \in Nat
    BY EntryIs DEF TimerInv, TimeNotDoubled, Times
  <1> QED BY <1>1, <1>3, <1>4, <1>5

\* A change after which no card shows more than before keeps the sum.
LEMMA NoMore ==
  ASSUME TimerInv, TimerTypes', clock' = clock,
         \A t \in Task : displaySeconds(runtime[t])' <= displaySeconds(runtime[t])
  PROVE  TimeNotDoubled'
  <1>1. /\ Times \in [Task -> Nat] /\ \A t \in Task : Times[t] = displaySeconds(runtime[t])
        /\ IsFiniteSet(Task)
    BY TimesAre, ServiceAssumption DEF TimerInv
  <1>2. Times' \in [Task -> Nat] /\ \A t \in Task : Times'[t] = displaySeconds(runtime[t])'
    <2>1. clock' \in Nat /\ \A t \in Task : runtime'[t] \in Entry'
      BY PageAssumption DEF TimerTypes
    <2>2. \A t \in Task : displaySeconds(runtime[t])' \in Nat
      BY <2>1 DEF Entry, displaySeconds
    <2> QED BY <2>2 DEF Times
  <1>3. SumFunction(Times') <= SumFunction(Times) + 0
    <2>1. \A t \in Task : Times'[t] <= Times[t] + (IF t = 0 THEN 0 ELSE 0)
      BY <1>1, <1>2
    <2> QED BY <1>1, <1>2, <2>1, SumGrowth
  <1>4. SumFunction(Times) <= clock /\ SumFunction(Times) \in Nat /\ SumFunction(Times') \in Nat
    BY <1>1, <1>2, SumIsNat DEF TimerInv, TimeNotDoubled, Times
  <1>5. SumFunction(Times') <= clock'
    BY <1>3, <1>4, PageAssumption DEF TimerInv, TimerTypes
  <1> QED BY <1>5 DEF TimeNotDoubled, Times

\* An entry that was not running keeps its time when the others are paused.
LEMMA PausedIs ==
  ASSUME TimerInv, NEW e \in Entry, e.since # 0 => e.status = "RUNNING",
         displaySeconds(e) \in 0 .. clock, NEW p, p = pauseEntry(e)
  PROVE  /\ p \in Entry /\ p.status # "RUNNING" /\ p.since = 0
         /\ displaySeconds(p) = displaySeconds(e)
  <1>1. CASE e.status # "RUNNING"
    BY <1>1 DEF pauseEntry, displaySeconds, Entry
  <1>2. CASE e.status = "RUNNING"
    <2>1. p = [status |-> "PAUSED", elapsed |-> displaySeconds(e), since |-> 0]
      BY <1>2 DEF pauseEntry
    <2>2. clock \in Nat
      BY PageAssumption DEF TimerInv, TimerTypes
    <2>3. p.status = "PAUSED" /\ p.elapsed = displaySeconds(e) /\ p.since = 0 /\ p \in Entry
      BY <2>1, <2>2 DEF Entry
    <2>4. displaySeconds(p) = p.elapsed
      BY <2>3 DEF displaySeconds
    <2> QED BY <2>3, <2>4
  <1> QED BY <1>1, <1>2

\* The entry that starts shows nothing yet, and one that is resumed what it showed.
LEMMA StartedIs ==
  ASSUME TimerInv, NEW e \in Entry, e.status # "RUNNING", e.since = 0, NEW p,
         p \in {startEntry, resumeEntry(e)}
  PROVE  /\ p \in Entry /\ p.status = "RUNNING" /\ displaySeconds(p) <= displaySeconds(e)
  <1>1. clock \in Nat /\ e.elapsed \in 0 .. clock /\ displaySeconds(e) = e.elapsed
    BY PageAssumption DEF TimerInv, TimerTypes, Entry, displaySeconds
  <1>2. CASE p = startEntry
    BY <1>1, <1>2 DEF startEntry, Entry, displaySeconds
  <1>3. CASE p # startEntry
    <2>1. e.status = "PAUSED" /\ p = [e EXCEPT !.status = "RUNNING", !.since = clock]
      BY <1>3 DEF resumeEntry
    <2>2. e = [status |-> e.status, elapsed |-> e.elapsed, since |-> e.since]
      BY DEF Entry
    <2>3. p = [status |-> "RUNNING", elapsed |-> e.elapsed, since |-> clock]
      BY <2>1, <2>2
    <2>4. /\ p \in Entry /\ p.status = "RUNNING" /\ p.elapsed = e.elapsed /\ p.since = clock
      BY <1>1, <2>3 DEF Entry
    <2> QED BY <1>1, <2>4 DEF displaySeconds
  <1> QED BY <1>2, <1>3

\* What the lemmas below ask of an entry.
LEMMA EntryFine ==
  ASSUME TimerInv, NEW t \in Task
  PROVE  /\ runtime[t] \in Entry /\ (runtime[t].since # 0 => runtime[t].status = "RUNNING")
         /\ displaySeconds(runtime[t]) \in 0 .. clock /\ clock \in Nat
  <1>1. displaySeconds(runtime[t]) \in 0 .. clock
    BY ShownPassed
  <1> QED BY <1>1, EntryIs DEF TimerInv

\* Every step keeps the account of the seconds.
LEMMA TimerKept ==
  ASSUME TimerInv, AppNext
  PROVE  TimerInv'
  <1>0. /\ clock \in 0 .. MaxTime /\ clock \in Nat /\ runtime \in [Task -> Entry]
        /\ \A t \in Task : /\ runtime[t] \in Entry
                            /\ runtime[t].since # 0 => runtime[t].status = "RUNNING"
    BY EntryIs, PageAssumption DEF TimerInv, TimerTypes
  <1>1. CASE UNCHANGED <<runtime, clock>>
    BY <1>1 DEF TimerInv, TimerTypes, OneRuns, TimeNotDoubled, Entry, displaySeconds
  <1>2. CASE Passing
    <2>1. clock' = clock + 1 /\ runtime' = runtime /\ clock < MaxTime
      BY <1>2 DEF Passing
    <2>2. TimerTypes'
      <3>1. clock' \in 0 .. MaxTime
        BY <1>0, <2>1, PageAssumption
      <3>2. Entry \subseteq Entry'
        BY <1>0, <2>1 DEF Entry
      <3> QED BY <1>0, <2>1, <3>1, <3>2 DEF TimerTypes
    <2>3. OneRuns'
      BY <2>1 DEF TimerInv, OneRuns
    <2>4. TimeNotDoubled'
      <3> DEFINE shown(t) == displaySeconds(runtime[t])
      <3>1. PICK a : \A t \in Task : runtime[t].status = "RUNNING" => t = a
        BY DEF TimerInv, OneRuns
      <3>2. ASSUME NEW t \in Task
            PROVE  /\ displaySeconds(runtime[t])' \in Nat
                   /\ displaySeconds(runtime[t])'
                          <= displaySeconds(runtime[t]) + (IF t = a THEN 1 ELSE 0)
        <4>1. /\ runtime[t].elapsed \in Nat /\ runtime[t].since \in 0 .. clock
              /\ runtime[t].status = "RUNNING" => t = a
          BY <1>0, <3>1 DEF Entry
        <4> QED BY <1>0, <2>1, <4>1 DEF displaySeconds
      <3>3. /\ Times \in [Task -> Nat] /\ \A t \in Task : Times[t] = displaySeconds(runtime[t])
            /\ IsFiniteSet(Task)
        BY TimesAre, ServiceAssumption DEF TimerInv
      <3>4. Times' \in [Task -> Nat] /\ \A t \in Task : Times'[t] = displaySeconds(runtime[t])'
        BY <3>2 DEF Times
      <3>5. \A t \in Task : Times'[t] <= Times[t] + (IF t = a THEN 1 ELSE 0)
        BY <3>2, <3>3, <3>4
      <3>6. SumFunction(Times') <= SumFunction(Times) + 1
        BY <3>3, <3>4, <3>5, SumGrowth
      <3>7. SumFunction(Times) <= clock /\ SumFunction(Times) \in Nat /\ SumFunction(Times') \in Nat
        BY <3>3, <3>4, SumIsNat DEF TimerInv, TimeNotDoubled, Times
      <3>8. SumFunction(Times') <= clock'
        BY <1>0, <2>1, <3>6, <3>7
      <3> QED BY <3>8 DEF TimeNotDoubled, Times
    <2> QED BY <2>2, <2>3, <2>4 DEF TimerInv
  \* The entries change at one time of the clock.
  <1>3. ASSUME clock' = clock, runtime' = [u \in Task |-> runtime'[u]],
               \A u \in Task :
                  /\ runtime'[u] \in Entry
                  /\ runtime'[u].since # 0 => runtime'[u].status = "RUNNING"
                  /\ displaySeconds(runtime'[u]) <= displaySeconds(runtime[u]),
               OneRuns'
        PROVE  TimerInv'
    <2>1. Entry' = Entry
      BY <1>3 DEF Entry
    <2>2. TimerTypes'
      <3>1. runtime' \in [Task -> Entry]
        BY <1>3
      <3> QED BY <1>0, <1>3, <2>1, <3>1 DEF TimerTypes
    <2>3. \A t \in Task : displaySeconds(runtime[t])' <= displaySeconds(runtime[t])
      BY <1>3 DEF displaySeconds
    <2> QED BY <1>3, <2>2, <2>3, NoMore DEF TimerInv
  <1>4. ASSUME clock' = clock, NEW t \in Task, Starting(t) \/ Resuming(t) PROVE TimerInv'
    <2>1. /\ runtime' = [u \in Task |-> runtime'[u]]
          /\ \A u \in Task \ {t} : runtime'[u] = pauseEntry(runtime[u])
          /\ runtime'[t] \in {startEntry, resumeEntry(pauseEntry(runtime[t]))}
      BY <1>4 DEF Starting, Resuming, pauseOthers
    <2>2. ASSUME NEW u \in Task, u # t
          PROVE  /\ runtime'[u] \in Entry /\ runtime'[u].since = 0 /\ runtime'[u].status # "RUNNING"
                 /\ displaySeconds(runtime'[u]) = displaySeconds(runtime[u])
      <3>1. /\ runtime[u] \in Entry /\ (runtime[u].since # 0 => runtime[u].status = "RUNNING")
            /\ displaySeconds(runtime[u]) \in 0 .. clock
        BY EntryFine
      <3>2. runtime'[u] = pauseEntry(runtime[u])
        BY <2>1, <2>2
      <3> QED BY <3>1, <3>2, PausedIs
    <2>3. /\ runtime'[t] \in Entry /\ runtime'[t].status = "RUNNING"
          /\ displaySeconds(runtime'[t]) <= displaySeconds(runtime[t])
      <3>1. PICK e : e = pauseEntry(runtime[t])
        OBVIOUS
      <3>2. /\ e \in Entry /\ e.status # "RUNNING" /\ e.since = 0
            /\ displaySeconds(e) = displaySeconds(runtime[t])
        <4>1. /\ runtime[t] \in Entry /\ (runtime[t].since # 0 => runtime[t].status = "RUNNING")
              /\ displaySeconds(runtime[t]) \in 0 .. clock
          BY EntryFine
        <4> QED BY <3>1, <4>1, PausedIs
      <3>3. runtime'[t] \in {startEntry, resumeEntry(e)}
        BY <2>1, <3>1
      <3> QED BY <3>2, <3>3, StartedIs
    <2>4. OneRuns'
      BY <2>2 DEF OneRuns
    <2>5. ASSUME NEW u \in Task
          PROVE  /\ runtime'[u] \in Entry
                 /\ runtime'[u].since # 0 => runtime'[u].status = "RUNNING"
                 /\ displaySeconds(runtime'[u]) <= displaySeconds(runtime[u])
      <3>1. CASE u = t
        BY <2>3, <3>1
      <3>2. CASE u # t
        <4>1. displaySeconds(runtime[u]) \in 0 .. clock /\ clock \in Nat
          BY EntryFine
        <4> QED BY <2>2, <3>2, <4>1
      <3> QED BY <3>1, <3>2
    <2> QED BY <1>3, <1>4, <2>1, <2>4, <2>5
  <1>5. ASSUME clock' = clock, NEW t \in Task, Pausing(t) \/ Finishing(t) PROVE TimerInv'
    <2>1. /\ runtime' = [u \in Task |-> runtime'[u]]
          /\ \A u \in Task \ {t} : runtime'[u] = runtime[u]
          /\ runtime'[t] \in {pauseEntry(runtime[t]), finishEntry(runtime[t])}
      BY <1>0, <1>5 DEF Pausing, Finishing
    <2>2. /\ runtime'[t] \in Entry /\ runtime'[t].since = 0 /\ runtime'[t].status # "RUNNING"
          /\ displaySeconds(runtime'[t]) = displaySeconds(runtime[t])
      <3>0. /\ runtime[t] \in Entry /\ (runtime[t].since # 0 => runtime[t].status = "RUNNING")
            /\ displaySeconds(runtime[t]) \in 0 .. clock
        BY EntryFine
      <3>1. CASE runtime'[t] = pauseEntry(runtime[t])
        BY <3>0, <3>1, PausedIs
      <3>2. CASE runtime'[t] = runtime[t] /\ runtime[t].status # "RUNNING"
        BY <1>0, <3>2
      <3>3. CASE runtime'[t] = [status |-> "COMPLETED", elapsed |-> displaySeconds(runtime[t]), since |-> 0]
        <4>1. /\ runtime'[t].status = "COMPLETED" /\ runtime'[t].since = 0
              /\ runtime'[t].elapsed = displaySeconds(runtime[t]) /\ runtime'[t] \in Entry
          <5>1. 0 \in 0 .. clock
            BY <1>0
          <5> QED BY <3>0, <3>3, <5>1 DEF Entry
        <4>2. displaySeconds(runtime'[t]) = runtime'[t].elapsed
          BY <4>1 DEF displaySeconds
        <4> QED BY <4>1, <4>2
      <3> QED BY <2>1, <3>1, <3>2, <3>3 DEF finishEntry
    <2>3. OneRuns'
      BY <2>1, <2>2 DEF TimerInv, OneRuns
    <2>4. ASSUME NEW u \in Task
          PROVE  /\ runtime'[u] \in Entry
                 /\ runtime'[u].since # 0 => runtime'[u].status = "RUNNING"
                 /\ displaySeconds(runtime'[u]) <= displaySeconds(runtime[u])
      <3>1. CASE u = t
        <4>1. displaySeconds(runtime[t]) \in 0 .. clock /\ clock \in Nat
          BY EntryFine
        <4> QED BY <2>2, <3>1, <4>1
      <3>2. CASE u # t
        <4>1. /\ displaySeconds(runtime[u]) \in 0 .. clock /\ clock \in Nat /\ runtime[u] \in Entry
              /\ (runtime[u].since # 0 => runtime[u].status = "RUNNING")
          BY EntryFine
        <4>2. runtime'[u] = runtime[u]
          BY <2>1, <3>2
        <4> QED BY <4>1, <4>2
      <3> QED BY <3>1, <3>2
    <2> QED BY <1>3, <1>5, <2>1, <2>3, <2>4
  <1> QED BY <1>1, <1>2, <1>4, <1>5, TimerCases

-----------------------------------------------------------------------------
(* A function that runs alone. *)

AloneIs == \A s \in Busy : ops[s].alone => Busy = {s}
\* While the page is known to agree, no function overlaps another or has lost its page.
FreshIs == fresh => \A s \in Busy : Busy = {s} /\ ops[s].live /\ ops[s].alone
\* What a load that is alone brings is still so.
LoadIs ==
    \A s \in Busy : ops[s].alone /\ ops[s].live /\ ops[s].at = "done" =>
        /\ ops[s].kind \in {"fetch", "refetch"} => ops[s].list = ListOf(db, "PENDING")
        /\ ops[s].kind = "items" => ops[s].list = ListOf(db, "ARCHIVED")
LoneInv == AloneIs /\ FreshIs /\ LoadIs

\* A function that begins is alone if nothing else runs.
LEMMA LoneBegun ==
  ASSUME Types, LoneInv, NEW kind, NEW arg, NEW snapshot, NEW at, Starts(kind, arg, snapshot, at),
         fresh' => fresh /\ Busy = {}, at = "done" => kind \notin {"fetch", "refetch", "items"}
  PROVE  LoneInv'
  <1>1. PICK n \in Slot : BegunIn(n, kind, arg, snapshot, at)
    BY DEF Starts, Begun
  <1>2. /\ Busy' = Busy \union {n} /\ n \notin Busy /\ ops'[n].alone = (Busy = {})
        /\ ops'[n].live = TRUE /\ ops'[n].kind = kind /\ ops'[n].at = at
    BY <1>1 DEF BegunIn
  <1>3. \A s \in Busy : ops'[s].alone = FALSE
    BY <1>1 DEF BegunIn
  <1>4. AloneIs'
    BY <1>2, <1>3 DEF AloneIs
  <1>5. FreshIs'
    BY <1>2 DEF FreshIs
  <1>6. LoadIs'
    BY <1>2, <1>3 DEF LoadIs
  <1> QED BY <1>4, <1>5, <1>6 DEF LoneInv

\* What is left behind brings nothing, and a load that runs beside it is not alone.
LEMMA LoneShow ==
  ASSUME Types, LoneInv, NEW p \in Page, Show(p), fresh' = FALSE
  PROVE  LoneInv'
  <1>1. Changed(p)
    BY ShowIs
  <1>2. AloneIs'
    <2>1. CASE Opening(p) = "none"
      BY <1>1, <2>1 DEF Changed, Left, LoneInv, AloneIs
    <2>2. CASE Opening(p) # "none"
      <3>1. PICK n \in Slot : LoadsIn(n, p)
        BY <1>1, <2>2 DEF Changed
      <3>2. Busy' = Busy \union {n} /\ n \notin Busy /\ ops'[n].alone = (Busy = {})
        BY <3>1 DEF LoadsIn
      <3>3. \A s \in Busy : ~ops'[s].alone
        BY <1>1, <2>2 DEF Changed, Left
      <3> QED BY <3>2, <3>3 DEF AloneIs
    <2> QED BY <2>1, <2>2
  <1>3. LoadIs'
    <2>1. ASSUME NEW s \in Busy', ops'[s].live, ops'[s].at = "done" PROVE FALSE
      <3>1. s \notin Busy
        BY <1>1, <2>1 DEF Changed, Left
      <3>2. PICK n \in Slot : LoadsIn(n, p)
        BY <1>1, <2>1, <3>1 DEF Changed
      <3> QED BY <2>1, <3>1, <3>2 DEF LoadsIn
    <2> QED BY <2>1 DEF LoadIs
  <1> QED BY <1>2, <1>3 DEF LoneInv, FreshIs

\* A function that goes on is as alone as before.
LEMMA LoneGoesOn ==
  ASSUME Types, LoneInv, NEW s, GoesOn(s), db' = db, ops'[s].alone = ops[s].alone,
         ops'[s].live = ops[s].live, ops'[s].at # "done", fresh' => fresh
  PROVE  LoneInv'
  BY DEF LoneInv, AloneIs, FreshIs, LoadIs, GoesOn, OthersStay

\* One that ends leaves nobody who thought to be alone.
LEMMA LoneEnded ==
  ASSUME Types, LoneInv, NEW s, Ended(s), db' = db, fresh' => fresh \/ ops[s].alone
  PROVE  LoneInv'
  <1>1. AloneIs'
    BY DEF LoneInv, AloneIs, Ended, OthersStay
  <1>2. FreshIs'
    <2>1. fresh' => Busy = {s}
      BY DEF LoneInv, AloneIs, FreshIs, Ended
    <2> QED BY <2>1 DEF FreshIs, Ended
  <1>3. LoadIs'
    BY DEF LoneInv, LoadIs, Ended, OthersStay
  <1> QED BY <1>1, <1>2, <1>3 DEF LoneInv

\* The answer to a load that is alone is the list of the service.
LEMMA LoneServe ==
  ASSUME Types, LoneInv, NEW s \in Slot, Serve(s)
  PROVE  LoneInv'
  <1>1. /\ GoesOn(s) /\ ops'[s].kind = ops[s].kind /\ ops'[s].arg = ops[s].arg
        /\ ops'[s].live = ops[s].live /\ ops'[s].alone = ops[s].alone
        /\ s \in Busy /\ ops[s].at = "request" /\ db' = Effect(ops[s]) /\ fresh' = fresh
    BY ServeIs, ServeTyped
  <1>2. AloneIs' /\ FreshIs'
    BY <1>1 DEF LoneInv, AloneIs, FreshIs, GoesOn, OthersStay
  <1>3. ASSUME NEW u \in Busy', ops'[u].alone
        PROVE  /\ ops'[u].kind \in {"fetch", "refetch"} => ops'[u].list = ListOf(db, "PENDING")'
               /\ ops'[u].kind = "items" => ops'[u].list = ListOf(db, "ARCHIVED")'
    <2>1. u = s
      BY <1>1, <1>3 DEF LoneInv, AloneIs, GoesOn, OthersStay
    <2>2. CASE ops[s].kind \in {"fetch", "refetch", "items"}
      <3>1. db'.status = db.status /\ db'.delay = db.delay
        BY <1>1, <2>2, EffectIs DEF LoadKind
      <3>2. ListOf(db, "PENDING")' = ListOf(db, "PENDING") /\ ListOf(db, "ARCHIVED")' = ListOf(db, "ARCHIVED")
        BY <3>1 DEF ListOf, InStatus
      <3>3. CASE ops[s].kind \in {"fetch", "refetch"}
        <4>1. ops'[s].list = ListOf(db, "PENDING")
          BY <3>3, ServeIs
        <4> QED BY <1>1, <2>1, <3>2, <3>3, <4>1
      <3>4. CASE ops[s].kind = "items"
        <4>1. ops'[s].list = ListOf(db, "ARCHIVED")
          BY <3>4, ServeIs
        <4> QED BY <1>1, <2>1, <3>2, <3>4, <4>1
      <3> QED BY <2>2, <3>3, <3>4
    <2>3. CASE ops[s].kind \notin {"fetch", "refetch", "items"}
      BY <1>1, <2>1, <2>3
    <2> QED BY <2>2, <2>3
  <1>4. LoadIs'
    BY <1>3 DEF LoadIs
  <1> QED BY <1>2, <1>4 DEF LoneInv

\* Every step keeps this.
LEMMA LoneKept ==
  ASSUME Types, VoiceTypes, LoneInv, AppNext
  PROVE  LoneInv'
  <1>1. CASE IdleAction
    BY <1>1, IdleTyped DEF Idle, Busy, LoneInv, AloneIs, FreshIs, LoadIs
  <1>2. ASSUME NEW p \in Page, Show(p), clicks' \in 0 .. MaxClick, voiceOpen' \in BOOLEAN
        PROVE  LoneInv'
    BY <1>2, LoneShow, ShowTyped
  <1>3. ASSUME NEW t \in Task, Finish(t) \/ MiniFinish(t) PROVE LoneInv'
    <2>1. Starts("refund", t, list, "request") /\ fresh' = (fresh /\ Busy = {})
      BY <1>3, FinishIs
    <2> QED BY <2>1, LoneBegun
  <1>4. ASSUME NEW t \in Task, Check(t) PROVE LoneInv'
    <2>1. Starts("check", t, list, "done") /\ fresh' = (fresh /\ Busy = {})
      BY <1>4, CheckIs
    <2> QED BY <2>1, LoneBegun
  <1>5. ASSUME NEW t \in Task, restore(t) PROVE LoneInv'
    <2>1. Starts("restore", t, <<>>, "request") /\ fresh' = (fresh /\ Busy = {})
      BY <1>5, RestoreIs
    <2> QED BY <2>1, LoneBegun
  <1>6. ASSUME NEW t \in Task, remove(t) PROVE LoneInv'
    <2>1. Starts("delete", t, <<>>, "request") /\ fresh' = (fresh /\ Busy = {})
      BY <1>6, RemoveIs
    <2> QED BY <2>1, LoneBegun
  <1>7. ASSUME NEW t \in Task, SubmitForm(t) \/ QuickAdd(t) PROVE LoneInv'
    <2>1. Starts("post", t, <<>>, "request") /\ fresh' = (fresh /\ Busy = {})
      BY <1>7, CreateIs
    <2> QED BY <2>1, LoneBegun
  <1>8. CASE KeepZombie
    <2>1. Starts("snooze", modal, list, "request") /\ (fresh' => fresh /\ Busy = {})
      BY <1>8, KeepIs
    <2> QED BY <2>1, LoneBegun
  <1>9. CASE ArchiveZombie
    <2>1. Starts("archive", modal, list, "request") /\ fresh' = (fresh /\ Busy = {})
      BY <1>9, ArchiveIs
    <2> QED BY <2>1, LoneBegun
  <1>10. CASE Undo
    <2>1. Starts(undo.kind, undo.arg, <<>>, "request") /\ (fresh' => fresh /\ Busy = {})
      BY <1>10, UndoIs
    <2> QED BY <2>1, LoneBegun
  <1>11. CASE fetchTasks
    <2>1. Starts("fetch", NoTask, <<>>, "request") /\ fresh' = (fresh /\ Busy = {})
      BY <1>11, FetchIs
    <2> QED BY <2>1, LoneBegun
  <1>12. ASSUME NEW seconds \in Total, updateAvailable(seconds) PROVE LoneInv'
    <2>1. Starts("set", seconds, <<>>, "request") /\ fresh' = (fresh /\ Busy = {})
      BY <1>12, SetIs
    <2> QED BY <2>1, LoneBegun
  <1>13. ASSUME NEW c \in chains, c.at = "wait", Create(c) PROVE LoneInv'
    <2>1. Starts("voice", c.arg, <<>>, "request") /\ fresh' = FALSE
      BY <1>13, VoiceIs DEF VoiceTypes
    <2> QED BY <2>1, LoneBegun
  <1>14. ASSUME NEW s \in Slot, Serve(s) PROVE LoneInv'
    BY <1>14, LoneServe
  <1>15. ASSUME NEW s \in Slot, LoseRequest(s) \/ LoseAnswer(s) PROVE LoneInv'
    <2>1. /\ GoesOn(s) /\ db' = db /\ ops'[s].alone = ops[s].alone /\ ops'[s].live = ops[s].live
          /\ ops'[s].at = "failed" /\ (fresh' => fresh)
      BY <1>15, LoseIs, LoseTyped
    <2> QED BY <2>1, LoneGoesOn
  <1>16. ASSUME NEW s \in Slot, CompleteNow(s) PROVE LoneInv'
    <2>1. /\ GoesOn(s) /\ db' = db /\ ops'[s].alone = ops[s].alone /\ ops'[s].live = ops[s].live
          /\ ops'[s].at = "request" /\ fresh' = fresh
      BY <1>16, CompleteNowIs DEF Calm
    <2> QED BY <2>1, LoneGoesOn
  <1>17. ASSUME NEW s \in Slot, Posted(s) PROVE LoneInv'
    <2>1. /\ db' = db /\ fresh' = fresh
          /\ \/ /\ GoesOn(s) /\ ops'[s].alone = ops[s].alone /\ ops'[s].live = ops[s].live
                /\ ops'[s].at = "request"
             \/ Ended(s)
      BY <1>17, PostedIs DEF Calm
    <2> QED BY <2>1, LoneGoesOn, LoneEnded
  <1>18. ASSUME NEW s \in Slot, Settle(s) \/ Forget(s) \/ Created(s) PROVE LoneInv'
    <2>1. db' = db /\ fresh' = fresh /\ Ended(s)
      BY <1>18, SettleIs, ForgetIs, CreatedIs DEF Calm
    <2> QED BY <2>1, LoneEnded
  <1>19. ASSUME NEW s \in Slot, Loaded(s) \/ Refetched(s) \/ CompletedLoaded(s) PROVE LoneInv'
    <2>1. db' = db /\ Ended(s) /\ (fresh' => fresh \/ ops[s].alone)
      BY <1>19, LoadedIs, RefetchedIs, CompletedIs DEF Calm, Arrives
    <2> QED BY <2>1, LoneEnded
  <1> QED BY <1>1, <1>2, <1>3, <1>4, <1>5, <1>6, <1>7, <1>8, <1>9, <1>10, <1>11, <1>12, <1>13,
       <1>14, <1>15, <1>16, <1>17, <1>18, <1>19, StepCases
     DEF PageAction, OpAction, VoiceAction, ShowAction

-----------------------------------------------------------------------------
(* A page that has not been loaded shows nothing, and nothing can be done on it. *)

LiveLoad(s) == s \in Busy /\ ops[s].live /\ ops[s].kind \in {"fetch", "items"}
LoadedOnce == page \in {"important", "archive"}
Loading == LoadedOnce /\ (armed \/ \E s \in Slot : LiveLoad(s))
\* Important and Archive are loaded once, when they are opened.
OneLoad ==
    LoadedOnce => /\ \A s, u \in Slot : LiveLoad(s) /\ LiveLoad(u) => s = u
                  /\ armed => \A s \in Slot : ~LiveLoad(s)
RollsBack(s) == s \in Busy /\ ops[s].live /\ ops[s].kind \in Rolls
Offers == undo # NoUndo /\ undo.live
Blank == DOMAIN list = {} /\ modal = NoTask /\ ~Offers /\ \A s \in Slot : ~RollsBack(s)
LoadInv == OneLoad /\ (Loading => Blank)

\* Nothing begins on a page that has not been loaded, but what the page left behind began.
LEMMA LoadBegun ==
  ASSUME Types, LoadInv, NEW kind, NEW arg, NEW snapshot, NEW at, Starts(kind, arg, snapshot, at),
         kind \notin {"fetch", "items"}, armed' = armed,
         Loading => kind \notin Rolls /\ DOMAIN list' = {} /\ modal' = NoTask /\ ~Offers'
  PROVE  LoadInv'
  <1>1. PICK n \in Slot : BegunIn(n, kind, arg, snapshot, at)
    BY DEF Starts, Begun
  <1>2. /\ Busy' = Busy \union {n} /\ n \notin Busy /\ ops'[n].kind = kind /\ page' = page
        /\ \A s \in Busy : ops'[s].kind = ops[s].kind /\ ops'[s].live = ops[s].live
    BY <1>1 DEF BegunIn, SameCall, Starts
  <1>3. \A s \in Slot : LiveLoad(s)' <=> LiveLoad(s)
    BY <1>2 DEF LiveLoad
  <1>4. OneLoad' /\ (Loading' => Loading)
    BY <1>2, <1>3 DEF LoadInv, OneLoad, Loading, LoadedOnce
  <1>5. Loading => \A s \in Slot : ~RollsBack(s)'
    BY <1>2 DEF LoadInv, Blank, RollsBack
  <1> QED BY <1>4, <1>5 DEF LoadInv, Blank

\* The only load of a page begins.
LEMMA LoadFetched ==
  ASSUME Types, Places, LoadInv, fetchTasks
  PROVE  LoadInv'
  <1>1. /\ armed = TRUE /\ armed' = FALSE /\ Starts("fetch", NoTask, <<>>, "request")
        /\ UNCHANGED <<list, modal, undo>>
    BY FetchIs
  <1>2. PICK n \in Slot : BegunIn(n, "fetch", NoTask, <<>>, "request")
    BY <1>1 DEF Starts, Begun
  <1>3. /\ Busy' = Busy \union {n} /\ n \notin Busy /\ ops'[n].kind = "fetch" /\ page' = page
        /\ \A s \in Busy : ops'[s].kind = ops[s].kind /\ ops'[s].live = ops[s].live
    BY <1>1, <1>2 DEF BegunIn, SameCall, Starts
  <1>4. CASE ~LoadedOnce
    BY <1>3, <1>4 DEF LoadInv, OneLoad, Loading, LoadedOnce
  <1>5. CASE LoadedOnce
    <2>1. \A s \in Slot : ~LiveLoad(s)
      BY <1>1, <1>5 DEF LoadInv, OneLoad
    <2>2. \A s \in Slot : LiveLoad(s)' => s = n
      BY <1>3, <2>1 DEF LiveLoad
    <2>3. Blank
      BY <1>1, <1>5 DEF LoadInv, Loading
    <2>4. \A s \in Slot : ~RollsBack(s)'
      BY <1>3, <2>3 DEF Blank, RollsBack, Rolls
    <2> QED BY <1>1, <2>2, <2>3, <2>4 DEF LoadInv, OneLoad, Blank, Offers
  <1> QED BY <1>4, <1>5

\* A page that has just been shown is blank.
LEMMA LoadShow ==
  ASSUME Types, NEW p \in Page, Show(p), clicks' \in 0 .. MaxClick, voiceOpen' \in BOOLEAN
  PROVE  LoadInv'
  <1>1. /\ Changed(p) /\ page' = p /\ list' = <<>> /\ modal' = NoTask
        /\ armed' = (Opening(p) = "none")
        /\ undo' = IF undo = NoUndo THEN undo ELSE [undo EXCEPT !.live = FALSE]
        /\ undo \in Undos
    BY ShowIs, ShowTyped, TypesAre
  <1>2. DOMAIN list' = {} /\ ~Offers'
    BY <1>1, EmptyList DEF Offers, Undos, NoUndo
  <1>3. CASE Opening(p) = "none"
    <2>1. \A s \in Slot : ~LiveLoad(s)' /\ ~RollsBack(s)'
      BY <1>1, <1>3 DEF Changed, Left, LiveLoad, RollsBack
    <2> QED BY <1>1, <1>2, <2>1 DEF LoadInv, OneLoad, Blank
  <1>4. CASE Opening(p) # "none"
    <2>1. PICK n \in Slot : LoadsIn(n, p)
      BY <1>1, <1>4 DEF Changed
    <2>2. Busy' = Busy \union {n} /\ ops'[n].kind = Opening(p)
      BY <2>1 DEF LoadsIn
    <2>3. \A s \in Busy : ~ops'[s].live
      BY <1>1 DEF Changed, Left
    <2>4. ~armed'
      BY <1>1, <1>4
    <2>5. \A s \in Slot : LiveLoad(s)' => s = n
      BY <2>2, <2>3 DEF LiveLoad
    <2>6. Opening(p) \notin Rolls
      BY DEF Opening, Rolls
    <2>7. \A s \in Slot : ~RollsBack(s)'
      BY <2>2, <2>3, <2>6 DEF RollsBack
    <2> QED BY <1>1, <1>2, <2>4, <2>5, <2>7 DEF LoadInv, OneLoad, Blank
  <1> QED BY <1>3, <1>4

\* A function that goes on leaves a blank page blank.
LEMMA LoadGoesOn ==
  ASSUME LoadInv, NEW s, GoesOn(s), UNCHANGED <<page, armed, modal, undo>>,
         ops'[s].live = ops[s].live, RollsBack(s)' => RollsBack(s),
         ops'[s].kind \in {"fetch", "items"} => ops'[s].kind = ops[s].kind,
         Loading => DOMAIN list' = DOMAIN list
  PROVE  LoadInv'
  <1>1. \A u \in Slot : /\ LiveLoad(u)' => LiveLoad(u)
                        /\ RollsBack(u)' => RollsBack(u)
    BY DEF GoesOn, OthersStay, LiveLoad, RollsBack
  <1>2. OneLoad' /\ (Loading' => Loading)
    BY <1>1 DEF LoadInv, OneLoad, Loading, LoadedOnce
  <1> QED BY <1>1, <1>2 DEF LoadInv, Blank, Offers

\* One that ends, too, unless it is the load.
LEMMA LoadEnded ==
  ASSUME LoadInv, NEW s, Ended(s), UNCHANGED <<page, armed, modal>>, undo' \in {undo, NoUndo},
         LiveLoad(s) \/ (Loading => DOMAIN list' = DOMAIN list)
  PROVE  LoadInv'
  <1>1. \A u \in Slot : /\ LiveLoad(u)' => LiveLoad(u) /\ u # s
                        /\ RollsBack(u)' => RollsBack(u)
    BY DEF Ended, OthersStay, LiveLoad, RollsBack
  <1>2. OneLoad' /\ (Loading' => Loading)
    BY <1>1 DEF LoadInv, OneLoad, Loading, LoadedOnce
  <1>3. CASE LiveLoad(s) /\ s \in Slot
    <2>1. ~Loading'
      BY <1>1, <1>3 DEF LoadInv, OneLoad, Loading, LoadedOnce
    <2> QED BY <1>2, <2>1 DEF LoadInv
  <1>4. CASE Loading => DOMAIN list' = DOMAIN list
    BY <1>1, <1>2, <1>4 DEF LoadInv, Blank, Offers
  <1> QED BY <1>3, <1>4 DEF LiveLoad, Busy

\* Every step keeps a page that has not been loaded blank.
LEMMA LoadKept ==
  ASSUME Types, VoiceTypes, Places, LoadInv, AppNext
  PROVE  LoadInv'
  <1>1. page = "today" => ~Loading
    BY DEF Loading, LoadedOnce
  <1>2. Loading => /\ DOMAIN list = {} /\ modal = NoTask /\ ~Offers
                   /\ \A s \in Slot : ~RollsBack(s)
    BY DEF LoadInv, Blank
  <1>3. CASE IdleAction
    <2>1. Idle
      BY <1>3, IdleTyped
    <2>2. /\ page' = page /\ list' = list /\ undo' \in {undo, NoUndo}
          /\ armed' = armed \/ page = "today"
          /\ modal' \in {modal, NoTask} \/ modal' \in DOMAIN list
      BY <2>1 DEF Idle
    <2>3. \A s \in Slot : (LiveLoad(s)' <=> LiveLoad(s)) /\ (RollsBack(s)' <=> RollsBack(s))
      BY <2>1 DEF Idle, LiveLoad, RollsBack, Busy
    <2>4. OneLoad' /\ (Loading' => Loading)
      BY <2>2, <2>3 DEF LoadInv, OneLoad, Loading, LoadedOnce
    <2> QED BY <1>2, <2>2, <2>3, <2>4 DEF LoadInv, Blank, Offers
  <1>4. ASSUME NEW p \in Page, Show(p), clicks' \in 0 .. MaxClick, voiceOpen' \in BOOLEAN
        PROVE  LoadInv'
    BY <1>4, LoadShow
  <1>5. ASSUME NEW t \in Task, Finish(t) \/ MiniFinish(t) PROVE LoadInv'
    <2>1. Starts("refund", t, list, "request") /\ page = "today" /\ armed' = armed
      BY <1>5, FinishIs
    <2> QED BY <1>1, <2>1, LoadBegun
  <1>6. ASSUME NEW t \in Task, Check(t) PROVE LoadInv'
    <2>1. Starts("check", t, list, "done") /\ t \in DOMAIN list /\ armed' = armed
      BY <1>6, CheckIs
    <2> QED BY <1>2, <2>1, LoadBegun
  <1>7. ASSUME NEW t \in Task, restore(t) PROVE LoadInv'
    <2>1. Starts("restore", t, <<>>, "request") /\ t \in DOMAIN list /\ armed' = armed
      BY <1>7, RestoreIs
    <2> QED BY <1>2, <2>1, LoadBegun
  <1>8. ASSUME NEW t \in Task, remove(t) PROVE LoadInv'
    <2>1. Starts("delete", t, <<>>, "request") /\ t \in DOMAIN list /\ armed' = armed
      BY <1>8, RemoveIs
    <2> QED BY <1>2, <2>1, LoadBegun
  <1>9. ASSUME NEW t \in Task, SubmitForm(t) \/ QuickAdd(t) PROVE LoadInv'
    <2>1. Starts("post", t, <<>>, "request") /\ (page = "today" \/ form.open) /\ armed' = armed
      BY <1>9, CreateIs
    <2>2. page = "today"
      BY <2>1 DEF Places, ShellPlaces
    <2> QED BY <1>1, <2>1, <2>2, LoadBegun
  <1>10. CASE KeepZombie
    <2>1. Starts("snooze", modal, list, "request") /\ modal # NoTask /\ armed' = armed
      BY <1>10, KeepIs
    <2> QED BY <1>2, <2>1, LoadBegun
  <1>11. CASE ArchiveZombie
    <2>1. Starts("archive", modal, list, "request") /\ modal # NoTask /\ armed' = armed
      BY <1>11, ArchiveIs
    <2> QED BY <1>2, <2>1, LoadBegun
  <1>12. CASE Undo
    <2>1. /\ Starts(undo.kind, undo.arg, <<>>, "request") /\ undo # NoUndo /\ undo' = NoUndo
          /\ undo.kind \in {"restore", "recreate"} /\ UNCHANGED <<armed, modal>>
          /\ list' = IF undo.live THEN Reinserted(list, undo.arg, undo.delay) ELSE list
      BY <1>12, UndoIs
    <2>2. Loading => /\ undo.kind \notin Rolls /\ DOMAIN list' = {} /\ modal' = NoTask
                     /\ ~Offers'
      BY <1>2, <2>1 DEF Offers, Rolls
    <2> QED BY <2>1, <2>2, LoadBegun
  <1>13. CASE fetchTasks
    BY <1>13, LoadFetched
  <1>14. ASSUME NEW seconds \in Total, updateAvailable(seconds) PROVE LoadInv'
    <2>1. Starts("set", seconds, <<>>, "request") /\ page = "today" /\ armed' = armed
      BY <1>14, SetIs
    <2> QED BY <1>1, <2>1, LoadBegun
  <1>15. ASSUME NEW c \in chains, c.at = "wait", Create(c) PROVE LoadInv'
    <2>1. Starts("voice", c.arg, <<>>, "request") /\ UNCHANGED <<list, armed, modal, undo>>
      BY <1>15, VoiceIs DEF VoiceTypes
    <2>2. Loading => /\ "voice" \notin Rolls /\ DOMAIN list' = {} /\ modal' = NoTask /\ ~Offers'
      BY <1>2, <2>1 DEF Offers, Rolls
    <2> QED BY <2>1, <2>2, LoadBegun
  <1>16. ASSUME NEW s \in Slot, Serve(s) PROVE LoadInv'
    <2>1. /\ GoesOn(s) /\ ops'[s].kind = ops[s].kind /\ ops'[s].live = ops[s].live
          /\ UNCHANGED <<page, list, armed, modal, undo>>
      BY <1>16, ServeIs, ServeTyped DEF PageIs
    <2>2. RollsBack(s)' => RollsBack(s)
      BY <2>1 DEF RollsBack, GoesOn
    <2> QED BY <2>1, <2>2, LoadGoesOn
  <1>17. ASSUME NEW s \in Slot, LoseRequest(s) \/ LoseAnswer(s) PROVE LoadInv'
    <2>1. /\ GoesOn(s) /\ ops'[s].kind = ops[s].kind /\ ops'[s].live = ops[s].live
          /\ UNCHANGED <<page, list, armed, modal, undo>>
      BY <1>17, LoseIs, LoseTyped DEF PageIs
    <2>2. RollsBack(s)' => RollsBack(s)
      BY <2>1 DEF RollsBack, GoesOn
    <2> QED BY <2>1, <2>2, LoadGoesOn
  <1>18. ASSUME NEW s \in Slot, CompleteNow(s) PROVE LoadInv'
    <2>1. /\ GoesOn(s) /\ ops'[s].kind = "complete" /\ ops'[s].live = ops[s].live
          /\ UNCHANGED <<page, armed, modal, undo>> /\ ops[s].kind \in {"refund", "check"}
          /\ (~ops[s].live => list' = list)
      BY <1>18, CompleteNowIs DEF Calm
    <2>2. (RollsBack(s)' => RollsBack(s)) /\ (ops[s].live => RollsBack(s))
      BY <2>1 DEF RollsBack, GoesOn, Rolls
    <2> QED BY <1>2, <2>1, <2>2, LoadGoesOn
  <1>19. ASSUME NEW s \in Slot, Posted(s) PROVE LoadInv'
    <2>1. /\ UNCHANGED <<page, list, armed, modal, undo>>
          /\ \/ GoesOn(s) /\ ops'[s].kind = "refetch" /\ ops'[s].live = ops[s].live
             \/ Ended(s)
      BY <1>19, PostedIs DEF Calm
    <2>2. ops'[s].kind = "refetch" => ~RollsBack(s)'
      BY DEF RollsBack, Rolls
    <2> QED BY <2>1, <2>2, LoadGoesOn, LoadEnded
  <1>20. ASSUME NEW s \in Slot, Forget(s) \/ Created(s) PROVE LoadInv'
    <2>1. Ended(s) /\ UNCHANGED <<page, list, armed, modal>> /\ undo' \in {undo, NoUndo}
      BY <1>20, ForgetIs, CreatedIs DEF Calm
    <2> QED BY <2>1, LoadEnded
  <1>21. ASSUME NEW s \in Slot, Settle(s) PROVE LoadInv'
    <2>1. /\ Ended(s) /\ UNCHANGED <<page, armed, modal, undo>>
          /\ (~ops[s].live => list' = list) /\ ops[s].kind \in {"complete", "snooze", "archive"}
      BY <1>21, SettleIs DEF Calm
    <2>2. ops[s].live => RollsBack(s)
      BY <2>1 DEF RollsBack, Ended, Rolls
    <2> QED BY <1>2, <2>1, <2>2, LoadEnded
  <1>22. ASSUME NEW s \in Slot, Loaded(s) PROVE LoadInv'
    <2>1. /\ Ended(s) /\ UNCHANGED <<page, armed, modal, undo>>
          /\ (~ops[s].live => list' = list) /\ ops[s].kind \in {"fetch", "items"}
      BY <1>22, LoadedIs DEF Calm, Arrives, Good
    <2>2. ops[s].live => LiveLoad(s)
      BY <2>1 DEF LiveLoad, Ended
    <2> QED BY <2>1, <2>2, LoadEnded
  <1>23. ASSUME NEW s \in Slot, Refetched(s) \/ CompletedLoaded(s) PROVE LoadInv'
    <2>1. /\ Ended(s) /\ UNCHANGED <<page, armed, modal, undo>>
          /\ (~ops[s].live => list' = list) /\ ops[s].kind \in {"refetch", "completed"}
      BY <1>23, RefetchedIs, CompletedIs DEF Calm, Arrives, Good
    <2>2. ops[s].live => page \in {"today", "history"}
      BY <2>1 DEF Places, OpPlaces, InPlace, Ended
    <2>3. Loading => DOMAIN list' = DOMAIN list
      BY <2>1, <2>2 DEF Loading, LoadedOnce
    <2> QED BY <2>1, <2>3, LoadEnded
  <1> QED BY <1>3, <1>4, <1>5, <1>6, <1>7, <1>8, <1>9, <1>10, <1>11, <1>12, <1>13, <1>14,
       <1>15, <1>16, <1>17, <1>18, <1>19, <1>20, <1>21, <1>22, <1>23, StepCases
     DEF PageAction, OpAction, VoiceAction, ShowAction

-----------------------------------------------------------------------------
(* The list of the page and the service. *)

\* What the page is to show.
Target == CASE page = "archive" -> ListOf(db, "ARCHIVED")
            [] page = "history" -> loadCompleted
            [] OTHER -> ListOf(db, "PENDING")
Without(l, t) == Restrict(l, DOMAIN l \ {t})

\* While a function runs alone, how far the list is ahead of the service.
NotAhead(s) ==
    \/ ops[s].kind \in {"fetch", "items", "completed", "set"}
    \/ ops[s].kind = "post" /\ ops[s].at # "done"
    \/ ops[s].kind \in {"delete", "restore", "recreate"} /\ ops[s].at # "request"
FinishAgrees(s) ==
    /\ ops[s].list = list /\ ops[s].arg \in DOMAIN list
    /\ Target = IF db.status[ops[s].arg] = "COMPLETED" THEN Without(list, ops[s].arg) ELSE list
CompleteAgrees(s) ==
    /\ ops[s].arg \in DOMAIN ops[s].list
    /\ ops[s].at # "failed" => list = Without(ops[s].list, ops[s].arg)
    /\ ops[s].at = "done" => Target = list
    /\ ops[s].at = "failed" => Target = ops[s].list
    /\ ops[s].at = "request" =>
          Target = IF db.status[ops[s].arg] = "COMPLETED" THEN list ELSE ops[s].list
ChangeAgrees(s) ==
    /\ ops[s].at = "done" => Target = list
    /\ ops[s].at # "done" => Target = ops[s].list
    /\ ops[s].at # "failed" => list = optimistic(ops[s].kind, ops[s].arg, ops[s].list)
CallAgrees(s) ==
    \/ /\ page = "archive" /\ ops[s].kind \in {"delete", "restore"}
       /\ list = Without(Target, ops[s].arg) /\ db.status[ops[s].arg] = "ARCHIVED"
    \/ /\ page = "important" /\ ops[s].kind = "restore"
       /\ list = Reinserted(Target, ops[s].arg, db.delay[ops[s].arg]) /\ Stored(db, ops[s].arg)
    \/ /\ page = "archive" /\ ops[s].kind = "recreate"
       /\ list = Reinserted(Target, ops[s].arg, db.delay[ops[s].arg])
       /\ db.status[ops[s].arg] = "DELETED"
Agrees(s) ==
    /\ ops[s].kind # "voice"
    /\ ops[s].kind = "refetch" => ops[s].at # "failed"
    /\ NotAhead(s) => list = Target
    /\ ops[s].kind \in {"refund", "check"} => FinishAgrees(s)
    /\ ops[s].kind = "complete" => CompleteAgrees(s)
    /\ ops[s].kind \in {"snooze", "archive"} => ChangeAgrees(s)
    /\ ops[s].kind \in {"delete", "restore", "recreate"} /\ ops[s].at = "request" => CallAgrees(s)
Follows == fresh => (Busy = {} => list = Target) /\ \A s \in Busy : Agrees(s)

\* What the toast offers can still be undone by what it remembers.
Deletes(s) ==
    s \in Busy /\ ops[s].kind = "delete" /\ ops[s].at = "request" /\ ops[s].arg = undo.arg
OfferStands ==
    fresh /\ Offers =>
        /\ db.delay[undo.arg] = undo.delay
        /\ undo.kind = "restore" => db.status[undo.arg] \in {"PENDING", "COMPLETED", "ARCHIVED"}
        /\ undo.kind = "recreate" => db.status[undo.arg] = "DELETED" \/ \E s \in Slot : Deletes(s)
        /\ \A s \in Busy : /\ ops[s].kind \notin {"restore", "recreate"}
                           /\ ops[s].kind = "snooze" => ops[s].arg # undo.arg

\* How the list of a status changes with one task.
OnlyTask(d, e, t) == \A u \in Task \ {t} : e.status[u] = d.status[u] /\ e.delay[u] = d.delay[u]

\* A task that leaves a status leaves its list,
LEMMA ListGone ==
  ASSUME NEW d \in DbType, NEW e \in DbType, NEW t \in Task, OnlyTask(d, e, t), NEW status,
         e.status[t] # status
  PROVE  ListOf(e, status) = Without(ListOf(d, status), t)
  <1>1. InStatus(e, status) = InStatus(d, status) \ {t}
    BY DEF InStatus, OnlyTask
  <1>2. \A u \in InStatus(e, status) : u \in InStatus(d, status) /\ e.delay[u] = d.delay[u]
    BY <1>1 DEF InStatus, OnlyTask
  <1> QED BY <1>1, <1>2 DEF ListOf, Without, Restrict

\* one that gets it joins the list,
LEMMA ListCame ==
  ASSUME NEW d \in DbType, NEW e \in DbType, NEW t \in Task, OnlyTask(d, e, t), NEW status,
         e.status[t] = status, e.delay[t] = d.delay[t]
  PROVE  ListOf(e, status) = Reinserted(ListOf(d, status), t, d.delay[t])
  <1>1. InStatus(e, status) = InStatus(d, status) \union {t}
    BY DEF InStatus, OnlyTask
  <1>2. \A u \in InStatus(e, status) : e.delay[u] = d.delay[u]
    BY DEF InStatus, OnlyTask
  <1> QED BY <1>1, <1>2 DEF ListOf, Reinserted

\* one that neither leaves nor gets it changes nothing,
LEMMA ListStays ==
  ASSUME NEW d \in DbType, NEW e \in DbType, NEW t \in Task, OnlyTask(d, e, t), NEW status,
         e.status[t] = status <=> d.status[t] = status,
         d.status[t] = status => e.delay[t] = d.delay[t]
  PROVE  ListOf(e, status) = ListOf(d, status)
  <1>1. InStatus(e, status) = InStatus(d, status)
    BY DEF InStatus, OnlyTask
  <1>2. \A u \in InStatus(e, status) : e.delay[u] = d.delay[u]
    BY DEF InStatus, OnlyTask
  <1> QED BY <1>1, <1>2 DEF ListOf

\* and one that is put off is listed as put off once more.
LEMMA ListLater ==
  ASSUME NEW d \in DbType, NEW e \in DbType, NEW t \in Task, OnlyTask(d, e, t), NEW status,
         e.status[t] = status, d.status[t] = status, e.delay[t] = d.delay[t] + 1
  PROVE  ListOf(e, status) = optimistic("snooze", t, ListOf(d, status))
  <1>1. InStatus(e, status) = InStatus(d, status) /\ t \in InStatus(d, status)
    BY DEF InStatus, OnlyTask
  <1>2. \A u \in InStatus(e, status) : u # t => e.delay[u] = d.delay[u]
    BY DEF InStatus, OnlyTask
  <1>3. ListOf(e, status) = [ListOf(d, status) EXCEPT ![t] = @ + 1]
    BY <1>1, <1>2 DEF ListOf
  <1>4. t \in DOMAIN ListOf(d, status)
    BY <1>1 DEF ListOf
  <1> QED BY <1>3, <1>4 DEF optimistic

\* The list depends on status and delay only.
LEMMA ListAlike ==
  ASSUME NEW d, NEW e, d.status = e.status, d.delay = e.delay, NEW status
  PROVE  ListOf(e, status) = ListOf(d, status)
  BY DEF ListOf, InStatus

\* Taking away what is not there.
LEMMA WithoutNone ==
  ASSUME NEW l, IsList(l), NEW t, t \notin DOMAIN l
  PROVE  Without(l, t) = l
  <1>1. DOMAIN l \ {t} = DOMAIN l /\ l = [u \in DOMAIN l |-> l[u]]
    BY DEF IsList
  <1> QED BY <1>1 DEF Without, Restrict

\* What is listed is in the service as it is listed.
LEMMA ListedIs ==
  ASSUME Types, NEW status, list = ListOf(db, status), NEW t, t \in DOMAIN list
  PROVE  t \in Task /\ db.status[t] = status /\ list[t] = db.delay[t]
  BY ListOfIs DEF InStatus

\* What each page is to show.
LEMMA TargetIs ==
  ASSUME Types
  PROVE  /\ page \in {"today", "important"} => Target = ListOf(db, "PENDING")
         /\ page = "archive" => Target = ListOf(db, "ARCHIVED")
         /\ page = "history" => Target = loadCompleted
         /\ IsList(Target)
  <1>1. page \in Page /\ IsList(ListOf(db, "PENDING")) /\ IsList(ListOf(db, "ARCHIVED"))
        /\ IsList(loadCompleted)
    BY TypesAre, ListOfIs, CompletedList
  <1> QED BY <1>1 DEF Target, Page

\* It changes with the service and the record only.
LEMMA TargetSame ==
  ASSUME db' = db, page' = page, recorded' = recorded \/ page # "history"
  PROVE  Target' = Target
  BY DEF Target, ListOf, InStatus, loadCompleted

\* A function begins on a page that agrees.
LEMMA BegunFields ==
  ASSUME NEW n, NEW kind, NEW arg, NEW snapshot, NEW at, BegunIn(n, kind, arg, snapshot, at)
  PROVE  /\ ops'[n].kind = kind /\ ops'[n].arg = arg /\ ops'[n].list = snapshot
         /\ ops'[n].at = at /\ Busy' = Busy \union {n} /\ n \in Slot
  BY DEF BegunIn

\* It is enough to look at the function that begins.
LEMMA FollowsBegun ==
  ASSUME NEW kind, NEW arg, NEW snapshot, NEW at, Starts(kind, arg, snapshot, at),
         fresh' => fresh /\ Busy = {},
         \A n \in Slot : fresh' /\ BegunIn(n, kind, arg, snapshot, at) => Agrees(n)'
  PROVE  Follows'
  <1>1. PICK n \in Slot : BegunIn(n, kind, arg, snapshot, at)
    BY DEF Starts, Begun
  <1>2. Busy' = Busy \union {n}
    BY <1>1 DEF BegunIn
  <1> QED BY <1>1, <1>2 DEF Follows

\* An offer still stands when a function begins.
LEMMA OfferBegun ==
  ASSUME OfferStands, NEW kind, NEW arg, NEW snapshot, NEW at, Starts(kind, arg, snapshot, at),
         fresh' => fresh /\ Busy = {}, undo' \in {undo, NoUndo},
         kind \notin {"restore", "recreate"},
         fresh' /\ Offers /\ kind = "snooze" => arg # undo.arg
  PROVE  OfferStands'
  <1>1. PICK n \in Slot : BegunIn(n, kind, arg, snapshot, at)
    BY DEF Starts, Begun
  <1>2. Busy' = Busy \union {n} /\ ops'[n].kind = kind /\ ops'[n].arg = arg /\ db' = db
    BY <1>1 DEF BegunIn, Starts
  <1>3. SUFFICES ASSUME fresh', Offers' PROVE OfferStands'
    BY DEF OfferStands
  <1>4. undo' = undo /\ Offers /\ fresh /\ Busy = {}
    BY <1>3 DEF Offers
  <1>5. ~ \E s \in Slot : Deletes(s)
    BY <1>4 DEF Deletes
  <1>6. /\ db'.delay[undo'.arg] = undo'.delay
        /\ undo'.kind = "restore" => db'.status[undo'.arg] \in {"PENDING", "COMPLETED", "ARCHIVED"}
        /\ undo'.kind = "recreate" => db'.status[undo'.arg] = "DELETED"
    BY <1>2, <1>4, <1>5 DEF OfferStands
  <1> QED BY <1>2, <1>3, <1>4, <1>6 DEF OfferStands

\* Nothing is offered on the page Today.
LEMMA NoOffer ==
  ASSUME Places, page \in {"today", "history"}
  PROVE  ~Offers
  BY DEF Places, ShellPlaces, Offers

AgreeInv == OfferStands /\ Follows

\* Finishing a task keeps the agreement: its list is the one it starts from.
LEMMA AgreeFinish ==
  ASSUME Types, Places, AgreeInv, NEW t \in Task, Finish(t) \/ MiniFinish(t)
  PROVE  AgreeInv'
  <1>1. /\ page = "today" /\ t \in DOMAIN list /\ Starts("refund", t, list, "request")
        /\ fresh' = (fresh /\ Busy = {}) /\ list' = list /\ undo' = undo
    BY FinishIs
  <1>2. ASSUME NEW n \in Slot, fresh', BegunIn(n, "refund", t, list, "request") PROVE Agrees(n)'
    <2>1. list = ListOf(db, "PENDING") /\ Target = list
      BY <1>1, <1>2, TargetIs DEF AgreeInv, Follows
    <2>2. db.status[t] = "PENDING"
      BY <1>1, <2>1, ListedIs
    <2>3. Target' = Target /\ db' = db
      BY <1>1, TargetSame DEF Starts
    <2> QED BY <1>1, <1>2, <2>1, <2>2, <2>3, BegunFields DEF Agrees, NotAhead, FinishAgrees
  <1>3. Follows'
    BY <1>1, <1>2, FollowsBegun
  <1>4. OfferStands'
    <2>1. OfferStands /\ undo' \in {undo, NoUndo} /\ (fresh' => fresh /\ Busy = {})
      BY <1>1 DEF AgreeInv
    <2> QED BY <1>1, <2>1, OfferBegun
  <1> QED BY <1>3, <1>4 DEF AgreeInv

\* So does the tick box.
LEMMA AgreeCheck ==
  ASSUME Types, Places, AgreeInv, NEW t \in Task, Check(t)
  PROVE  AgreeInv'
  <1>1. /\ page = "important" /\ t \in DOMAIN list /\ Starts("check", t, list, "done")
        /\ fresh' = (fresh /\ Busy = {}) /\ list' = list /\ undo' = undo /\ recorded' = recorded
    BY CheckIs
  <1>2. ASSUME NEW n \in Slot, fresh', BegunIn(n, "check", t, list, "done") PROVE Agrees(n)'
    <2>1. list = ListOf(db, "PENDING") /\ Target = list
      BY <1>1, <1>2, TargetIs DEF AgreeInv, Follows
    <2>2. db.status[t] = "PENDING"
      BY <1>1, <2>1, ListedIs
    <2>3. Target' = Target /\ db' = db
      BY <1>1, TargetSame DEF Starts
    <2> QED BY <1>1, <1>2, <2>1, <2>2, <2>3, BegunFields DEF Agrees, NotAhead, FinishAgrees
  <1>3. Follows'
    BY <1>1, <1>2, FollowsBegun
  <1>4. OfferStands'
    <2>1. OfferStands /\ undo' \in {undo, NoUndo} /\ (fresh' => fresh /\ Busy = {})
      BY <1>1 DEF AgreeInv
    <2> QED BY <1>1, <2>1, OfferBegun
  <1> QED BY <1>3, <1>4 DEF AgreeInv

\* A task is put off once on the page and once, soon, in the service.
LEMMA AgreeKeep ==
  ASSUME Types, Places, AgreeInv, KeepZombie
  PROVE  AgreeInv'
  <1>1. /\ Starts("snooze", modal, list, "request") /\ undo' = undo
        /\ list' = optimistic("snooze", modal, list) /\ recorded' = recorded
        /\ fresh' = (fresh /\ Busy = {} /\ (undo # NoUndo => undo.arg # modal))
    BY KeepIs
  <1>2. ASSUME NEW n \in Slot, fresh', BegunIn(n, "snooze", modal, list, "request")
        PROVE  Agrees(n)'
    <2>1. Target = list
      BY <1>1, <1>2 DEF AgreeInv, Follows
    <2>2. Target' = Target
      BY <1>1, TargetSame DEF Starts
    <2> QED BY <1>1, <1>2, <2>1, <2>2, BegunFields DEF Agrees, NotAhead, ChangeAgrees
  <1>3. Follows'
    BY <1>1, <1>2, FollowsBegun
  <1>4. OfferStands'
    <2>1. /\ OfferStands /\ undo' \in {undo, NoUndo} /\ (fresh' => fresh /\ Busy = {})
          /\ (fresh' /\ Offers => modal # undo.arg)
      BY <1>1 DEF AgreeInv, Offers
    <2> QED BY <1>1, <2>1, OfferBegun
  <1> QED BY <1>3, <1>4 DEF AgreeInv

\* A zombie that is archived can be restored as it was.
LEMMA AgreeArchive ==
  ASSUME Types, Places, AgreeInv, ArchiveZombie
  PROVE  AgreeInv'
  <1>1. /\ Starts("archive", modal, list, "request") /\ modal \in Task /\ modal # NoTask
        /\ list' = optimistic("archive", modal, list) /\ recorded' = recorded
        /\ fresh' = (fresh /\ Busy = {})
        /\ \/ undo' \in {undo, NoUndo}
           \/ /\ page # "today" /\ modal \in DOMAIN list
              /\ undo' = [kind |-> "restore", arg |-> modal, delay |-> list[modal], live |-> TRUE]
    BY ArchiveIs
  <1>2. page \in {"today", "important"}
    BY <1>1 DEF Places, ShellPlaces
  <1>3. ASSUME NEW n \in Slot, fresh', BegunIn(n, "archive", modal, list, "request")
        PROVE  Agrees(n)'
    <2>1. Target = list
      BY <1>1, <1>3 DEF AgreeInv, Follows
    <2>2. Target' = Target
      BY <1>1, TargetSame DEF Starts
    <2> QED BY <1>1, <1>3, <2>1, <2>2, BegunFields DEF Agrees, NotAhead, ChangeAgrees
  <1>4. Follows'
    BY <1>1, <1>3, FollowsBegun
  <1>5. CASE undo' \in {undo, NoUndo}
    <2>1. OfferStands'
      <3>1. OfferStands /\ (fresh' => fresh /\ Busy = {})
        BY <1>1 DEF AgreeInv
      <3> QED BY <1>1, <1>5, <3>1, OfferBegun
    <2> QED BY <1>4, <2>1 DEF AgreeInv
  <1>6. CASE /\ modal \in DOMAIN list
             /\ undo' = [kind |-> "restore", arg |-> modal, delay |-> list[modal], live |-> TRUE]
    <2>1. SUFFICES ASSUME fresh' PROVE OfferStands'
      BY <1>4 DEF AgreeInv, OfferStands
    <2>2. list = ListOf(db, "PENDING")
      BY <1>1, <1>2, <2>1, TargetIs DEF AgreeInv, Follows
    <2>3. db.status[modal] = "PENDING" /\ list[modal] = db.delay[modal]
      BY <1>6, <2>2, ListedIs
    <2>4. undo'.kind = "restore" /\ undo'.arg = modal /\ undo'.delay = list[modal] /\ db' = db
      BY <1>1, <1>6 DEF Starts
    <2>5. PICK n \in Slot : BegunIn(n, "archive", modal, list, "request")
      BY <1>1 DEF Starts, Begun
    <2>6. Busy' = {n} /\ ops'[n].kind = "archive"
      BY <1>1, <2>1, <2>5, BegunFields
    <2> QED BY <2>3, <2>4, <2>6 DEF OfferStands
  <1> QED BY <1>1, <1>5, <1>6

\* A listed task is taken off.
LEMMA DropIs ==
  ASSUME NEW l, IsList(l), NEW t, t \in DOMAIN l
  PROVE  optimistic("drop", t, l) = Without(l, t) /\ optimistic("complete", t, l) = Without(l, t)
  BY DEF optimistic, Without

\* A task leaves the archive.
LEMMA AgreeRestore ==
  ASSUME Types, Places, AgreeInv, NEW t \in Task, restore(t)
  PROVE  AgreeInv'
  <1>1. /\ page = "archive" /\ t \in DOMAIN list /\ Starts("restore", t, <<>>, "request")
        /\ list' = optimistic("drop", t, list) /\ undo' = NoUndo /\ recorded' = recorded
        /\ fresh' = (fresh /\ Busy = {})
    BY RestoreIs
  <1>2. ASSUME NEW n \in Slot, fresh', BegunIn(n, "restore", t, <<>>, "request") PROVE Agrees(n)'
    <2>1. list = ListOf(db, "ARCHIVED") /\ Target = list
      BY <1>1, <1>2, TargetIs DEF AgreeInv, Follows
    <2>2. db.status[t] = "ARCHIVED"
      BY <1>1, <2>1, ListedIs
    <2>3. Target' = Target /\ db' = db /\ page' = page
      BY <1>1, TargetSame DEF Starts
    <2>4. list' = Without(Target, t)
      BY <1>1, <2>1, DropIs, TypesAre
    <2> QED BY <1>1, <1>2, <2>1, <2>2, <2>3, <2>4, BegunFields DEF Agrees, NotAhead, CallAgrees
  <1>3. Follows'
    BY <1>1, <1>2, FollowsBegun
  <1> QED BY <1>1, <1>3 DEF AgreeInv, OfferStands, Offers

\* A task that is deleted can be recreated as it was.
LEMMA AgreeRemove ==
  ASSUME Types, Places, AgreeInv, NEW t \in Task, remove(t)
  PROVE  AgreeInv'
  <1>1. /\ page = "archive" /\ t \in DOMAIN list /\ Starts("delete", t, <<>>, "request")
        /\ list' = optimistic("drop", t, list) /\ recorded' = recorded
        /\ undo' = [kind |-> "recreate", arg |-> t, delay |-> list[t], live |-> TRUE]
        /\ fresh' = (fresh /\ Busy = {})
    BY RemoveIs
  <1>2. ASSUME fresh' PROVE /\ Target = list /\ db.status[t] = "ARCHIVED" /\ list[t] = db.delay[t]
    <2>1. list = ListOf(db, "ARCHIVED") /\ Target = list
      BY <1>1, <1>2, TargetIs DEF AgreeInv, Follows
    <2> QED BY <1>1, <2>1, ListedIs
  <1>3. ASSUME NEW n \in Slot, fresh', BegunIn(n, "delete", t, <<>>, "request") PROVE Agrees(n)'
    <2>3. Target' = Target /\ db' = db /\ page' = page
      BY <1>1, TargetSame DEF Starts
    <2>4. list' = Without(Target, t)
      BY <1>1, <1>3, <1>2, DropIs, TypesAre
    <2> QED BY <1>1, <1>3, <1>2, <2>3, <2>4, BegunFields DEF Agrees, NotAhead, CallAgrees
  <1>4. Follows'
    BY <1>1, <1>3, FollowsBegun
  <1>5. OfferStands'
    <2>1. SUFFICES ASSUME fresh' PROVE OfferStands'
      BY DEF OfferStands
    <2>4. undo'.kind = "recreate" /\ undo'.arg = t /\ undo'.delay = list[t] /\ db' = db
      BY <1>1 DEF Starts
    <2>5. PICK n \in Slot : BegunIn(n, "delete", t, <<>>, "request")
      BY <1>1 DEF Starts, Begun
    <2>6. /\ Busy' = {n} /\ ops'[n].kind = "delete" /\ ops'[n].at = "request"
          /\ ops'[n].arg = t
      BY <1>1, <2>1, <2>5, BegunFields
    <2>7. Deletes(n)'
      BY <2>4, <2>6 DEF Deletes
    <2> QED BY <1>2, <2>1, <2>4, <2>6, <2>7 DEF OfferStands
  <1> QED BY <1>4, <1>5 DEF AgreeInv

\* The undo puts back what the service will list.
LEMMA AgreeUndo ==
  ASSUME Types, Places, AgreeInv, Undo
  PROVE  AgreeInv'
  <1>1. /\ undo # NoUndo /\ undo' = NoUndo /\ recorded' = recorded
        /\ undo.kind \in {"restore", "recreate"}
        /\ Starts(undo.kind, undo.arg, <<>>, "request")
        /\ list' = IF undo.live THEN Reinserted(list, undo.arg, undo.delay) ELSE list
        /\ fresh' = (fresh /\ Busy = {} /\ undo.live)
    BY UndoIs
  <1>2. ASSUME NEW n \in Slot, fresh', BegunIn(n, undo.kind, undo.arg, <<>>, "request")
        PROVE  Agrees(n)'
    <2>1. Target = list /\ Offers /\ Busy = {} /\ fresh
      BY <1>1, <1>2 DEF AgreeInv, Follows, Offers
    <2>2. Target' = Target /\ db' = db /\ page' = page
      BY <1>1, TargetSame DEF Starts
    <2>3. page = IF undo.kind = "restore" THEN "important" ELSE "archive"
      BY <2>1 DEF Places, ShellPlaces, Offers
    <2>4. ~ \E s \in Slot : Deletes(s)
      BY <2>1 DEF Deletes
    <2>5. /\ db.delay[undo.arg] = undo.delay
          /\ undo.kind = "restore" => Stored(db, undo.arg)
          /\ undo.kind = "recreate" => db.status[undo.arg] = "DELETED"
      BY <2>1, <2>4 DEF AgreeInv, OfferStands, Stored
    <2>6. list' = Reinserted(Target', undo.arg, db'.delay[undo.arg])
      BY <1>1, <1>2, <2>1, <2>2, <2>5
    <2>7. /\ ops'[n].kind = undo.kind /\ ops'[n].arg = undo.arg /\ ops'[n].at = "request"
      BY <1>2, BegunFields
    <2> QED BY <1>1, <2>2, <2>3, <2>5, <2>6, <2>7 DEF Agrees, NotAhead, CallAgrees
  <1>3. Follows'
    BY <1>1, <1>2, FollowsBegun
  <1> QED BY <1>1, <1>3 DEF AgreeInv, OfferStands, Offers

\* A function that changes nothing on the page.
LEMMA AgreePlain ==
  ASSUME Types, AgreeInv, NEW kind \in {"post", "set", "fetch"}, NEW arg,
         Starts(kind, arg, <<>>, "request"), fresh' = (fresh /\ Busy = {}),
         UNCHANGED <<list, undo, recorded>>
  PROVE  AgreeInv'
  <1>1. ASSUME NEW n \in Slot, fresh', BegunIn(n, kind, arg, <<>>, "request") PROVE Agrees(n)'
    <2>1. Target = list
      BY <1>1 DEF AgreeInv, Follows
    <2>2. Target' = Target
      BY TargetSame DEF Starts
    <2> QED BY <1>1, <2>1, <2>2, BegunFields DEF Agrees, NotAhead
  <1>2. Follows'
    BY <1>1, FollowsBegun
  <1>3. OfferStands'
    BY OfferBegun DEF AgreeInv
  <1> QED BY <1>2, <1>3 DEF AgreeInv

\* The function of a page that is known to agree is the only one.
LEMMA OnlyOne ==
  ASSUME LoneInv, fresh, NEW s \in Busy
  PROVE  Busy = {s} /\ ops[s].live /\ ops[s].alone
  BY DEF LoneInv, FreshIs

\* It is enough to look at the function that goes on.
LEMMA FollowsGoesOn ==
  ASSUME LoneInv, NEW s, GoesOn(s), fresh' => fresh, fresh' => Agrees(s)'
  PROVE  Follows'
  BY OnlyOne DEF Follows, GoesOn

\* When a function ends, the page is at rest.
LEMMA FollowsEnded ==
  ASSUME LoneInv, NEW s, Ended(s), fresh' => fresh \/ ops[s].alone, fresh' => list' = Target'
  PROVE  Follows'
  <1>1. fresh' => Busy' = {}
    BY OnlyOne DEF Ended, LoneInv, AloneIs
  <1> QED BY <1>1 DEF Follows

\* An offer still stands when a function goes on,
LEMMA OfferGoesOn ==
  ASSUME OfferStands, NEW s, GoesOn(s), fresh' => fresh, db' = db, undo' \in {undo, NoUndo},
         ~Deletes(s), ops'[s].kind \in {ops[s].kind, "complete", "refetch"},
         ops'[s].arg = ops[s].arg
  PROVE  OfferStands'
  <1>1. SUFFICES ASSUME fresh', Offers' PROVE OfferStands'
    BY DEF OfferStands
  <1>2. undo' = undo /\ Offers /\ fresh
    BY <1>1 DEF Offers
  <1>3. \A u \in Slot : Deletes(u) => Deletes(u)'
    BY <1>2 DEF Deletes, GoesOn, OthersStay
  <1>4. \A u \in Busy' : \/ ops'[u].kind = ops[u].kind /\ ops'[u].arg = ops[u].arg /\ u \in Busy
                         \/ ops'[u].kind \in {"complete", "refetch"}
    BY DEF GoesOn, OthersStay
  <1>5. \A u \in Busy' : /\ ops'[u].kind \notin {"restore", "recreate"}
                         /\ ops'[u].kind = "snooze" => ops'[u].arg # undo'.arg
    BY <1>2, <1>4 DEF OfferStands
  <1>6. /\ db'.delay[undo'.arg] = undo'.delay
        /\ undo'.kind = "restore" => db'.status[undo'.arg] \in {"PENDING", "COMPLETED", "ARCHIVED"}
        /\ undo'.kind = "recreate" => db'.status[undo'.arg] = "DELETED" \/ \E u \in Slot : Deletes(u)'
    BY <1>2, <1>3 DEF OfferStands
  <1> QED BY <1>5, <1>6 DEF OfferStands

\* and when one ends.
LEMMA OfferEnded ==
  ASSUME OfferStands, NEW s, Ended(s), fresh' => fresh \/ ~Offers, db' = db,
         undo' \in {undo, NoUndo}, ~Deletes(s)
  PROVE  OfferStands'
  <1>1. SUFFICES ASSUME fresh', Offers' PROVE OfferStands'
    BY DEF OfferStands
  <1>2. undo' = undo /\ Offers /\ fresh
    BY <1>1 DEF Offers
  <1>3. \A u \in Slot : Deletes(u) => Deletes(u)'
    BY <1>2 DEF Deletes, Ended, OthersStay
  <1>4. \A u \in Busy' : ops'[u] = ops[u] /\ u \in Busy
    BY DEF Ended, OthersStay
  <1>5. \A u \in Busy' : /\ ops'[u].kind \notin {"restore", "recreate"}
                         /\ ops'[u].kind = "snooze" => ops'[u].arg # undo'.arg
    BY <1>2, <1>4 DEF OfferStands
  <1>6. /\ db'.delay[undo'.arg] = undo'.delay
        /\ undo'.kind = "restore" => db'.status[undo'.arg] \in {"PENDING", "COMPLETED", "ARCHIVED"}
        /\ undo'.kind = "recreate" => db'.status[undo'.arg] = "DELETED" \/ \E u \in Slot : Deletes(u)'
    BY <1>2, <1>3 DEF OfferStands
  <1> QED BY <1>5, <1>6 DEF OfferStands

\* The service answers the function of a page that agrees.
LEMMA TargetAlike ==
  ASSUME db'.status = db.status, db'.delay = db.delay, UNCHANGED <<page, recorded>>
  PROVE  Target' = Target
  BY DEF Target, ListOf, InStatus, loadCompleted

\* The service catches up with the page.
LEMMA ServeAgrees ==
  ASSUME Types, Places, LoneInv, AgreeInv, NEW s \in Slot, Serve(s), fresh
  PROVE  Agrees(s)'
  <1> DEFINE t == ops[s].arg
             k == ops[s].kind
  <1>1. /\ s \in Busy /\ ops[s].at = "request" /\ db' = Effect(ops[s])
        /\ UNCHANGED <<page, list, recorded>>
    BY ServeIs, ServeTyped DEF PageIs
  <1>2. /\ ops'[s].kind = k /\ ops'[s].arg = t
        /\ ops'[s].at = IF Refused(ops[s]) THEN "failed" ELSE "done"
        /\ k \notin {"fetch", "refetch", "items"} => ops'[s].list = ops[s].list
    BY ServeIs
  <1>3. ops[s].live /\ Agrees(s) /\ InPlace(k, page)
    BY <1>1, OnlyOne DEF AgreeInv, Follows, Places, OpPlaces
  <1>4. k \in Kind /\ k # "voice" /\ k # "check" /\ IsList(ops[s].list)
    BY <1>1, <1>3, BusyOp DEF Agrees, Types, ArgsFit
  <1>5. db \in DbType
    BY DEF Types, PageTypes, DbType
  <1>6. k \notin {"post", "set"} => ops'[s].at = "done"
    BY <1>2 DEF Refused
  <1>7. CASE k \in LoadKind \union {"set"}
    <2>1. db'.status = db.status /\ db'.delay = db.delay
      BY <1>1, <1>7, EffectIs
    <2>2. Target' = Target
      BY <1>1, <2>1, TargetAlike
    <2>3. k # "refetch" => list = Target
      BY <1>3, <1>7 DEF Agrees, NotAhead, LoadKind
    <2> QED BY <1>1, <1>2, <1>6, <1>7, <2>2, <2>3 DEF Agrees, NotAhead, LoadKind
  <1>8. CASE k \notin LoadKind \union {"set"}
    <2>1. db' \in DbType /\ t \in Task /\ OnlyTask(db, db', t)
      BY <1>1, <1>8, EffectIs DEF OnlyTask
    <2>2. CASE k = "post"
      <3>1. page = "today" /\ list = Target
        BY <1>1, <1>3, <2>2 DEF InPlace, Agrees, NotAhead
      <3>2. CASE CreateRefused(db, t)
        <4>1. db'.status[t] = db.status[t] /\ db'.delay[t] = db.delay[t]
          BY <1>1, <2>2, <3>2, EffectIs
        <4>2. ListOf(db', "PENDING") = ListOf(db, "PENDING")
          BY <1>5, <2>1, <4>1, ListStays
        <4>3. Target' = Target
          BY <1>1, <3>1, <4>2 DEF Target
        <4> QED BY <1>1, <1>2, <2>2, <3>1, <4>3 DEF Agrees, NotAhead
      <3>3. CASE ~CreateRefused(db, t)
        <4>1. ops'[s].at = "done"
          BY <1>2, <2>2, <3>3 DEF Refused
        <4> QED BY <1>2, <2>2, <4>1 DEF Agrees, NotAhead
      <3> QED BY <3>2, <3>3
    <2>3. CASE k \in {"refund", "complete"}
      <3>1. page \in {"today", "important"}
        BY <1>3, <2>3 DEF InPlace
      <3>2. Target = ListOf(db, "PENDING") /\ Target' = ListOf(db', "PENDING")
        BY <1>1, <3>1 DEF Target
      <3>3. /\ t \in DOMAIN ops[s].list /\ list = IF k = "refund" THEN ops[s].list ELSE Without(ops[s].list, t)
            /\ Target = IF db.status[t] = "COMPLETED" THEN Without(ops[s].list, t) ELSE ops[s].list
        BY <1>1, <1>3, <2>3 DEF Agrees, FinishAgrees, CompleteAgrees
      <3>4. Target' = Without(ops[s].list, t) /\ db'.status[t] = "COMPLETED"
        <4>1. CASE db.status[t] = "COMPLETED"
          <5>1. db'.status[t] = "COMPLETED" /\ db'.delay[t] = db.delay[t]
            BY <1>1, <2>3, <4>1, EffectIs DEF Stored
          <5>2. ListOf(db', "PENDING") = ListOf(db, "PENDING")
            BY <1>5, <2>1, <4>1, <5>1, ListStays
          <5> QED BY <3>2, <3>3, <4>1, <5>1, <5>2
        <4>2. CASE db.status[t] # "COMPLETED"
          <5>1. t \in InStatus(db, "PENDING")
            BY <3>2, <3>3, <4>2, ListOfIs
          <5>2. Stored(db, t)
            BY <5>1 DEF InStatus, Stored
          <5>3. db'.status[t] = "COMPLETED"
            BY <1>1, <2>3, <5>2, EffectIs
          <5>4. ListOf(db', "PENDING") = Without(ListOf(db, "PENDING"), t)
            BY <1>5, <2>1, <5>3, ListGone
          <5> QED BY <3>2, <3>3, <4>2, <5>3, <5>4
        <4> QED BY <4>1, <4>2
      <3>5. ops'[s].list = ops[s].list /\ ops'[s].at = "done"
        BY <1>2, <1>6, <2>3
      <3>6. CASE k = "refund"
        BY <1>1, <1>2, <3>3, <3>4, <3>5, <3>6 DEF Agrees, NotAhead, FinishAgrees
      <3>7. CASE k = "complete"
        BY <1>1, <1>2, <3>3, <3>4, <3>5, <3>7 DEF Agrees, NotAhead, CompleteAgrees
      <3> QED BY <2>3, <3>6, <3>7
    <2>4. CASE k \in {"snooze", "archive"}
      <3>1. page \in {"today", "important"}
        BY <1>3, <2>4 DEF InPlace
      <3>2. Target = ListOf(db, "PENDING") /\ Target' = ListOf(db', "PENDING")
        BY <1>1, <3>1 DEF Target
      <3>3. Target = ops[s].list /\ list = optimistic(k, t, ops[s].list)
        BY <1>1, <1>3, <2>4 DEF Agrees, ChangeAgrees
      <3>4. t \in DOMAIN Target <=> db.status[t] = "PENDING"
        BY <2>1, <3>2, ListOfIs DEF InStatus
      <3>5. Target' = list
        <4>1. CASE db.status[t] = "PENDING"
          <5>1. Stored(db, t) /\ t \in DOMAIN ops[s].list
            BY <3>3, <3>4, <4>1 DEF Stored
          <5>2. CASE k = "snooze"
            <6>1. db'.status[t] = "PENDING" /\ db'.delay[t] = db.delay[t] + 1
              BY <1>1, <4>1, <5>1, <5>2, EffectIs
            <6>2. ListOf(db', "PENDING") = optimistic("snooze", t, ListOf(db, "PENDING"))
              BY <1>5, <2>1, <4>1, <6>1, ListLater
            <6> QED BY <3>2, <3>3, <5>2, <6>2
          <5>3. CASE k = "archive"
            <6>1. db'.status[t] # "PENDING"
              BY <1>1, <5>1, <5>3, EffectIs
            <6>2. ListOf(db', "PENDING") = Without(ListOf(db, "PENDING"), t)
              BY <1>5, <2>1, <6>1, ListGone
            <6> QED BY <3>2, <3>3, <5>1, <5>3, <6>2 DEF optimistic, Without
          <5> QED BY <2>4, <5>2, <5>3
        <4>2. CASE db.status[t] # "PENDING"
          <5>1. t \notin DOMAIN ops[s].list
            BY <3>3, <3>4, <4>2
          <5>2. db'.status[t] # "PENDING"
            BY <1>1, <2>4, <4>2, EffectIs
          <5>3. ListOf(db', "PENDING") = ListOf(db, "PENDING")
            BY <1>5, <2>1, <4>2, <5>2, ListStays
          <5> QED BY <3>2, <3>3, <5>1, <5>3 DEF optimistic
        <4> QED BY <4>1, <4>2
      <3>6. ops'[s].list = ops[s].list /\ ops'[s].at = "done"
        BY <1>2, <1>6, <2>4
      <3> QED BY <1>1, <1>2, <2>4, <3>3, <3>5, <3>6 DEF Agrees, NotAhead, ChangeAgrees
    <2>5. CASE k \in {"delete", "restore", "recreate"}
      <3>1. CallAgrees(s)
        BY <1>1, <1>3, <2>5 DEF Agrees
      <3>2. Target' = list
        <4>1. CASE /\ page = "archive" /\ k \in {"delete", "restore"}
                   /\ list = Without(Target, t) /\ db.status[t] = "ARCHIVED"
          <5>1. Target = ListOf(db, "ARCHIVED") /\ Target' = ListOf(db', "ARCHIVED")
            BY <1>1, <4>1 DEF Target
          <5>2. db'.status[t] # "ARCHIVED"
            BY <1>1, <4>1, EffectIs DEF Stored
          <5> QED BY <1>5, <2>1, <4>1, <5>1, <5>2, ListGone
        <4>2. CASE /\ page = "important" /\ k = "restore"
                   /\ list = Reinserted(Target, t, db.delay[t]) /\ Stored(db, t)
          <5>1. Target = ListOf(db, "PENDING") /\ Target' = ListOf(db', "PENDING")
            BY <1>1, <4>2 DEF Target
          <5>2. db'.status[t] = "PENDING" /\ db'.delay[t] = db.delay[t]
            BY <1>1, <4>2, EffectIs
          <5> QED BY <1>5, <2>1, <4>2, <5>1, <5>2, ListCame
        <4>3. CASE /\ page = "archive" /\ k = "recreate"
                   /\ list = Reinserted(Target, t, db.delay[t]) /\ db.status[t] = "DELETED"
          <5>1. Target = ListOf(db, "ARCHIVED") /\ Target' = ListOf(db', "ARCHIVED")
            BY <1>1, <4>3 DEF Target
          <5>2. db'.status[t] = "ARCHIVED" /\ db'.delay[t] = db.delay[t]
            BY <1>1, <4>3, EffectIs DEF Stored
          <5> QED BY <1>5, <2>1, <4>3, <5>1, <5>2, ListCame
        <4> QED BY <3>1, <4>1, <4>2, <4>3 DEF CallAgrees
      <3>3. ops'[s].at = "done"
        BY <1>6, <2>5
      <3> QED BY <1>1, <1>2, <2>5, <3>2, <3>3 DEF Agrees, NotAhead
    <2> QED BY <1>4, <1>8, <2>2, <2>3, <2>4, <2>5 DEF Kind, LoadKind
  <1> QED BY <1>7, <1>8

\* What it does in the meantime leaves the offer standing.
LEMMA ServeOffer ==
  ASSUME Types, Places, LoneInv, AgreeInv, NEW s \in Slot, Serve(s)
  PROVE  OfferStands'
  <1> DEFINE t == ops[s].arg
             k == ops[s].kind
             u == undo.arg
  <1>1. /\ s \in Busy /\ ops[s].at = "request" /\ db' = Effect(ops[s])
        /\ UNCHANGED <<page, undo, fresh>> /\ GoesOn(s) /\ ops'[s].kind = k /\ ops'[s].arg = t
    BY ServeIs, ServeTyped DEF PageIs
  <1>2. SUFFICES ASSUME fresh, Offers PROVE OfferStands'
    BY <1>1 DEF OfferStands, Offers
  <1>3. Busy = {s} /\ Busy' = {s} /\ ops[s].live /\ Agrees(s) /\ InPlace(k, page)
    BY <1>1, <1>2, OnlyOne DEF AgreeInv, Follows, Places, OpPlaces, GoesOn
  <1>4. /\ k \notin {"restore", "recreate"}
        /\ k = "snooze" => t # u
        /\ db.delay[u] = undo.delay
        /\ undo.kind = "restore" => db.status[u] \in {"PENDING", "COMPLETED", "ARCHIVED"}
        /\ undo.kind = "recreate" => db.status[u] = "DELETED" \/ \E n \in Slot : Deletes(n)
    BY <1>1, <1>2 DEF AgreeInv, OfferStands
  <1>5. k \in Kind /\ k # "voice" /\ k # "check"
    BY <1>1, <1>3, BusyOp DEF Agrees, Types, ArgsFit
  <1>6. page = IF undo.kind = "restore" THEN "important" ELSE "archive"
    BY <1>2 DEF Places, ShellPlaces, Offers
  <1>7. u \in Task /\ undo.kind \in {"restore", "recreate"}
    BY <1>2, TypesAre DEF Offers, Undos
  <1>8. k # "post" /\ k # "refund"
    BY <1>3, <1>6 DEF InPlace
  <1>9. k \in LoadKind \union {"set", "complete", "snooze", "archive", "delete"}
    BY <1>4, <1>5, <1>8 DEF Kind, LoadKind
  <1>10. k = "delete" => page = "archive" /\ db.status[t] = "ARCHIVED"
    BY <1>1, <1>3 DEF Agrees, CallAgrees
  <1>11. k \in {"complete", "snooze", "archive"} => page # "archive"
    BY <1>3 DEF InPlace
  <1>12. db'.delay[u] = undo.delay
    <2>1. db'.delay[u] = db.delay[u]
      <3>1. CASE k \in LoadKind \union {"set"}
        BY <1>1, <3>1, EffectIs
      <3>2. CASE k \notin LoadKind \union {"set"} /\ u # t
        BY <1>1, <1>7, <3>2, EffectIs
      <3>3. CASE k \in {"complete", "archive", "delete"} /\ u = t
        BY <1>1, <3>3, EffectIs
      <3> QED BY <1>4, <1>9, <3>1, <3>2, <3>3
    <2> QED BY <1>4, <2>1
  <1>13. undo.kind = "restore" => db'.status[u] \in {"PENDING", "COMPLETED", "ARCHIVED"}
    <2>1. SUFFICES ASSUME undo.kind = "restore" PROVE db'.status[u] \in {"PENDING", "COMPLETED", "ARCHIVED"}
      OBVIOUS
    <2>2. k # "delete" /\ db.status[u] \in {"PENDING", "COMPLETED", "ARCHIVED"}
      BY <1>4, <1>6, <1>10, <2>1
    <2>3. CASE k \in LoadKind \union {"set"}
      BY <1>1, <2>2, <2>3, EffectIs
    <2>4. CASE k \notin LoadKind \union {"set"} /\ u # t
      BY <1>1, <1>7, <2>2, <2>4, EffectIs
    <2>5. CASE k \in {"complete", "snooze", "archive"} /\ u = t
      BY <1>1, <2>2, <2>5, EffectIs
    <2> QED BY <1>9, <2>2, <2>3, <2>4, <2>5
  <1>14. undo.kind = "recreate" => db'.status[u] = "DELETED"
    <2>1. SUFFICES ASSUME undo.kind = "recreate" PROVE db'.status[u] = "DELETED"
      OBVIOUS
    <2>2. k \notin {"complete", "snooze", "archive"}
      BY <1>6, <1>11, <2>1
    <2>3. CASE k = "delete" /\ u = t
      <3>1. Stored(db, t)
        BY <1>10, <2>3 DEF Stored
      <3> QED BY <1>1, <2>3, <3>1, EffectIs
    <2>4. CASE ~(k = "delete" /\ u = t)
      <3>1. db.status[u] = "DELETED"
        BY <1>3, <1>4, <2>1, <2>4 DEF Deletes
      <3>2. CASE k \in LoadKind \union {"set"}
        BY <1>1, <3>1, <3>2, EffectIs
      <3>3. CASE k = "delete" /\ u # t
        <4>1. k \notin LoadKind \union {"set"}
          BY <3>3 DEF LoadKind
        <4> QED BY <1>1, <1>7, <3>1, <3>3, <4>1, EffectIs
      <3> QED BY <1>9, <2>2, <2>4, <3>2, <3>3
    <2> QED BY <2>3, <2>4
  <1> QED BY <1>1, <1>3, <1>4, <1>12, <1>13, <1>14 DEF OfferStands

\* The steps of a function.
LEMMA AgreeServe ==
  ASSUME Types, Places, LoneInv, AgreeInv, NEW s \in Slot, Serve(s)
  PROVE  AgreeInv'
  <1>1. GoesOn(s) /\ fresh' = fresh
    BY ServeIs, ServeTyped
  <1>2. Follows'
    BY <1>1, ServeAgrees, FollowsGoesOn
  <1>3. OfferStands'
    BY ServeOffer
  <1> QED BY <1>2, <1>3 DEF AgreeInv

\* A loss that is harmless leaves a list that will be rolled back, or is right.
LEMMA AgreeLose ==
  ASSUME Types, Places, LoneInv, AgreeInv, NEW s \in Slot, LoseRequest(s) \/ LoseAnswer(s)
  PROVE  AgreeInv'
  <1>1. /\ GoesOn(s) /\ s \in Busy /\ db' = db /\ (fresh' => fresh)
        /\ ops'[s].kind = ops[s].kind /\ ops'[s].arg = ops[s].arg
        /\ ops'[s].list = ops[s].list /\ ops'[s].at = "failed"
        /\ UNCHANGED <<page, list, recorded, undo>>
    BY LoseIs, LoseTyped DEF PageIs
  <1>2. fresh' => /\ ops[s].kind \notin {"delete", "refetch"} \/ ops[s].at # "request"
                  /\ \/ /\ ops[s].at = "request" /\ ops[s].kind \in HarmlessRequest
                        /\ ops[s].kind = "complete" => db.status[ops[s].arg] # "COMPLETED"
                     \/ ops[s].at = "done" /\ ops[s].kind \in HarmlessAnswer
    BY LoseTyped DEF HarmlessRequest
  <1>3. ASSUME fresh' PROVE Agrees(s)'
    <2>1. Agrees(s) /\ Target' = Target
      BY <1>1, <1>3, TargetSame DEF AgreeInv, Follows
    <2>2. CASE ops[s].at = "done"
      <3>1. ops[s].kind \in HarmlessAnswer
        BY <1>2, <1>3, <2>2
      <3>2. CASE ops[s].kind = "refund"
        BY <1>1, <2>1, <2>2, <3>2 DEF Agrees, NotAhead, FinishAgrees
      <3>3. CASE ops[s].kind # "refund"
        BY <1>1, <2>1, <2>2, <3>1, <3>3 DEF Agrees, NotAhead, HarmlessAnswer
      <3> QED BY <3>2, <3>3
    <2>3. CASE ops[s].at = "request"
      <3>1. /\ ops[s].kind \in HarmlessRequest
            /\ ops[s].kind = "complete" => db.status[ops[s].arg] # "COMPLETED"
        BY <1>2, <1>3, <2>3
      <3>2. CASE ops[s].kind = "refund"
        BY <1>1, <2>1, <3>2 DEF Agrees, NotAhead, FinishAgrees
      <3>3. CASE ops[s].kind = "complete"
        BY <1>1, <2>1, <2>3, <3>1, <3>3 DEF Agrees, NotAhead, CompleteAgrees
      <3>4. CASE ops[s].kind \in {"snooze", "archive"}
        BY <1>1, <2>1, <2>3, <3>4 DEF Agrees, NotAhead, ChangeAgrees
      <3>5. CASE ops[s].kind \in {"fetch", "items", "completed", "post", "set"}
        BY <1>1, <2>1, <2>3, <3>5 DEF Agrees, NotAhead
      <3> QED BY <3>1, <3>2, <3>3, <3>4, <3>5 DEF HarmlessRequest
    <2> QED BY <1>2, <1>3, <2>2, <2>3
  <1>4. Follows'
    BY <1>1, <1>3, FollowsGoesOn
  <1>5. OfferStands'
    <2>1. CASE ~fresh'
      BY <2>1 DEF OfferStands
    <2>2. CASE fresh'
      <3>1. ~Deletes(s)
        BY <1>2, <2>2 DEF Deletes
      <3> QED BY <1>1, <3>1, OfferGoesOn DEF AgreeInv
    <2> QED BY <2>1, <2>2
  <1> QED BY <1>4, <1>5 DEF AgreeInv

\* completeTask takes the task off the list that agreed.
LEMMA AgreeCompleteNow ==
  ASSUME Types, Places, LoneInv, AgreeInv, NEW s \in Slot, CompleteNow(s)
  PROVE  AgreeInv'
  <1>1. /\ s \in Busy /\ ops[s].kind \in {"refund", "check"}
        /\ GoesOn(s) /\ ops'[s].kind = "complete" /\ ops'[s].at = "request"
        /\ ops'[s].arg = ops[s].arg /\ ops'[s].list = ops[s].list
        /\ list' = IF ops[s].live THEN optimistic("complete", ops[s].arg, ops[s].list) ELSE list
        /\ UNCHANGED <<db, page, recorded, fresh, undo>>
    BY CompleteNowIs DEF Calm
  <1>2. ASSUME fresh' PROVE Agrees(s)'
    <2>1. ops[s].live /\ Agrees(s)
      BY <1>1, <1>2, OnlyOne DEF AgreeInv, Follows
    <2>2. /\ ops[s].list = list /\ ops[s].arg \in DOMAIN list
          /\ Target = IF db.status[ops[s].arg] = "COMPLETED" THEN Without(list, ops[s].arg) ELSE list
      BY <1>1, <2>1 DEF Agrees, FinishAgrees
    <2>3. list' = Without(ops[s].list, ops[s].arg)
      BY <1>1, <2>1, <2>2, DropIs, TypesAre
    <2>4. Target' = Target
      BY <1>1, TargetSame
    <2> QED BY <1>1, <2>2, <2>3, <2>4 DEF Agrees, NotAhead, CompleteAgrees
  <1>3. Follows'
    BY <1>1, <1>2, FollowsGoesOn
  <1>4. ~Deletes(s)
    BY <1>1 DEF Deletes
  <1>5. OfferStands'
    BY <1>1, <1>4, OfferGoesOn DEF AgreeInv
  <1> QED BY <1>3, <1>5 DEF AgreeInv

\* A change that ends has succeeded, or is rolled back.
LEMMA AgreeSettle ==
  ASSUME Types, Places, LoneInv, AgreeInv, NEW s \in Slot, Settle(s)
  PROVE  AgreeInv'
  <1>1. /\ s \in Busy /\ ops[s].kind \in {"complete", "snooze", "archive"} /\ ops[s].at # "request"
        /\ Ended(s) /\ list' = IF ops[s].live /\ ops[s].at = "failed" THEN ops[s].list ELSE list
        /\ UNCHANGED <<db, page, recorded, fresh, undo>>
    BY SettleIs DEF Calm
  <1>2. ASSUME fresh' PROVE list' = Target'
    <2>1. ops[s].live /\ Agrees(s) /\ ops[s].at \in {"done", "failed"}
      BY <1>1, <1>2, OnlyOne, BusyOp DEF AgreeInv, Follows
    <2>2. Target = IF ops[s].at = "failed" THEN ops[s].list ELSE list
      BY <1>1, <2>1 DEF Agrees, CompleteAgrees, ChangeAgrees
    <2>3. Target' = Target
      BY <1>1, TargetSame
    <2> QED BY <1>1, <2>1, <2>2, <2>3
  <1>3. Follows'
    BY <1>1, <1>2, FollowsEnded
  <1>4. ~Deletes(s)
    BY <1>1 DEF Deletes
  <1>5. OfferStands'
    BY <1>1, <1>4, OfferEnded DEF AgreeInv
  <1> QED BY <1>3, <1>5 DEF AgreeInv

\* A load that was alone brings the list of the service, and there is no offer yet.
LEMMA AgreeLoaded ==
  ASSUME Types, Places, LoneInv, LoadInv, AgreeInv, NEW s \in Slot, Loaded(s) \/ Refetched(s)
  PROVE  AgreeInv'
  <1>1. /\ s \in Busy /\ ops[s].kind \in {"fetch", "items", "refetch"} /\ ops[s].at # "request"
        /\ Ended(s) /\ Arrives(s) /\ UNCHANGED <<db, page, recorded, undo>>
    BY LoadedIs, RefetchedIs DEF Calm
  <1>2. /\ list' = IF Good(s) THEN ops[s].list ELSE list
        /\ fresh' => fresh \/ (Good(s) /\ ops[s].alone)
    BY <1>1 DEF Arrives
  <1>3. ops[s].live => InPlace(ops[s].kind, page)
    BY <1>1 DEF Places, OpPlaces
  <1>4. ASSUME fresh' PROVE list' = Target'
    <2>1. Target' = Target
      BY <1>1, TargetSame
    <2>2. CASE Good(s)
      <3>1. ops[s].live /\ ops[s].at = "done" /\ ops[s].alone
        BY <1>1, <1>2, <1>4, <2>2, OnlyOne DEF Good
      <3>2. CASE ops[s].kind = "items"
        <4>1. page = "archive" /\ ops[s].list = ListOf(db, "ARCHIVED")
          BY <1>1, <1>3, <3>1, <3>2 DEF InPlace, LoneInv, LoadIs
        <4> QED BY <1>2, <2>1, <2>2, <4>1, TargetIs
      <3>3. CASE ops[s].kind \in {"fetch", "refetch"}
        <4>1. page \in {"today", "important"} /\ ops[s].list = ListOf(db, "PENDING")
          BY <1>1, <1>3, <3>1, <3>3 DEF InPlace, LoneInv, LoadIs
        <4> QED BY <1>2, <2>1, <2>2, <4>1, TargetIs
      <3> QED BY <1>1, <3>2, <3>3
    <2>3. CASE ~Good(s)
      <3>1. fresh /\ ops[s].live /\ Agrees(s)
        BY <1>1, <1>2, <1>4, <2>3, OnlyOne DEF AgreeInv, Follows
      <3>2. ops[s].at = "failed"
        BY <1>1, <2>3, <3>1, BusyOp DEF Good
      <3>3. list = Target
        BY <1>1, <3>1, <3>2 DEF Agrees, NotAhead
      <3> QED BY <1>2, <2>1, <2>3, <3>3
    <2> QED BY <2>2, <2>3
  <1>5. Follows'
    BY <1>1, <1>2, <1>4, FollowsEnded
  <1>6. Good(s) => ~Offers
    <2>1. SUFFICES ASSUME Good(s) PROVE ~Offers
      OBVIOUS
    <2>2. ops[s].live /\ page \in Page /\ InPlace(ops[s].kind, page)
      BY <1>3, <2>1, TypesAre DEF Good
    <2>3. CASE page \in {"today", "history"}
      BY <2>3, NoOffer
    <2>4. CASE page \in {"important", "archive"}
      <3>1. ops[s].kind \in {"fetch", "items"}
        BY <1>1, <2>2, <2>4 DEF InPlace
      <3>2. Loading
        BY <1>1, <2>2, <2>4, <3>1 DEF Loading, LoadedOnce, LiveLoad
      <3> QED BY <3>2 DEF LoadInv, Blank
    <2> QED BY <2>2, <2>3, <2>4 DEF Page
  <1>7. ~Deletes(s)
    BY <1>1 DEF Deletes
  <1>8. OfferStands'
    BY <1>1, <1>2, <1>6, <1>7, OfferEnded DEF AgreeInv
  <1> QED BY <1>5, <1>8 DEF AgreeInv

\* History shows what was recorded.
LEMMA AgreeCompleted ==
  ASSUME Types, Places, LoneInv, AgreeInv, NEW s \in Slot, CompletedLoaded(s)
  PROVE  AgreeInv'
  <1>1. /\ s \in Busy /\ ops[s].kind = "completed" /\ Ended(s)
        /\ list' = IF ops[s].live THEN loadCompleted ELSE list
        /\ fresh' => fresh \/ (ops[s].live /\ ops[s].alone)
        /\ UNCHANGED <<db, page, recorded, undo>>
    BY CompletedIs DEF Calm
  <1>2. ops[s].live => page = "history"
    BY <1>1 DEF Places, OpPlaces, InPlace
  <1>3. fresh' => ops[s].live
    BY <1>1, OnlyOne
  <1>4. Target' = Target
    BY <1>1, TargetSame
  <1>5. fresh' => list' = Target'
    BY <1>1, <1>2, <1>3, <1>4, TargetIs
  <1>6. Follows'
    BY <1>1, <1>5, FollowsEnded
  <1>7. fresh' => ~Offers
    BY <1>2, <1>3, NoOffer
  <1>8. OfferStands'
    BY <1>1, <1>7 DEF OfferStands, Offers
  <1> QED BY <1>6, <1>8 DEF AgreeInv

\* A creation is followed by a load, or has changed nothing.
LEMMA AgreePosted ==
  ASSUME Types, Places, LoneInv, AgreeInv, NEW s \in Slot, Posted(s)
  PROVE  AgreeInv'
  <1>1. /\ s \in Busy /\ ops[s].kind = "post"
        /\ \/ /\ GoesOn(s) /\ ops'[s].kind = "refetch" /\ ops'[s].at = "request"
              /\ ops'[s].arg = ops[s].arg
           \/ ops[s].at = "failed" /\ Ended(s)
        /\ UNCHANGED <<db, page, list, recorded, fresh, undo>>
    BY PostedIs DEF Calm
  <1>2. ~Deletes(s) /\ Target' = Target
    BY <1>1, TargetSame DEF Deletes
  <1>3. CASE GoesOn(s) /\ ops'[s].kind = "refetch" /\ ops'[s].at = "request" /\ ops'[s].arg = ops[s].arg
    <2>1. Agrees(s)'
      BY <1>3 DEF Agrees, NotAhead
    <2>2. Follows'
      BY <1>1, <1>3, <2>1, FollowsGoesOn
    <2>3. OfferStands'
      BY <1>1, <1>2, <1>3, OfferGoesOn DEF AgreeInv
    <2> QED BY <2>2, <2>3 DEF AgreeInv
  <1>4. CASE ops[s].at = "failed" /\ Ended(s)
    <2>1. fresh' => list' = Target'
      BY <1>1, <1>2, <1>4 DEF AgreeInv, Follows, Agrees, NotAhead
    <2>2. Follows'
      BY <1>1, <1>4, <2>1, FollowsEnded
    <2>3. OfferStands'
      BY <1>1, <1>2, <1>4, OfferEnded DEF AgreeInv
    <2> QED BY <2>2, <2>3 DEF AgreeInv
  <1> QED BY <1>1, <1>3, <1>4

\* An answer that nobody reads leaves a list that is right.
LEMMA AgreeForget ==
  ASSUME Types, Places, LoneInv, AgreeInv, NEW s \in Slot, Forget(s)
  PROVE  AgreeInv'
  <1>1. /\ s \in Busy /\ ops[s].kind \in {"restore", "delete", "recreate", "set"}
        /\ ops[s].at # "request" /\ Ended(s)
        /\ UNCHANGED <<db, page, list, recorded, fresh, undo>>
    BY ForgetIs DEF Calm
  <1>2. ~Deletes(s) /\ Target' = Target
    BY <1>1, TargetSame DEF Deletes
  <1>3. fresh' => list' = Target'
    BY <1>1, <1>2 DEF AgreeInv, Follows, Agrees, NotAhead
  <1>4. Follows'
    BY <1>1, <1>3, FollowsEnded
  <1>5. OfferStands'
    BY <1>1, <1>2, OfferEnded DEF AgreeInv
  <1> QED BY <1>4, <1>5 DEF AgreeInv

\* A creation by voice never runs on a page that is known to agree.
LEMMA AgreeCreated ==
  ASSUME Types, AgreeInv, NEW s \in Slot, Created(s)
  PROVE  AgreeInv'
  <1>1. s \in Busy /\ ops[s].kind = "voice" /\ fresh' = fresh
    BY CreatedIs
  <1>2. ~fresh'
    BY <1>1 DEF AgreeInv, Follows, Agrees
  <1> QED BY <1>2 DEF AgreeInv, Follows, OfferStands

\* Idle steps change nothing.
LEMMA AgreeIdle ==
  ASSUME Types, AgreeInv, Idle
  PROVE  AgreeInv'
  <1>1. /\ UNCHANGED <<db, ops, page, list, recorded, fresh>> /\ undo' \in {undo, NoUndo}
        /\ Busy' = Busy
    BY DEF Idle, Busy
  <1>2. Target' = Target
    BY <1>1, TargetSame
  <1>3. \A s \in Busy : Agrees(s) => Agrees(s)'
    BY <1>1, <1>2 DEF Agrees, NotAhead, FinishAgrees, CompleteAgrees, ChangeAgrees, CallAgrees
  <1>4. Follows'
    BY <1>1, <1>2, <1>3 DEF AgreeInv, Follows
  <1>5. OfferStands'
    <2>1. CASE undo' = NoUndo
      BY <2>1 DEF OfferStands, Offers
    <2>2. CASE undo' = undo
      BY <1>1, <2>2 DEF AgreeInv, OfferStands, Offers, Deletes
    <2> QED BY <1>1, <2>1, <2>2
  <1> QED BY <1>4, <1>5 DEF AgreeInv

\* Every step keeps the agreement.
LEMMA AgreeKept ==
  ASSUME Types, VoiceTypes, Places, LoneInv, LoadInv, AgreeInv, AppNext
  PROVE  AgreeInv'
  <1>1. CASE IdleAction
    BY <1>1, IdleTyped, AgreeIdle
  <1>2. ASSUME NEW p \in Page, Show(p), clicks' \in 0 .. MaxClick, voiceOpen' \in BOOLEAN
        PROVE  AgreeInv'
    BY <1>2, ShowTyped DEF AgreeInv, Follows, OfferStands
  <1>3. ASSUME NEW t \in Task, SubmitForm(t) \/ QuickAdd(t) PROVE AgreeInv'
    <2>1. /\ Starts("post", t, <<>>, "request") /\ fresh' = (fresh /\ Busy = {})
          /\ UNCHANGED <<list, undo, recorded>>
      BY <1>3, CreateIs
    <2> QED BY <2>1, AgreePlain
  <1>4. CASE fetchTasks
    <2>1. /\ Starts("fetch", NoTask, <<>>, "request") /\ fresh' = (fresh /\ Busy = {})
          /\ UNCHANGED <<list, undo, recorded>>
      BY <1>4, FetchIs
    <2> QED BY <2>1, AgreePlain
  <1>5. ASSUME NEW seconds \in Total, updateAvailable(seconds) PROVE AgreeInv'
    <2>1. /\ Starts("set", seconds, <<>>, "request") /\ fresh' = (fresh /\ Busy = {})
          /\ UNCHANGED <<list, undo, recorded>>
      BY <1>5, SetIs
    <2> QED BY <2>1, AgreePlain
  <1>6. ASSUME NEW c \in chains, c.at = "wait", Create(c) PROVE AgreeInv'
    <2>1. fresh' = FALSE
      BY <1>6, VoiceIs DEF VoiceTypes
    <2> QED BY <2>1 DEF AgreeInv, Follows, OfferStands
  <1> QED BY <1>1, <1>2, <1>3, <1>4, <1>5, <1>6, AgreeFinish, AgreeCheck, AgreeKeep,
       AgreeArchive, AgreeRestore, AgreeRemove, AgreeUndo, AgreeServe, AgreeLose,
       AgreeCompleteNow, AgreeSettle, AgreeLoaded, AgreeCompleted, AgreePosted, AgreeForget,
       AgreeCreated, StepCases
     DEF PageAction, OpAction, VoiceAction, ShowAction

\* When nothing is under way, the page agrees.
LEMMA FollowsMeans ==
  ASSUME Follows
  PROVE  ListAgrees
  BY DEF Follows, ListAgrees, Target

-----------------------------------------------------------------------------
(* The invariant, and what follows from it. *)

AppInv ==
    /\ Types /\ VoiceTypes /\ Places /\ MovedOnly /\ IdsFresh
    /\ FinishOnItsWay /\ NothingBegins /\ TimerInv /\ LoneInv /\ LoadInv /\ AgreeInv

\* No timer has run.
LEMMA TimerStarts ==
  ASSUME Init
  PROVE  TimerInv
  <1>1. /\ runtime = [t \in Task |-> emptyEntry] /\ clock = 0
        /\ MaxTime \in Nat /\ IsFiniteSet(Task)
    BY PageAssumption, ServiceAssumption DEF Init
  <1>2. TimerTypes /\ OneRuns
    BY <1>1 DEF TimerTypes, OneRuns, Entry, emptyEntry
  <1>3. \A t \in Task : displaySeconds(runtime[t]) = 0
    BY <1>1 DEF displaySeconds, emptyEntry
  <1>4. Times \in [Task -> Nat] /\ \A t \in Task : Times[t] = 0
    BY <1>3 DEF Times
  <1>5. SumFunction(Times) = 0
    BY <1>1, <1>4, SumOfZeros
  <1> QED BY <1>1, <1>2, <1>5 DEF TimerInv, TimeNotDoubled, Times

\* A tab that has just been opened.
LEMMA AppStarts ==
  ASSUME AppInit
  PROVE  AppInv
  <1>1. /\ db = StartOfDay /\ page = "today" /\ list = <<>> /\ isLoading = TRUE /\ armed = TRUE
        /\ ops = [s \in Slot |-> Free] /\ recorded = {} /\ form = Closed /\ modal = NoTask
        /\ undo = NoUndo /\ voiceOpen = FALSE /\ clicks = 0 /\ lost = 0 /\ fresh = FALSE
        /\ missed = [t \in Task |-> 0] /\ moved = {} /\ supported \in BOOLEAN
        /\ stage = "none" /\ cancelRef = FALSE /\ chains = {}
    BY DEF AppInit, Init
  <1>2. Busy = {}
    BY <1>1 DEF Busy
  <1>3. db \in DbType
    BY <1>1, ServiceAssumption DEF StartOfDay, DbType, RowStatus
  <1>4. Types
    <2>1. IsList(list) /\ MaxClick \in Nat /\ MaxLost \in Nat
      BY <1>1, EmptyList, PageAssumption
    <2>2. form \in [open : BOOLEAN, creating : BOOLEAN, error : BOOLEAN]
      BY <1>1 DEF Closed
    <2>3. ops = [s \in Slot |-> ops[s]] /\ page \in Page /\ missed \in [Task -> Nat]
      BY <1>1 DEF Page
    <2>4. /\ {isLoading, armed, fresh} \subseteq BOOLEAN /\ voiceOpen \in BOOLEAN
          /\ recorded \union moved \subseteq Task /\ modal \in Task \union {NoTask}
          /\ undo \in Undos
      BY <1>1 DEF Undos
    <2>5. clicks \in 0 .. MaxClick /\ lost \in 0 .. MaxLost
      BY <1>1, <2>1
    <2>6. PageTypes
      BY <1>2, <1>3, <2>1, <2>2, <2>3, <2>4, <2>5 DEF PageTypes, DbType, Undos
    <2> QED BY <1>2, <2>6 DEF Types, ArgsFit
  <1>5. Places /\ FinishOnItsWay
    BY <1>1, <1>2 DEF Places, OpPlaces, ShellPlaces, Closed, FinishOnItsWay
  <1>6. MovedOnly
    <2>1. Gone = {}
      BY <1>1 DEF Gone, StartOfDay
    <2>2. DOMAIN list = {}
      BY <1>1, EmptyList
    <2> QED BY <1>1, <1>2, <2>1, <2>2 DEF MovedOnly, OpsTraced, PageTraced
  <1>7. IdsFresh
    BY <1>1, <1>2 DEF IdsFresh, OpsFresh, ChainsFresh, OneEach, Creating
  <1>8. VoiceTypes /\ NothingBegins
    BY <1>1 DEF VoiceTypes, NothingBegins
  <1>9. TimerInv
    BY TimerStarts DEF AppInit
  <1>10. LoneInv /\ AgreeInv
    BY <1>1, <1>2 DEF LoneInv, AloneIs, FreshIs, LoadIs, AgreeInv, OfferStands, Follows
  <1>11. LoadInv
    BY <1>1, <1>2 DEF LoadInv, OneLoad, Loading, LoadedOnce
  <1> QED BY <1>4, <1>5, <1>6, <1>7, <1>8, <1>9, <1>10, <1>11 DEF AppInv

\* Nothing happens.
LEMMA AppStays ==
  ASSUME AppInv, UNCHANGED appVars
  PROVE  AppInv'
  <1>1. /\ UNCHANGED <<db, page, list, isLoading, armed, ops, runtime, recorded, clock, form, modal>>
        /\ UNCHANGED <<undo, voiceOpen, clicks, lost, fresh, missed, moved>>
        /\ UNCHANGED <<supported, stage, cancelRef, chains>>
    BY DEF appVars, vars, voice, timer, shell, history
  <1>2. Busy' = Busy /\ Known' = Known /\ Gone' = Gone
    BY <1>1 DEF Busy, Known, Gone
  <1>3. Types'
    BY <1>1, <1>2 DEF AppInv, Types, PageTypes, ArgsFit
  <1>4. VoiceTypes' /\ NothingBegins'
    BY <1>1 DEF AppInv, VoiceTypes, NothingBegins
  <1>5. Places'
    BY <1>1, <1>2 DEF AppInv, Places, OpPlaces, ShellPlaces
  <1>6. MovedOnly'
    BY <1>1, <1>2 DEF AppInv, MovedOnly, OpsTraced, PageTraced, Traced
  <1>7. IdsFresh'
    BY <1>1, <1>2 DEF AppInv, IdsFresh, OpsFresh, ChainsFresh, OneEach, Creating
  <1>8. FinishOnItsWay'
    BY <1>1, <1>2 DEF AppInv, FinishOnItsWay, OnItsWay, Refunds, ToComplete
  <1>9. TimerInv'
    BY <1>1 DEF AppInv, TimerInv, TimerTypes, OneRuns, TimeNotDoubled, Entry, displaySeconds
  <1>10. LoneInv'
    BY <1>1, <1>2 DEF AppInv, LoneInv, AloneIs, FreshIs, LoadIs
  <1>11. LoadInv'
    BY <1>1, <1>2
       DEF AppInv, LoadInv, OneLoad, Loading, LoadedOnce, LiveLoad, Blank, Offers, RollsBack
  <1>12. Idle
    BY <1>1 DEF Idle
  <1>13. AgreeInv'
    BY <1>12, AgreeIdle DEF AppInv
  <1> QED BY <1>3, <1>4, <1>5, <1>6, <1>7, <1>8, <1>9, <1>10, <1>11, <1>13 DEF AppInv

\* The parts of the invariant, put together.
LEMMA AppKept ==
  ASSUME AppInv, [AppNext]_appVars
  PROVE  AppInv'
  <1>1. CASE AppNext
    <2>1. Types' /\ VoiceTypes'
      BY <1>1, TypesKept, VoiceTypesKept DEF AppInv
    <2>2. Places' /\ MovedOnly'
      BY <1>1, PlacesKept, MovedKept DEF AppInv
    <2>3. IdsFresh' /\ FinishOnItsWay'
      BY <1>1, IdsKept, FinishKept DEF AppInv
    <2>4. NothingBegins' /\ TimerInv'
      BY <1>1, NothingBeginsKept, TimerKept DEF AppInv
    <2>5. LoneInv' /\ LoadInv' /\ AgreeInv'
      BY <1>1, LoneKept, LoadKept, AgreeKept DEF AppInv
    <2> QED BY <2>1, <2>2, <2>3, <2>4, <2>5 DEF AppInv
  <1>2. CASE UNCHANGED appVars
    BY <1>2, AppStays
  <1> QED BY <1>1, <1>2

\* The invariant holds throughout.
THEOREM AppInvariant == AppSpec => []AppInv
  <1>1. AppInit => AppInv
    BY AppStarts
  <1>2. AppInv /\ [AppNext]_appVars => AppInv'
    BY AppKept
  <1> QED BY <1>1, <1>2, PTL DEF AppSpec

\* Every variable keeps its type, and only a timer that runs has the start of an interval
\* (useTaskRuntime, useTasks, TodayTasksPage).
THEOREM TodayTyped == AppSpec => []TypeOK
  <1>1. AppInv => TypeOK
    BY DEF AppInv, Types, PageTypes, TimerInv, TimerTypes, TypeOK
  <1> QED BY <1>1, AppInvariant, PTL

\* The times on the cards never add up to more than has passed: whatever starts, resumes,
\* is paused or is finished, the others have been paused (useTaskRuntime).
THEOREM NoSecondTwice == AppSpec => []TimeNotDoubled
  <1>1. AppInv => TimeNotDoubled
    BY DEF AppInv, TimerInv
  <1> QED BY <1>1, AppInvariant, PTL

\* A finished task that was not moved is completed for the service, or one of the two
\* requests that complete it is still to come, or both got lost (handleFinish).
THEOREM FinishedGetsCompleted == AppSpec => []FinishedIsCompleted
  <1>1. AppInv => FinishedIsCompleted
    BY OnItsWayMeans DEF AppInv
  <1> QED BY <1>1, AppInvariant, PTL

\* At rest the page shows what the service holds, or what was recorded, whatever was lost or
\* refused on the way, unless one of the disturbances that the page does not notice came
\* in between (useTasks.mutate, drop, the undo of a toast).
THEOREM PageAgrees == AppSpec => []ListAgrees
  <1>1. AppInv => ListAgrees
    BY FollowsMeans DEF AppInv, AgreeInv
  <1> QED BY <1>1, AppInvariant, PTL

\* A voice dialog that is closed begins no creation, whatever was heard before and
\* whoever still answers (cancelRef in VoiceModal).
THEOREM ClosedBeginsNothing == AppSpec => CreatedWhileOpen
  <1> DEFINE Begins(t) ==
        (supported /\ ~voiceOpen /\ t \notin {ops[s].arg : s \in Busy})
        => \A s \in Slot : ops'[s] # Free => ops'[s].kind # "voice" \/ ops'[s].arg # t
  <1>1. AppInv /\ [AppNext]_appVars => [\A t \in Task : Begins(t)]_appVars
    BY CreatedOpen DEF AppInv
  <1>2. AppInv /\ [AppNext]_appVars =>
          [\A t \in Task : (supported /\ ~voiceOpen /\ t \notin {ops[s].arg : s \in Busy})
             => \A s \in Slot : ops'[s] # Free => ops'[s].kind # "voice" \/ ops'[s].arg # t]_appVars
    BY <1>1
  <1> QED BY <1>2, AppInvariant, PTL DEF AppSpec, CreatedWhileOpen
=============================================================================
