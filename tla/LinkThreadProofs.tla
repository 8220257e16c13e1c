--------------------------- MODULE LinkThreadProofs ---------------------------
(***************************************************************************)
(* Proofs about LinkThread, for any number of boards and threads and any    *)
(* calls of theirs: requests are served one at a time, a board is online    *)
(* exactly when its driver holds the interface, hotplug_lock comes back,    *)
(* and a closed board stays closed.                                         *)
(***************************************************************************)
EXTENDS LinkThread, TLAPS

-----------------------------------------------------------------------------
(* The thread t waits for its request on board b, or has got its answer.      *)
Waits(t, b) == At(t, "waiting") /\ caller[t].board = b

(* Whoever has handed over a request holds the mutex until it returns, and    *)
(* every request is that of a thread that waits for it.                      *)
Callers ==
  /\ \A t \in Threads :
       At(t, "waiting") \/ At(t, "served") => m_big_gpib_mutex[caller[t].board] = t
  /\ \A b \in Boards :
       /\ ~Idle(b) => Waits(Request(b).by, b)
       /\ posted[b] # <<>> => /\ Waits(Head(posted[b]).by, b)
                              /\ Head(posted[b]).step = "start"

(* What holds of a board at each step of the request that it serves.         *)
BoardOK(b) ==
  /\ Idle(b) \/ Request(b).step \in {"start", "transfer"} => online[b] = bus_interface[b]
  /\ ~Idle(b) /\ Request(b).step \in {"attach", "search"}
       => online[b] = FALSE /\ bus_interface[b] = FALSE
  /\ ~Idle(b) /\ Request(b).step = "setup" => online[b] = FALSE /\ bus_interface[b] = TRUE
  /\ isCancelled[b] = TRUE => /\ Idle(b)
                              /\ online[b] = FALSE /\ bus_interface[b] = FALSE
  /\ hotplug_lock = b => ~Idle(b) /\ Request(b).step \in {"search", "setup", "detach"}

IInv == TypeOK /\ Callers /\ OneAtATime /\ \A b \in Boards : BoardOK(b)

-----------------------------------------------------------------------------
(* A request that is served is the only one of its board.                     *)
LEMMA Alone ==
  ASSUME IInv, NEW b \in Boards, ~Idle(b)
  PROVE  /\ serving[b] \in Seq(Requests) /\ Len(serving[b]) = 1
         /\ Request(b) = serving[b][1] /\ Request(b) \in Requests
         /\ Request(b).by \in Threads /\ posted[b] = <<>>
<1>1. serving[b] \in Seq(Requests) /\ posted[b] \in Seq(Requests)
      /\ Len(serving[b]) + Len(posted[b]) <= 1 /\ serving[b] # <<>>
  BY DEF IInv, TypeOK, OneAtATime, Idle
<1>2. Len(serving[b]) = 1 /\ Len(posted[b]) = 0
  <2> DEFINE m == Len(serving[b])
             n == Len(posted[b])
  <2>1. m \in Nat /\ n \in Nat
    BY <1>1
  <2>2. m # 0
    BY <1>1
  <2>3. m + n <= 1
    BY <1>1, Zenon
  <2> HIDE DEF m, n
  <2>4. m = 1 /\ n = 0
    BY <2>1, <2>2, <2>3
  <2>5. QED
    BY <2>4 DEF m, n
<1>3. Request(b) = serving[b][1] /\ serving[b][1] \in Requests
  BY <1>1, <1>2 DEF Request, Last
<1>4. posted[b] = <<>>
  BY <1>1, <1>2
<1>5. QED
  BY <1>1, <1>2, <1>3, <1>4 DEF Requests

(* The step of the request moves on, and nothing else of it.                  *)
LEMMA OnwardRequest ==
  ASSUME IInv, NEW b \in Boards, ~Idle(b), NEW step \in Steps, Onward(b, step)
  PROVE  /\ serving' \in [Boards -> Seq(Requests)]
         /\ Len(serving'[b]) = 1 /\ ~Idle(b)'
         /\ Request(b)'.step = step /\ Request(b)'.by = Request(b).by
         /\ \A c \in Boards : c # b => serving'[c] = serving[c]
<1> DEFINE r == [serving[b][1] EXCEPT !.step = step]
           s == [serving[b] EXCEPT ![1] = r]
<1>1. Len(serving[b]) = 1 /\ serving[b] \in Seq(Requests) /\ serving[b][1] \in Requests
      /\ Request(b) = serving[b][1]
  BY Alone
<1>2. serving \in [Boards -> Seq(Requests)]
  BY DEF IInv, TypeOK
<1>3. serving' = [serving EXCEPT ![b] = s]
  BY <1>1, <1>2 DEF Onward
<1>4. r \in Requests /\ r.step = step /\ r.by = serving[b][1].by
  BY <1>1 DEF Requests
<1> HIDE DEF r
<1>5. s \in Seq(Requests) /\ Len(s) = 1 /\ s[1] = r
  BY <1>1, <1>4
<1> HIDE DEF s
<1>6. /\ serving' \in [Boards -> Seq(Requests)] /\ serving'[b] = s
      /\ \A c \in Boards : c # b => serving'[c] = serving[c]
  BY <1>2, <1>3, <1>5
<1>7. ~Idle(b)'
  <2>1. s # <<>>
    BY <1>5
  <2>2. QED
    BY <1>6, <2>1 DEF Idle
<1>8. Request(b)' = r
  BY <1>5, <1>6 DEF Request, Last
<1>9. QED
  BY <1>1, <1>4, <1>5, <1>6, <1>7, <1>8

(* The request ends: its thread has the answer, and its board nothing to do.   *)
LEMMA DoneRequest ==
  ASSUME IInv, NEW b \in Boards, ~Idle(b), Done(b)
  PROVE  /\ serving' \in [Boards -> Seq(Requests)] /\ serving'[b] = <<>> /\ Idle(b)'
         /\ \A c \in Boards : c # b => serving'[c] = serving[c]
<1>1. Len(serving[b]) = 1 /\ serving[b] \in Seq(Requests)
  BY Alone
<1>2. Front(serving[b]) = <<>>
  BY <1>1 DEF Front
<1>3. serving \in [Boards -> Seq(Requests)] /\ <<>> \in Seq(Requests)
  BY DEF IInv, TypeOK
<1>4. serving' = [serving EXCEPT ![b] = <<>>]
  BY <1>2 DEF Done
<1>5. QED
  BY <1>3, <1>4 DEF Idle

(* What the driver does on one board says nothing of another.                 *)
OnlyAt(b) ==
  /\ online' \in [Boards -> BOOLEAN] /\ bus_interface' \in [Boards -> BOOLEAN]
  /\ isExecuting' \in [Boards -> BOOLEAN] /\ isCancelled' \in [Boards -> BOOLEAN]
  /\ \A c \in Boards : c # b =>
       /\ online'[c] = online[c] /\ bus_interface'[c] = bus_interface[c]
       /\ isCancelled'[c] = isCancelled[c] /\ serving'[c] = serving[c]
  /\ hotplug_lock' \in {hotplug_lock, Nobody, b}

(* A step at one board leaves every other board as it was.                    *)
LEMMA OthersOK ==
  ASSUME IInv, NEW b \in Boards, OnlyAt(b), BoardOK(b)'
  PROVE  \A c \in Boards : BoardOK(c)'
<1>1. SUFFICES ASSUME NEW c \in Boards, c # b PROVE BoardOK(c)'
  OBVIOUS
<1>2. BoardOK(c)
  BY DEF IInv
<1>3. /\ online'[c] = online[c] /\ bus_interface'[c] = bus_interface[c]
      /\ isCancelled'[c] = isCancelled[c] /\ serving'[c] = serving[c]
  BY <1>1 DEF OnlyAt
<1>4. hotplug_lock' = c => hotplug_lock = c
  BY <1>1, ThreadAssumption DEF OnlyAt
<1>5. Idle(c)' = Idle(c) /\ Request(c)' = Request(c)
  BY <1>3 DEF Idle, Request
<1>6. QED
  BY <1>2, <1>3, <1>4, <1>5 DEF BoardOK

(* A request that moves on keeps the invariant if its board is as the next step *)
(* wants it.                                                                 *)
LEMMA OnwardInv ==
  ASSUME IInv, NEW b \in Boards, ~Idle(b), NEW step \in Steps, Onward(b, step),
         OnlyAt(b), BoardOK(b)'
  PROVE  IInv'
<1>1. /\ serving' \in [Boards -> Seq(Requests)]
      /\ Len(serving'[b]) = 1 /\ ~Idle(b)' /\ Request(b)'.by = Request(b).by
      /\ \A c \in Boards : c # b => serving'[c] = serving[c]
  BY OnwardRequest
<1>2. UNCHANGED <<isExecuting, isCancelled, m_big_gpib_mutex, posted, caller>>
  BY DEF Onward, thread_state
<1>3. TypeOK'
  <2>1. hotplug_lock' \in Boards \union {Nobody}
    BY DEF OnlyAt, IInv, TypeOK
  <2>2. QED
    BY <1>1, <1>2, <2>1 DEF OnlyAt, IInv, TypeOK, At
<1>4. Callers'
  <2>1. ASSUME NEW c \in Boards, ~Idle(c)' PROVE Waits(Request(c).by, c)'
    <3>1. CASE c = b
      BY <1>1, <1>2, <3>1 DEF IInv, Callers, Waits, At
    <3>2. CASE c # b
      <4>1. Idle(c)' = Idle(c) /\ Request(c)' = Request(c)
        BY <1>1, <3>2 DEF Idle, Request
      <4>2. QED
        BY <1>2, <2>1, <4>1 DEF IInv, Callers, Waits, At
    <3>3. QED
      BY <3>1, <3>2
  <2>2. QED
    BY <1>2, <2>1 DEF IInv, Callers, Waits, At
<1>5. OneAtATime'
  <2>1. Len(serving[b]) = 1
    BY Alone
  <2>2. \A c \in Boards : Len(serving'[c]) = Len(serving[c])
    BY <1>1, <2>1
  <2>3. QED
    BY <1>2, <2>2 DEF IInv, OneAtATime
<1>6. QED
  BY <1>3, <1>4, <1>5, OthersOK DEF IInv

(* So does a request that ends.                                              *)
LEMMA DoneInv ==
  ASSUME IInv, NEW b \in Boards, ~Idle(b), Done(b), OnlyAt(b), BoardOK(b)'
  PROVE  IInv'
<1> DEFINE t == Request(b).by
<1>1. /\ serving' \in [Boards -> Seq(Requests)] /\ serving'[b] = <<>> /\ Idle(b)'
      /\ \A c \in Boards : c # b => serving'[c] = serving[c]
  BY DoneRequest
<1>2. t \in Threads /\ posted[b] = <<>> /\ At(t, "waiting") /\ caller[t].board = b
  BY Alone DEF IInv, Callers, Waits
<1>3. /\ UNCHANGED <<m_big_gpib_mutex, posted>>
      /\ caller' = [caller EXCEPT ![t].at = "served"]
  BY DEF Done
<1> HIDE DEF t
<1>4. \A u \in Threads : /\ u # t => caller'[u] = caller[u]
                         /\ caller'[u].board = caller[u].board
                         /\ caller'[u].kind = caller[u].kind
      /\ caller'[t].at = "served"
  BY <1>2, <1>3 DEF IInv, TypeOK
<1>5. TypeOK'
  <2>1. hotplug_lock' \in Boards \union {Nobody}
    BY DEF OnlyAt, IInv, TypeOK
  <2>2. caller' \in [Threads -> [at : Places, board : Boards \union {Nobody},
                                kind : Kinds \union {"none"}]]
    <3> DEFINE C == [at : Places, board : Boards \union {Nobody},
                     kind : Kinds \union {"none"}]
    <3>1. caller \in [Threads -> C]
      BY DEF IInv, TypeOK
    <3>2. [caller[t] EXCEPT !.at = "served"] \in C
      BY <1>2, <3>1 DEF Places
    <3> HIDE DEF C
    <3>3. [caller EXCEPT ![t] = [caller[t] EXCEPT !.at = "served"]] \in [Threads -> C]
      BY <3>1, <3>2
    <3>4. QED
      BY <1>2, <1>3, <3>1, <3>3 DEF C
  <2>3. ASSUME NEW u \in Threads
        PROVE  At(u, "away")' \/ (caller'[u].board \in Boards /\ caller'[u].kind \in Kinds)
    BY <1>2, <1>4 DEF IInv, TypeOK, At
  <2>4. QED
    BY <1>1, <1>3, <2>1, <2>2, <2>3 DEF OnlyAt, IInv, TypeOK
<1>6. Callers'
  <2>1. ASSUME NEW u \in Threads, At(u, "waiting")' \/ At(u, "served")'
        PROVE  m_big_gpib_mutex'[caller'[u].board] = u
    BY <1>2, <1>3, <1>4, <2>1 DEF IInv, Callers, At
  <2>2. ASSUME NEW c \in Boards, ~Idle(c)' PROVE Waits(Request(c).by, c)'
    <3>1. c # b /\ Idle(c)' = Idle(c) /\ Request(c)' = Request(c)
      BY <1>1, <2>2 DEF Idle, Request
    <3>2. Waits(Request(c).by, c) /\ Request(c).by \in Threads
      BY <2>2, <3>1, Alone DEF IInv, Callers
    <3>3. Request(c).by # t
      BY <1>2, <3>1, <3>2 DEF Waits
    <3>4. QED
      BY <1>4, <3>1, <3>2, <3>3 DEF Waits, At
  <2>3. ASSUME NEW c \in Boards, posted'[c] # <<>>
        PROVE  Waits(Head(posted[c]).by, c)' /\ Head(posted'[c]).step = "start"
    <3>1. /\ Waits(Head(posted[c]).by, c) /\ Head(posted[c]).step = "start"
          /\ posted'[c] = posted[c] /\ c # b
      BY <1>2, <1>3, <2>3 DEF IInv, Callers
    <3>2. Head(posted[c]) \in Requests
      BY <1>3, <2>3 DEF IInv, TypeOK
    <3>3. Head(posted[c]).by # t /\ Head(posted[c]).by \in Threads
      BY <1>2, <3>1, <3>2 DEF Waits, Requests
    <3>4. QED
      BY <1>4, <3>1, <3>3 DEF Waits, At
  <2>4. QED
    BY <2>1, <2>2, <2>3 DEF Callers
<1>7. OneAtATime'
  <2>1. ASSUME NEW c \in Boards
        PROVE  Len(serving'[c]) + Len(posted'[c]) <= 1
    <3>1. CASE c = b
      BY <1>1, <1>2, <1>3, <3>1
    <3>2. CASE c # b
      BY <1>1, <1>3, <3>2 DEF IInv, OneAtATime
    <3>3. QED
      BY <3>1, <3>2
  <2>2. QED
    BY <2>1 DEF OneAtATime
<1>8. QED
  BY <1>5, <1>6, <1>7, OthersOK DEF IInv

-----------------------------------------------------------------------------
(* The threads run, no board is online and nothing is asked.                  *)
LEMMA LinkInit == Init => IInv
<1> SUFFICES ASSUME Init PROVE IInv
  OBVIOUS
<1>1. \A b \in Boards : /\ posted[b] = <<>> /\ serving[b] = <<>>
                        /\ online[b] = FALSE /\ bus_interface[b] = FALSE
                        /\ isCancelled[b] = FALSE
  BY DEF Init
<1>2. \A t \in Threads : caller[t] = Away
  BY DEF Init
<1>3. <<>> \in Seq(Requests) /\ Len(<<>>) = 0
  OBVIOUS
<1>4. TypeOK
  BY <1>3, ThreadAssumption DEF Init, TypeOK, Away, At, Places
<1>5. Callers
  BY <1>1, <1>2 DEF Callers, At, Away, Idle
<1>6. OneAtATime
  <2>1. 0 + 0 <= 1
    OBVIOUS
  <2>2. QED
    BY <1>1, <1>3, <2>1, Zenon DEF OneAtATime
<1>7. \A b \in Boards : BoardOK(b)
  BY <1>1, ThreadAssumption DEF BoardOK, Idle, Init
<1>8. QED
  BY <1>4, <1>5, <1>6, <1>7 DEF IInv

(* A step of a calling thread that hands nothing over leaves the boards and    *)
(* the other callers alone.                                                  *)
LEMMA CallerMoves ==
  ASSUME IInv, NEW t \in Threads, NEW c,
         ~At(t, "waiting"), UNCHANGED <<thread_state, posted, serving, board_state>>,
         caller' = [caller EXCEPT ![t] = c],
         c \in [at : Places \ {"waiting", "served"}, board : Boards \union {Nobody},
                kind : Kinds \union {"none"}],
         c.at # "away" => c.board \in Boards /\ c.kind \in Kinds,
         m_big_gpib_mutex' \in [Boards -> Threads \union {Nobody}],
         \A b \in Boards : m_big_gpib_mutex[b] # t =>
                             m_big_gpib_mutex'[b] = m_big_gpib_mutex[b]
  PROVE  IInv'
<1>1. /\ caller'[t] = c /\ caller' \in [Threads -> [at : Places,
            board : Boards \union {Nobody}, kind : Kinds \union {"none"}]]
      /\ \A u \in Threads : u # t => caller'[u] = caller[u]
  BY DEF IInv, TypeOK
<1>2. TypeOK'
  BY <1>1 DEF IInv, TypeOK, At, thread_state, board_state
<1>3. Callers'
  <2>1. ASSUME NEW u \in Threads, At(u, "waiting")' \/ At(u, "served")'
        PROVE  m_big_gpib_mutex'[caller'[u].board] = u
    <3>1. u # t
      BY <1>1, <2>1 DEF At
    <3>2. m_big_gpib_mutex[caller[u].board] = u /\ caller[u].board \in Boards
      BY <1>1, <2>1, <3>1 DEF IInv, TypeOK, Callers, At
    <3>3. QED
      BY <1>1, <3>1, <3>2
  <2>2. ASSUME NEW u \in Threads, NEW b \in Boards, Waits(u, b) PROVE Waits(u, b)'
    BY <1>1, <2>2 DEF Waits, At
  <2>3. ASSUME NEW b \in Boards, ~Idle(b)' PROVE Waits(Request(b).by, b)'
    <3>1. ~Idle(b) /\ Request(b)' = Request(b)
      BY <2>3 DEF Idle, Request
    <3>2. Waits(Request(b).by, b) /\ Request(b).by \in Threads
      BY <3>1, Alone DEF IInv, Callers
    <3>3. QED
      BY <2>2, <3>1, <3>2 DEF Waits, At
  <2>4. ASSUME NEW b \in Boards, posted'[b] # <<>>
        PROVE  Waits(Head(posted[b]).by, b)' /\ Head(posted'[b]).step = "start"
    <3>1. posted'[b] = posted[b] /\ Head(posted[b]) \in Requests
      BY <2>4 DEF IInv, TypeOK
    <3>2. Head(posted[b]).by \in Threads
      BY <3>1 DEF Requests
    <3>3. Waits(Head(posted[b]).by, b) /\ Head(posted[b]).step = "start"
      BY <2>4, <3>1 DEF IInv, Callers
    <3>4. QED
      BY <2>2, <3>1, <3>2, <3>3 DEF Waits, At
  <2>5. QED
    BY <2>1, <2>3, <2>4 DEF Callers
<1>4. OneAtATime'
  BY DEF IInv, OneAtATime
<1>5. \A b \in Boards : BoardOK(b)'
  BY DEF IInv, BoardOK, Idle, Request, thread_state, board_state
<1>6. QED
  BY <1>2, <1>3, <1>4, <1>5 DEF IInv

(* A call looks at a running thread, or returns without having waited.        *)
LEMMA CallerInv ==
  ASSUME IInv, NEW t \in Threads,
         \/ \E b \in Boards, kind \in Kinds : Look(t, b, kind)
         \/ Return(t) \/ CloseWaits(t) \/ close(t)
  PROVE  IInv'
<1> DEFINE C == [at : Places, board : Boards \union {Nobody}, kind : Kinds \union {"none"}]
           D == [at : Places \ {"waiting", "served"}, board : Boards \union {Nobody},
                 kind : Kinds \union {"none"}]
<1>1. /\ caller \in [Threads -> C] /\ caller[t] \in C
      /\ m_big_gpib_mutex \in [Boards -> Threads \union {Nobody}]
      /\ At(t, "away") \/ (caller[t].board \in Boards /\ caller[t].kind \in Kinds)
  BY DEF IInv, TypeOK
<1>2. Away \in D /\ Away.at = "away"
  BY DEF Away, Places
<1>3. ASSUME NEW b \in Boards, NEW kind \in Kinds, Look(t, b, kind) PROVE IInv'
  <2> DEFINE c == [at |-> IF isExecuting[b] THEN "looked" ELSE "ended",
                   board |-> b, kind |-> kind]
  <2>1. c \in D /\ c.board \in Boards /\ c.kind \in Kinds
    BY DEF Places
  <2>2. /\ caller' = [caller EXCEPT ![t] = c] /\ ~At(t, "waiting")
        /\ UNCHANGED <<thread_state, m_big_gpib_mutex, posted, serving, board_state>>
    BY <1>3 DEF Look, At
  <2> HIDE DEF c
  <2>3. QED
    BY <1>1, <2>1, <2>2, CallerMoves
<1>4. ASSUME NEW place \in Places \ {"waiting", "served"}, ~At(t, "away") PROVE
        /\ [caller[t] EXCEPT !.at = place] \in D
        /\ [caller[t] EXCEPT !.at = place].board = caller[t].board
        /\ [caller[t] EXCEPT !.at = place].kind = caller[t].kind
        /\ GoesTo(t, place) => caller' = [caller EXCEPT ![t] = [caller[t] EXCEPT !.at = place]]
  BY <1>1 DEF GoesTo
<1>5. CASE Return(t)
  <2>1. /\ At(t, "served") /\ After(t) /\ caller[t].board \in Boards
        /\ m_big_gpib_mutex' = [m_big_gpib_mutex EXCEPT ![caller[t].board] = Nobody]
        /\ UNCHANGED <<thread_state, posted, serving, board_state>>
    BY <1>1, <1>5 DEF Return, At
  <2>2. ~At(t, "waiting") /\ ~At(t, "away") /\ m_big_gpib_mutex[caller[t].board] = t
    BY <2>1 DEF At, IInv, Callers
  <2>3. /\ m_big_gpib_mutex' \in [Boards -> Threads \union {Nobody}]
        /\ \A b \in Boards : m_big_gpib_mutex[b] # t =>
                               m_big_gpib_mutex'[b] = m_big_gpib_mutex[b]
    BY <1>1, <2>1, <2>2
  <2>4. CASE GoesTo(t, "cancelled")
    <3> DEFINE c == [caller[t] EXCEPT !.at = "cancelled"]
    <3>1. c \in D /\ c.board \in Boards /\ c.kind \in Kinds
          /\ caller' = [caller EXCEPT ![t] = c]
      BY <1>1, <1>4, <2>1, <2>2, <2>4 DEF Places
    <3> HIDE DEF c
    <3>2. QED
      BY <2>1, <2>2, <2>3, <3>1, CallerMoves
  <2>5. CASE Leaves(t)
    BY <1>2, <2>1, <2>2, <2>3, <2>5, CallerMoves DEF Leaves
  <2>6. QED
    BY <2>1, <2>4, <2>5 DEF After
<1>6. CASE CloseWaits(t)
  <2> DEFINE c == [caller[t] EXCEPT !.at = "ended"]
  <2>1. /\ ~At(t, "waiting") /\ ~At(t, "away") /\ GoesTo(t, "ended")
        /\ UNCHANGED <<thread_state, m_big_gpib_mutex, posted, serving, board_state>>
    BY <1>6 DEF CloseWaits, At
  <2>2. c \in D /\ c.board \in Boards /\ c.kind \in Kinds
        /\ caller' = [caller EXCEPT ![t] = c]
    BY <1>1, <1>4, <2>1 DEF Places
  <2> HIDE DEF c
  <2>3. QED
    BY <1>1, <2>1, <2>2, CallerMoves
<1>7. CASE close(t)
  <2>1. /\ ~At(t, "waiting") /\ caller' = [caller EXCEPT ![t] = Away]
        /\ UNCHANGED <<thread_state, m_big_gpib_mutex, posted, serving, board_state>>
    BY <1>7 DEF close, At, Leaves
  <2>2. QED
    BY <1>1, <1>2, <2>1, CallerMoves
<1>8. QED
  BY <1>3, <1>5, <1>6, <1>7

(* A request is handed over under the mutex, which nobody holds: so no other   *)
(* request of that board is under way.                                       *)
LEMMA PostInv == ASSUME IInv, NEW t \in Threads, Post(t) PROVE IInv'
<1> DEFINE b == caller[t].board
           r == [kind |-> caller[t].kind, by |-> t, step |-> "start"]
           c == [caller[t] EXCEPT !.at = "waiting"]
           C == [at : Places, board : Boards \union {Nobody}, kind : Kinds \union {"none"}]
<1>1. /\ caller \in [Threads -> C] /\ caller[t] \in C /\ b \in Boards
      /\ caller[t].kind \in Kinds /\ At(t, "looked") /\ m_big_gpib_mutex[b] = Nobody
  BY DEF IInv, TypeOK, Post, At
<1>2. c \in C /\ c.at = "waiting" /\ c.board = b /\ c.kind = caller[t].kind
  BY <1>1 DEF Places
<1>3. /\ m_big_gpib_mutex' = [m_big_gpib_mutex EXCEPT ![b] = t]
      /\ posted' = [posted EXCEPT ![b] = Append(@, r)]
      /\ caller' = [caller EXCEPT ![t] = c]
      /\ UNCHANGED <<thread_state, serving, board_state>>
  BY <1>1 DEF Post, Hand, GoesTo
<1>4. r \in Requests /\ r.by = t /\ r.step = "start"
  BY <1>1 DEF Requests, Steps
<1> HIDE DEF b, r, c
<1>5. serving[b] = <<>> /\ posted[b] = <<>>
  <2>1. ASSUME NEW u, Waits(u, b), u \in Threads PROVE FALSE
    <3>1. m_big_gpib_mutex[b] = u
      BY <2>1 DEF Waits, IInv, Callers
    <3>2. QED
      BY <1>1, <2>1, <3>1, ThreadAssumption
  <2>2. Idle(b)
    <3>1. SUFFICES ASSUME ~Idle(b) PROVE FALSE
      OBVIOUS
    <3>2. Waits(Request(b).by, b) /\ Request(b).by \in Threads
      BY <1>1, <3>1, Alone DEF IInv, Callers
    <3>3. QED
      BY <2>1, <3>2
  <2>3. posted[b] = <<>>
    <3>1. SUFFICES ASSUME posted[b] # <<>> PROVE FALSE
      OBVIOUS
    <3>2. Waits(Head(posted[b]).by, b)
      BY <1>1, <3>1 DEF IInv, Callers
    <3>3. Head(posted[b]) \in Requests
      BY <1>1, <3>1 DEF IInv, TypeOK
    <3>4. QED
      BY <2>1, <3>2, <3>3 DEF Requests
  <2>4. QED
    BY <2>2, <2>3 DEF Idle
<1>6. posted' = [posted EXCEPT ![b] = <<r>>] /\ <<r>> \in Seq(Requests)
  BY <1>3, <1>4, <1>5
<1>7. /\ posted' \in [Boards -> Seq(Requests)] /\ posted'[b] = <<r>>
      /\ \A d \in Boards : d # b => posted'[d] = posted[d]
  BY <1>1, <1>6 DEF IInv, TypeOK
<1>8. /\ caller'[t] = c /\ caller' \in [Threads -> C]
      /\ \A u \in Threads : u # t => caller'[u] = caller[u]
  BY <1>1, <1>2, <1>3
<1>9. /\ m_big_gpib_mutex' \in [Boards -> Threads \union {Nobody}]
      /\ m_big_gpib_mutex'[b] = t
      /\ \A d \in Boards : d # b => m_big_gpib_mutex'[d] = m_big_gpib_mutex[d]
  BY <1>1, <1>3 DEF IInv, TypeOK
<1>10. TypeOK'
  <2>1. ASSUME NEW u \in Threads
        PROVE  At(u, "away")' \/ (caller'[u].board \in Boards /\ caller'[u].kind \in Kinds)
    BY <1>1, <1>2, <1>8 DEF IInv, TypeOK, At
  <2>2. QED
    BY <1>3, <1>7, <1>8, <1>9, <2>1 DEF IInv, TypeOK, thread_state, board_state
<1>11. Callers'
  <2>1. ASSUME NEW u \in Threads, At(u, "waiting")' \/ At(u, "served")'
        PROVE  m_big_gpib_mutex'[caller'[u].board] = u
    <3>1. CASE u = t
      BY <1>2, <1>8, <1>9, <3>1
    <3>2. CASE u # t
      <4>1. m_big_gpib_mutex[caller[u].board] = u /\ caller[u].board \in Boards
        BY <1>8, <2>1, <3>2 DEF IInv, TypeOK, Callers, At
      <4>2. caller[u].board # b
        BY <1>1, <4>1, ThreadAssumption
      <4>3. QED
        BY <1>8, <1>9, <3>2, <4>1, <4>2
    <3>3. QED
      BY <3>1, <3>2
  <2>2. ASSUME NEW u \in Threads, NEW d \in Boards, Waits(u, d) PROVE Waits(u, d)'
    BY <1>1, <1>8, <2>2 DEF Waits, At
  <2>3. ASSUME NEW d \in Boards, ~Idle(d)' PROVE Waits(Request(d).by, d)'
    <3>1. ~Idle(d) /\ Request(d)' = Request(d)
      BY <1>3, <2>3 DEF Idle, Request
    <3>2. Waits(Request(d).by, d) /\ Request(d).by \in Threads
      BY <3>1, Alone DEF IInv, Callers
    <3>3. QED
      BY <2>2, <3>1, <3>2 DEF Waits, At
  <2>4. ASSUME NEW d \in Boards, posted'[d] # <<>>
        PROVE  Waits(Head(posted[d]).by, d)' /\ Head(posted'[d]).step = "start"
    <3>1. CASE d = b
      <4>1. Head(posted'[b]) = r
        BY <1>7
      <4>2. QED
        BY <1>2, <1>4, <1>8, <3>1, <4>1 DEF Waits, At
    <3>2. CASE d # b
      <4>1. posted'[d] = posted[d] /\ Head(posted[d]) \in Requests
        BY <1>7, <2>4, <3>2 DEF IInv, TypeOK
      <4>2. Head(posted[d]).by \in Threads
        BY <4>1 DEF Requests
      <4>3. Waits(Head(posted[d]).by, d) /\ Head(posted[d]).step = "start"
        BY <2>4, <4>1 DEF IInv, Callers
      <4>4. QED
        BY <2>2, <4>1, <4>2, <4>3 DEF Waits, At
    <3>3. QED
      BY <3>1, <3>2
  <2>5. QED
    BY <2>1, <2>3, <2>4 DEF Callers
<1>12. OneAtATime'
  <2>1. ASSUME NEW d \in Boards PROVE Len(serving'[d]) + Len(posted'[d]) <= 1
    <3>1. CASE d = b
      <4>1. serving'[d] = <<>> /\ posted'[d] = <<r>>
        BY <1>3, <1>5, <1>7, <3>1
      <4>2. QED
        BY <4>1
    <3>2. CASE d # b
      BY <1>3, <1>7, <3>2 DEF IInv, OneAtATime
    <3>3. QED
      BY <3>1, <3>2
  <2>2. QED
    BY <2>1 DEF OneAtATime
<1>13. \A d \in Boards : BoardOK(d)'
  BY <1>3 DEF IInv, BoardOK, Idle, Request, thread_state, board_state
<1>14. QED
  BY <1>10, <1>11, <1>12, <1>13 DEF IInv

-----------------------------------------------------------------------------
(* The run loop has a posted request only when the thread serves none: inside   *)
(* a request the mutex keeps others away.                                     *)
LEMMA StartInv == ASSUME IInv, NEW b \in Boards, Start(b) PROVE IInv'
<1> DEFINE r == Head(posted[b])
<1>1. posted[b] # <<>> /\ posted[b] \in Seq(Requests)
  BY DEF Start, IInv, TypeOK
<1>2. serving[b] = <<>> /\ isCancelled[b] # TRUE
  BY <1>1, Alone DEF Start, InRunLoop, Idle
<1>3. r \in Requests /\ Waits(r.by, b) /\ r.step = "start"
  BY <1>1 DEF IInv, Callers
<1>4. Len(posted[b]) = 1 /\ Tail(posted[b]) = <<>>
  <2> DEFINE m == Len(posted[b])
  <2>1. m \in Nat /\ m # 0
    BY <1>1
  <2>2. 0 + m <= 1
    <3>1. Len(serving[b]) = 0
      BY <1>2
    <3>2. QED
      BY <3>1, Zenon DEF IInv, OneAtATime
  <2> HIDE DEF m
  <2>3. m = 1
    BY <2>1, <2>2
  <2>4. Len(posted[b]) = 1
    BY <2>3 DEF m
  <2>5. Tail(posted[b]) \in Seq(Requests) /\ Len(Tail(posted[b])) = 0
    BY <1>1, <2>4
  <2>6. \A q \in Seq(Requests) : Len(q) = 0 => q = <<>>
    OBVIOUS
  <2>7. QED
    BY <2>4, <2>5, <2>6
<1> HIDE DEF r
<1>5. /\ serving' = [serving EXCEPT ![b] = <<r>>]
      /\ posted' = [posted EXCEPT ![b] = <<>>]
      /\ UNCHANGED <<thread_state, m_big_gpib_mutex, board_state, caller>>
  <2>1. Append(<<>>, r) = <<r>>
    OBVIOUS
  <2>2. /\ serving' = [serving EXCEPT ![b] = Append(serving[b], r)]
        /\ posted' = [posted EXCEPT ![b] = Tail(posted[b])]
        /\ UNCHANGED <<thread_state, m_big_gpib_mutex, board_state, caller>>
    BY DEF Start, r
  <2>3. QED
    BY <1>2, <1>4, <2>1, <2>2
<1>6. /\ serving' \in [Boards -> Seq(Requests)] /\ posted' \in [Boards -> Seq(Requests)]
      /\ serving'[b] = <<r>> /\ posted'[b] = <<>>
      /\ \A d \in Boards : d # b => serving'[d] = serving[d] /\ posted'[d] = posted[d]
  BY <1>3, <1>5 DEF IInv, TypeOK
<1>7. ~Idle(b)' /\ Request(b)' = r
  BY <1>6 DEF Idle, Request, Last
<1>8. TypeOK'
  BY <1>5, <1>6 DEF IInv, TypeOK, thread_state, board_state, At
<1>9. Callers'
  <2>1. ASSUME NEW d \in Boards, ~Idle(d)' PROVE Waits(Request(d).by, d)'
    <3>1. CASE d = b
      BY <1>3, <1>5, <1>7, <3>1 DEF Waits, At
    <3>2. CASE d # b
      <4>1. Idle(d)' = Idle(d) /\ Request(d)' = Request(d)
        BY <1>6, <3>2 DEF Idle, Request
      <4>2. QED
        BY <1>5, <2>1, <4>1 DEF IInv, Callers, Waits, At
    <3>3. QED
      BY <3>1, <3>2
  <2>2. ASSUME NEW d \in Boards, posted'[d] # <<>>
        PROVE  Waits(Head(posted[d]).by, d)' /\ Head(posted'[d]).step = "start"
    BY <1>5, <1>6, <2>2 DEF IInv, Callers, Waits, At
  <2>3. QED
    BY <1>5, <2>1, <2>2 DEF IInv, Callers, At
<1>10. OneAtATime'
  <2>1. ASSUME NEW d \in Boards PROVE Len(serving'[d]) + Len(posted'[d]) <= 1
    <3>1. CASE d = b
      <4>1. serving'[d] = <<r>> /\ posted'[d] = <<>>
        BY <1>6, <3>1
      <4>2. QED
        BY <4>1
    <3>2. CASE d # b
      BY <1>6, <3>2 DEF IInv, OneAtATime
    <3>3. QED
      BY <3>1, <3>2
  <2>2. QED
    BY <2>1 DEF OneAtATime
<1>11. BoardOK(b)'
  BY <1>2, <1>3, <1>5, <1>7 DEF IInv, BoardOK, Idle, thread_state, board_state
<1>12. OnlyAt(b)
  BY <1>5, <1>6 DEF IInv, TypeOK, OnlyAt, thread_state, board_state
<1>13. QED
  BY <1>8, <1>9, <1>10, <1>11, <1>12, OthersOK DEF IInv

(* The end of a cancelled thread changes nothing of its board.                *)
LEMMA EndsInv == ASSUME IInv, NEW b \in Boards, LinkThreadEnds(b) PROVE IInv'
<1>1. /\ UNCHANGED <<isCancelled, m_big_gpib_mutex, posted, serving, board_state, caller>>
      /\ isExecuting' \in [Boards -> BOOLEAN]
  BY DEF LinkThreadEnds, IInv, TypeOK
<1>2. TypeOK'
  BY <1>1 DEF IInv, TypeOK, board_state, At
<1>3. Callers'
  BY <1>1 DEF IInv, Callers, Waits, At, Idle, Request
<1>4. OneAtATime'
  BY <1>1 DEF IInv, OneAtATime
<1>5. \A c \in Boards : BoardOK(c)'
  BY <1>1 DEF IInv, BoardOK, Idle, Request, board_state
<1>6. QED
  BY <1>2, <1>3, <1>4, <1>5 DEF IInv

(* What OnlyAt asks of a step that moves the request on or ends it, when the    *)
(* board is not cancelled by it.                                              *)
LEMMA OnlyAtOnward ==
  ASSUME IInv, NEW b \in Boards, ~Idle(b),
         (Done(b) /\ UNCHANGED thread_state) \/ (\E step \in Steps : Onward(b, step)),
         online' \in [Boards -> BOOLEAN], bus_interface' \in [Boards -> BOOLEAN],
         \A c \in Boards : c # b => online'[c] = online[c] /\ bus_interface'[c] = bus_interface[c],
         hotplug_lock' \in {hotplug_lock, Nobody, b}
  PROVE  OnlyAt(b)
<1>1. \A c \in Boards : c # b => serving'[c] = serving[c]
  BY DoneRequest, OnwardRequest
<1>2. UNCHANGED <<isExecuting, isCancelled>>
  BY DEF Onward, thread_state
<1>3. QED
  BY <1>1, <1>2 DEF OnlyAt, IInv, TypeOK

(* A request that has changed nothing yet may move on or end: the board is as   *)
(* it was between requests.                                                  *)
LEMMA Unmoved ==
  ASSUME IInv, NEW b \in Boards, ~Idle(b), UNCHANGED board_state,
         Request(b).step \in {"start", "transfer"},
         \/ Onward(b, "transfer") \/ Onward(b, "detach")
         \/ Done(b) /\ UNCHANGED thread_state
  PROVE  IInv'
<1>1. UNCHANGED <<online, bus_interface, hotplug_lock>>
  BY DEF board_state
<1>2. isCancelled[b] # TRUE /\ online[b] = bus_interface[b] /\ hotplug_lock # b
  BY DEF IInv, BoardOK
<1>3. OnlyAt(b)
  BY <1>1, OnlyAtOnward DEF IInv, TypeOK, Steps
<1>4. ASSUME NEW step \in {"transfer", "detach"}, Onward(b, step) PROVE IInv'
  <2>1. step \in Steps
    BY DEF Steps
  <2>2. ~Idle(b)' /\ Request(b)'.step = step /\ isCancelled' = isCancelled
    BY <1>4, <2>1, OnwardRequest DEF Onward, thread_state
  <2>3. BoardOK(b)'
    BY <1>1, <1>2, <2>2 DEF BoardOK
  <2>4. QED
    BY <1>3, <1>4, <2>1, <2>3, OnwardInv
<1>5. CASE Done(b) /\ UNCHANGED thread_state
  <2>1. Idle(b)' /\ isCancelled' = isCancelled
    BY <1>5, DoneRequest DEF thread_state
  <2>2. BoardOK(b)'
    BY <1>1, <1>2, <2>1 DEF BoardOK
  <2>3. QED
    BY <1>3, <1>5, <2>2, DoneInv
<1>6. QED
  BY <1>4, <1>5

(* ioctls wait for the driver or not; either way the board stays as it is.     *)
LEMMA IoctlInv ==
  ASSUME IInv, NEW b \in Boards, ibioctl(b) \/ UnlimitedEnds(b)
  PROVE  IInv'
<1>1. /\ ~Idle(b) /\ Request(b).step \in {"start", "transfer"} /\ UNCHANGED board_state
      /\ Onward(b, "transfer") \/ (Done(b) /\ UNCHANGED thread_state)
  BY DEF ibioctl, UnlimitedEnds, Doing, board_state
<1>2. QED
  BY <1>1, Unmoved

(* A step of attach or detach that moves on to another one.                   *)
LEMMA MoveOn ==
  ASSUME IInv, NEW b \in Boards, ~Idle(b), NEW step \in Steps, Onward(b, step),
         NEW on \in BOOLEAN, NEW held \in BOOLEAN,
         online' = [online EXCEPT ![b] = on],
         bus_interface' = [bus_interface EXCEPT ![b] = held],
         hotplug_lock' \in {hotplug_lock, Nobody, b},
         step \in {"start", "transfer"} => on = held,
         step \in {"attach", "search"} => on = FALSE /\ held = FALSE,
         step = "setup" => on = FALSE /\ held = TRUE,
         hotplug_lock' = b => step \in {"search", "setup", "detach"}
  PROVE  IInv'
<1>1. /\ online' \in [Boards -> BOOLEAN] /\ bus_interface' \in [Boards -> BOOLEAN]
      /\ online'[b] = on /\ bus_interface'[b] = held
      /\ \A c \in Boards : c # b =>
           online'[c] = online[c] /\ bus_interface'[c] = bus_interface[c]
  BY DEF IInv, TypeOK
<1>2. OnlyAt(b)
  BY <1>1, OnlyAtOnward
<1>3. ~Idle(b)' /\ Request(b)'.step = step
  BY OnwardRequest
<1>4. isCancelled'[b] # TRUE
  BY DEF Onward, thread_state, IInv, BoardOK
<1>5. BoardOK(b)'
  BY <1>1, <1>3, <1>4 DEF BoardOK
<1>6. QED
  BY <1>2, <1>5, OnwardInv

(* ibonline ends on a board that is online, and otherwise attaches or gives    *)
(* up at once.                                                               *)
LEMMA OnlineInv == ASSUME IInv, NEW b \in Boards, ibonline(b) PROVE IInv'
<1>1. ~Idle(b) /\ Request(b).step = "start"
  BY DEF ibonline, Doing
<1>2. hotplug_lock # b /\ online \in [Boards -> BOOLEAN]
  BY <1>1 DEF IInv, TypeOK, BoardOK
<1>3. CASE online[b] /\ Done(b) /\ UNCHANGED <<board_state, thread_state>>
  BY <1>1, <1>3, Unmoved
<1>4. ASSUME NEW step \in {"attach", "detach"}, ~online[b], Onward(b, step),
             SetInterface(b, FALSE), UNCHANGED <<online, hotplug_lock>>
      PROVE  IInv'
  <2>1. step \in Steps
    BY DEF Steps
  <2>2. online' = [online EXCEPT ![b] = FALSE]
    BY <1>2, <1>4
  <2>3. bus_interface' = [bus_interface EXCEPT ![b] = FALSE]
    BY <1>4 DEF SetInterface
  <2>4. QED
    BY <1>1, <1>2, <1>4, <2>1, <2>2, <2>3, MoveOn
<1>5. QED
  BY <1>3, <1>4 DEF ibonline, AttachFails

(* attach takes hotplug_lock.                                                *)
LEMMA AttachInv == ASSUME IInv, NEW b \in Boards, attach(b) PROVE IInv'
<1>1. /\ ~Idle(b) /\ Request(b).step = "attach" /\ Onward(b, "search")
      /\ hotplug_lock' = b /\ UNCHANGED <<online, bus_interface>>
  BY DEF attach, Doing
<1>2. online[b] = FALSE /\ bus_interface[b] = FALSE
  BY <1>1 DEF IInv, BoardOK
<1>3. /\ online' = [online EXCEPT ![b] = FALSE]
      /\ bus_interface' = [bus_interface EXCEPT ![b] = FALSE]
  BY <1>1, <1>2 DEF IInv, TypeOK
<1>4. "search" \in Steps
  BY DEF Steps
<1>5. QED
  BY <1>1, <1>3, <1>4, MoveOn

(* The search fails in three ways, one of which keeps hotplug_lock, or gets     *)
(* the interface.                                                            *)
LEMMA SearchInv == ASSUME IInv, NEW b \in Boards, Search(b) PROVE IInv'
<1>1. ~Idle(b) /\ Request(b).step = "search"
  BY DEF Search, Doing
<1>2. online[b] = FALSE /\ bus_interface[b] = FALSE
  BY <1>1 DEF IInv, BoardOK
<1>3. UNCHANGED online => online' = [online EXCEPT ![b] = FALSE]
  BY <1>2 DEF IInv, TypeOK
<1>4. UNCHANGED bus_interface => bus_interface' = [bus_interface EXCEPT ![b] = FALSE]
  BY <1>2 DEF IInv, TypeOK
<1>5. ASSUME NEW step \in {"detach", "setup"}, Onward(b, step), NEW held \in BOOLEAN,
             online' = [online EXCEPT ![b] = FALSE],
             bus_interface' = [bus_interface EXCEPT ![b] = held],
             hotplug_lock' \in {hotplug_lock, Nobody}, step = "setup" => held = TRUE
      PROVE  IInv'
  <2>1. step \in Steps
    BY DEF Steps
  <2>2. QED
    BY <1>1, <1>5, <2>1, MoveOn
<1>6. QED
  BY <1>3, <1>4, <1>5 DEF Search, AttachFails, SetInterface, UnlockHotplug, board_state

(* The adapter answers and the board is online, or the attach is taken back.   *)
LEMMA SetUpInv == ASSUME IInv, NEW b \in Boards, SetUp(b) PROVE IInv'
<1>1. ~Idle(b) /\ Request(b).step = "setup" /\ hotplug_lock' = Nobody
  BY DEF SetUp, Doing, UnlockHotplug
<1>2. /\ online[b] = FALSE /\ bus_interface[b] = TRUE /\ isCancelled[b] # TRUE
      /\ online \in [Boards -> BOOLEAN] /\ bus_interface \in [Boards -> BOOLEAN]
  BY <1>1 DEF IInv, TypeOK, BoardOK
<1>3. CASE /\ Done(b) /\ online' = [online EXCEPT ![b] = TRUE]
           /\ UNCHANGED <<bus_interface, thread_state>>
  <2>1. /\ online' \in [Boards -> BOOLEAN] /\ online'[b] = TRUE
        /\ \A c \in Boards : c # b =>
             online'[c] = online[c] /\ bus_interface'[c] = bus_interface[c]
        /\ bus_interface' \in [Boards -> BOOLEAN] /\ bus_interface'[b] = TRUE
    BY <1>2, <1>3
  <2>2. OnlyAt(b)
    BY <1>1, <1>3, <2>1, OnlyAtOnward
  <2>3. Idle(b)' /\ isCancelled'[b] # TRUE
    BY <1>1, <1>2, <1>3, DoneRequest DEF thread_state
  <2>4. BoardOK(b)'
    BY <1>1, <2>1, <2>3, ThreadAssumption DEF BoardOK
  <2>5. QED
    BY <1>1, <1>3, <2>2, <2>4, DoneInv
<1>4. CASE Onward(b, "detach") /\ UNCHANGED <<online, bus_interface>>
  <2>1. /\ online' = [online EXCEPT ![b] = FALSE]
        /\ bus_interface' = [bus_interface EXCEPT ![b] = TRUE]
    BY <1>2, <1>4
  <2>2. "detach" \in Steps
    BY DEF Steps
  <2>3. QED
    BY <1>1, <1>4, <2>1, <2>2, ThreadAssumption, MoveOn
<1>5. QED
  BY <1>3, <1>4 DEF SetUp, AttachFails

(* The board is offline, without an interface, and its thread perhaps           *)
(* cancelled.                                                                *)
LEMMA OfflineInv ==
  ASSUME IInv, NEW b \in Boards, ~Idle(b), Offline(b),
         bus_interface' = [bus_interface EXCEPT ![b] = FALSE],
         hotplug_lock' \in {hotplug_lock, Nobody}, hotplug_lock' # b
  PROVE  IInv'
<1>1. /\ Done(b) /\ online' = [online EXCEPT ![b] = FALSE] /\ isExecuting' = isExecuting
      /\ isCancelled' = [isCancelled EXCEPT ![b] = @ \/ Request(b).kind = "cancelThread"]
  BY DEF Offline
<1>2. /\ Idle(b)' /\ \A c \in Boards : c # b => serving'[c] = serving[c]
  BY <1>1, DoneRequest
<1>3. isCancelled' \in [Boards -> BOOLEAN]
      /\ \A c \in Boards : c # b => isCancelled'[c] = isCancelled[c]
  BY <1>1 DEF IInv, TypeOK
<1>4. OnlyAt(b)
  BY <1>1, <1>2, <1>3 DEF OnlyAt, IInv, TypeOK
<1>5. online'[b] = FALSE /\ bus_interface'[b] = FALSE
  BY <1>1 DEF IInv, TypeOK
<1>6. BoardOK(b)'
  BY <1>2, <1>5 DEF BoardOK
<1>7. QED
  BY <1>1, <1>4, <1>6, DoneInv

(* A request that takes the board offline detaches it, or finds it offline.    *)
LEMMA IbofflineInv == ASSUME IInv, NEW b \in Boards, iboffline(b) PROVE IInv'
<1>1. ~Idle(b) /\ Request(b).step = "start"
  BY DEF iboffline, Doing
<1>2. /\ online[b] = bus_interface[b] /\ hotplug_lock # b
      /\ online \in [Boards -> BOOLEAN] /\ bus_interface \in [Boards -> BOOLEAN]
  BY <1>1 DEF IInv, TypeOK, BoardOK
<1>3. CASE online[b] /\ Onward(b, "detach") /\ UNCHANGED board_state
  BY <1>1, <1>3, Unmoved
<1>4. CASE ~online[b] /\ Offline(b) /\ UNCHANGED <<bus_interface, hotplug_lock>>
  <2>1. bus_interface' = [bus_interface EXCEPT ![b] = FALSE]
    BY <1>2, <1>4
  <2>2. QED
    BY <1>1, <1>2, <1>4, <2>1, OfflineInv
<1>5. QED
  BY <1>3, <1>4 DEF iboffline

(* detach unlocks, talks to the adapter while it can, and gives it back.       *)
LEMMA DetachInv == ASSUME IInv, NEW b \in Boards, detach(b) PROVE IInv'
<1>1. ~Idle(b)
  BY DEF detach, Doing
<1>2. /\ online[b] \in BOOLEAN /\ bus_interface[b] \in BOOLEAN /\ b # Nobody
      /\ online = [online EXCEPT ![b] = online[b]]
      /\ bus_interface = [bus_interface EXCEPT ![b] = bus_interface[b]]
  BY ThreadAssumption DEF IInv, TypeOK
<1>3. ASSUME NEW step \in {"standby", "release"}, Onward(b, step), hotplug_lock' # b,
             hotplug_lock' \in {hotplug_lock, Nobody}, UNCHANGED <<online, bus_interface>>
      PROVE  IInv'
  <2>1. step \in Steps
    BY DEF Steps
  <2>2. /\ online' = [online EXCEPT ![b] = online[b]]
        /\ bus_interface' = [bus_interface EXCEPT ![b] = bus_interface[b]]
    BY <1>2, <1>3
  <2>3. QED
    BY <1>1, <1>2, <1>3, <2>1, <2>2, MoveOn
<1>4. CASE /\ Doing(b, "detach", Kinds) /\ DetachUnlocks
           /\ Onward(b, IF bus_interface[b] THEN "standby" ELSE "release")
           /\ UNCHANGED <<online, bus_interface>>
  BY <1>2, <1>3, <1>4 DEF DetachUnlocks
<1>5. CASE Doing(b, "standby", Kinds) /\ Onward(b, "release") /\ UNCHANGED board_state
  <2>1. hotplug_lock # b
    BY <1>1, <1>5 DEF IInv, BoardOK, Doing
  <2>2. QED
    BY <1>3, <1>5, <2>1 DEF board_state
<1>6. CASE Doing(b, "release", Kinds) /\ SetInterface(b, FALSE) /\ DetachUnlocks /\ Offline(b)
  BY <1>1, <1>2, <1>6, OfflineInv DEF SetInterface, DetachUnlocks
<1>7. QED
  BY <1>4, <1>5, <1>6 DEF detach

-----------------------------------------------------------------------------
(* Everything the four theorems below rest on, for any threads and boards.     *)
THEOREM LinkInvariance == Spec => []IInv
<1>1. IInv /\ UNCHANGED vars => IInv'
  BY DEF IInv, TypeOK, Callers, OneAtATime, BoardOK, Waits, At, Idle, Request, vars,
         thread_state, board_state
<1>2. ASSUME IInv, NEW t \in Threads, Caller(t) PROVE IInv'
  BY <1>2, CallerInv, PostInv DEF Caller
<1>3. ASSUME IInv, NEW b \in Boards, LinkThread(b) \/ UnlimitedEnds(b) PROVE IInv'
  BY <1>3, StartInv, EndsInv, IoctlInv, OnlineInv, AttachInv, SearchInv, SetUpInv,
     IbofflineInv, DetachInv DEF LinkThread
<1>4. IInv /\ [Next]_vars => IInv'
  BY <1>1, <1>2, <1>3 DEF Next
<1>5. QED
  BY LinkInit, <1>4, PTL DEF Spec

(* The types of the variables of LinkThread.                                 *)
THEOREM ThreadTypeCorrect == Spec => []TypeOK
<1>1. IInv => TypeOK
  BY DEF IInv
<1>2. QED
  BY <1>1, LinkInvariance, PTL

(* The mutex keeps every request of a board apart from every other, although    *)
(* the driver enters the run loop.                                           *)
THEOREM RequestsAlone == Spec => []OneAtATime
<1>1. IInv => OneAtATime
  BY DEF IInv
<1>2. QED
  BY <1>1, LinkInvariance, PTL

(* Between requests a board is online exactly when the interface is held.      *)
THEOREM InterfaceWithOnline == Spec => []OnlineHasInterface
<1>1. IInv => OnlineHasInterface
  BY DEF IInv, BoardOK, OnlineHasInterface
<1>2. QED
  BY <1>1, LinkInvariance, PTL

(* hotplug_lock is given back by the end of the request that took it.         *)
THEOREM HotplugGivenBack == Spec => []HotplugComesBack
<1>1. IInv => HotplugComesBack
  BY DEF IInv, BoardOK, HotplugComesBack
<1>2. QED
  BY <1>1, LinkInvariance, PTL

(* A board whose thread is cancelled stays offline, without its interface.     *)
THEOREM ClosedForGood == Spec => []ClosedStaysOffline
<1>1. IInv => ClosedStaysOffline
  BY DEF IInv, BoardOK, ClosedStaysOffline
<1>2. QED
  BY <1>1, LinkInvariance, PTL
=============================================================================
