------------------------------ MODULE Chat_proofs ------------------------------
(* Proofs about support conversations: for any number of conversations, staff   *)
(* and requests, interleaved at every awaited write, with writes that throw.    *)
EXTENDS Chat, SequenceTheorems, TLAPS

-----------------------------------------------------------------------------
(* What a request in flight knows.  Positions in `todo` matter twice: it saves  *)
(* once, and a reply is stored after the save that makes its author the agent.  *)

Left(q) == ToSet(q.todo)
SavesOnce(t) == \A i, j \in DOMAIN t : t[i] = Save /\ t[j] = Save => i = j
SavesBefore(t, w) == \A i \in DOMAIN t : t[i] = w => \E j \in DOMAIN t : j < i /\ t[j] = Save

\* x is written for c, or q still has to write it, or a write was lost.
Owed(q, c, x) == x \in rows[c] \/ (q.conv = c /\ x \in Left(q)) \/ failures > 0

\* A request that is about to create its conversation is alone on it.
Opens(r, q) ==
    q.seen = NoDoc =>
        /\ conv[q.conv] = NoDoc /\ Head(q.todo) = Save
        /\ q.next.agent = Nobody /\ q.next.status \in Active
        /\ \A o \in Requests \ {r} : reqs[o] # Idle => reqs[o].conv # q.conv

\* A save never makes a conversation open again, never routes it anew, and goes with
\* the rows that tell of a new agent and of an end.
Decides(q) ==
    q.seen # NoDoc =>
        /\ conv[q.conv] # NoDoc
        /\ q.seen.status # "open" => conv[q.conv].status # "open"
        /\ Save \in Left(q) =>
              /\ q.next.status # "open" /\ q.next.routing = q.seen.routing
              /\ q.next.agent # q.seen.agent =>
                    /\ q.next.agent # Nobody
                    /\ Owed(q, q.conv, Row("assignment", q.next.agent))
              /\ q.next.status # q.seen.status /\ q.next.status \in Finished
                    => Owed(q, q.conv, Row("status_log", q.next.status))

\* A message is of a request that found the conversation active and leaves it active.
Addresses(q) ==
    (\E x \in Senders : Message(x) \in Left(q)) =>
        /\ q.next.status \in Active
        /\ q.seen = NoDoc \/ q.seen.status \in Active \/ q.conv \in stale

May(s, routing) == RoleOf[s] = "branch_manager" => s \in InScope /\ routing \in {"general", "branch"}

\* A reply is of somebody in charge, or about to be.
Authorised(q) ==
    \A s \in Staff : Message(s) \in Left(q) =>
        /\ q.seen # NoDoc
        /\ May(s, conv[q.conv].routing)
        /\ RoleOf[s] = "support_agent" =>
              \/ s \in held[q.conv]
              \/ /\ q.next.agent = s /\ q.seen.agent # s
                 /\ SavesBefore(q.todo, Message(s))

Sound(r, q) ==
    q # Idle => /\ q.todo # << >> /\ SavesOnce(q.todo)
                /\ Opens(r, q) /\ Decides(q) /\ Addresses(q) /\ Authorised(q)

\* What is stored of a conversation.
Stored(c) ==
    /\ conv[c].agent # Nobody => /\ conv[c].agent \in held[c]
                                 /\ conv[c].status # "open"
                                 /\ Accounted(c, Row("assignment", conv[c].agent))
    /\ conv[c].status \in Finished => Accounted(c, Row("status_log", conv[c].status))
    /\ \A s \in Staff : s \in ToSet(messages[c]) =>
          /\ conv[c] # NoDoc
          /\ May(s, conv[c].routing)
          /\ RoleOf[s] = "support_agent" => s \in held[c]

ChatInv == /\ TypeOK
           /\ \A r \in Requests : Sound(r, reqs[r])
           /\ \A c \in Conversations : Stored(c)

-----------------------------------------------------------------------------
(* Documents, writes and lists of writes.                                       *)

LEMMA DocFacts ==
    /\ NoDoc \notin Doc /\ NoDoc.status = "none" /\ NoDoc.agent = Nobody
    /\ NoDoc.routing = "general"
    /\ \A d \in Doc : /\ d.status \in Active \cup Finished /\ d.agent \in Staff \cup {Nobody}
                       /\ d.routing \in Routings /\ d.loan \in Loans \cup {NoLoan}
                       /\ d # NoDoc
    /\ "none" \notin Active \cup Finished /\ Active \cap Finished = {} /\ "open" \in Active
  BY DEF Doc, NoDoc, Active, Finished

LEMMA WriteFacts ==
    /\ Save \in Writes /\ Save \notin Rows
    /\ \A x \in Senders : Message(x) \in Writes \ Rows /\ Message(x) # Save
    /\ \A x, y \in Senders : Message(x) = Message(y) => x = y
    /\ \A x \in Senders : Message(x).table = "message" /\ Message(x).about = x
    /\ \A w \in Writes : w.table = "message" => w.about \in Senders /\ w = Message(w.about)
    /\ Rows \subseteq Writes
    /\ \A s \in Staff : Row("assignment", s) \in Rows
    /\ \A st \in Active \cup Finished : Row("status_log", st) \in Rows
    /\ Staff \subseteq Senders
<1>1. \A x \in Senders : Message(x) = [table |-> "message", about |-> x]
  BY DEF Message, Row
<1>2. Save = [table |-> "conversation", about |-> "save"]
  BY DEF Save, Row
<1>3. \A w \in Rows : w.table \notin {"message", "conversation"}
  <2> DEFINE Tables == {"assignment", "participant", "status_log", "notification",
                        "audit"}
  <2>1. SUFFICES ASSUME NEW w \in Rows
                 PROVE  w.table \notin {"message", "conversation"}
    OBVIOUS
  <2>2. \E a \in Tables : \E b : w = Row(a, b)
    BY Zenon DEF Rows
  <2>3. PICK a \in Tables : \E b : w = Row(a, b)
    BY <2>2
  <2>3a. PICK b : w = Row(a, b)
    BY <2>3
  <2>3b. w = [table |-> a, about |-> b]
    BY <2>3a DEF Row
  <2>4. w.table = a
    BY <2>3b
  <2>5. a \notin {"message", "conversation"}
    OBVIOUS
  <2> QED
    BY <2>4, <2>5
<1>4. Writes = Rows \cup {Message(x) : x \in Senders} \cup {Save}
  BY DEF Writes
<1>5. \A x \in Senders : Message(x).table = "message" /\ Message(x).about = x
  BY <1>1
<1>6. Save.table = "conversation"
  BY <1>2
<1>7. \A s \in Staff : Row("assignment", s) \in Rows
  BY DEF Rows
<1>8. \A st \in Active \cup Finished : Row("status_log", st) \in Rows
  BY DEF Rows
<1>9. Staff \subseteq Senders
  BY DEF Senders
<1>10. \A w \in Writes : w.table = "message" => w.about \in Senders /\ w = Message(w.about)
  BY <1>3, <1>4, <1>5, <1>6
<1>11. Save \in Writes /\ Save \notin Rows /\ Rows \subseteq Writes
  BY <1>3, <1>4, <1>6
<1>12. \A x \in Senders : Message(x) \in Writes \ Rows /\ Message(x) # Save
  BY <1>3, <1>4, <1>5, <1>6
<1>13. \A x, y \in Senders : Message(x) = Message(y) => x = y
  BY <1>5
<1> QED
  BY <1>5, <1>7, <1>8, <1>9, <1>10, <1>11, <1>12, <1>13

LEMMA IdleFacts == Idle \notin Request /\ Left(Idle) = {} /\ Idle.todo = << >>
<1>1. Idle.todo = << >>
  BY DEF Idle
<1>2. \A q \in Request : q.seen \in Doc \cup {NoDoc}
  BY DEF Request
<1>3. DOMAIN Idle = {"todo"}
  BY DEF Idle
<1>4. \A q \in Request : DOMAIN q = {"conv", "seen", "next", "todo"}
  BY DEF Request
<1>5. Left(Idle) = {}
  BY <1>1 DEF Left, ToSet
<1> QED
  BY <1>1, <1>3, <1>4, <1>5

LEMMA Elements ==
    ASSUME NEW S, NEW t \in Seq(S)
    PROVE  \A x : x \in ToSet(t) <=> \E i \in 1..Len(t) : t[i] = x
  BY DEF ToSet

\* A message is stored after those there are.
LEMMA AppendedTo ==
    ASSUME NEW S, NEW t \in Seq(S), NEW x \in S
    PROVE  ToSet(Append(t, x)) = ToSet(t) \cup {x}
<1>1. PICK k \in Nat : k = Len(t)
  BY LenProperties
<1>2. PICK u \in Seq(S) : u = Append(t, x)
  BY AppendProperties
<1>3. Len(u) = k + 1 /\ (\A i \in 1..k : u[i] = t[i]) /\ u[k + 1] = x
  BY <1>1, <1>2, AppendProperties
<1>4. \A y : y \in ToSet(u) <=> \E i \in 1..(k + 1) : u[i] = y
  BY <1>3, Elements
<1>5. \A y : y \in ToSet(t) <=> \E i \in 1..k : t[i] = y
  BY <1>1, Elements
<1>6. \A i \in 1..(k + 1) : i \in 1..k \/ i = k + 1
  OBVIOUS
<1>7. k + 1 \in 1..(k + 1) /\ \A i \in 1..k : i \in 1..(k + 1)
  OBVIOUS
<1>8. ToSet(u) = ToSet(t) \cup {x}
  BY <1>3, <1>4, <1>5, <1>6, <1>7
<1> QED
  BY <1>2, <1>8

\* What is left after the first write of a list was made.
LEMMA TailOf ==
    ASSUME NEW t \in Seq(Writes), t # << >>, Len(t) # 1
    PROVE  /\ Tail(t) \in Seq(Writes) /\ Tail(t) # << >>
           /\ ToSet(Tail(t)) \subseteq ToSet(t)
           /\ \A x \in ToSet(t) : x # Head(t) => x \in ToSet(Tail(t))
           /\ SavesOnce(t) => SavesOnce(Tail(t))
           /\ SavesOnce(t) /\ Head(t) = Save => Save \notin ToSet(Tail(t))
           /\ Head(t) # Save => \A w : SavesBefore(t, w) => SavesBefore(Tail(t), w)
<1>0. Len(t) \in Nat \ {0}
  BY EmptySeq
<1>1. PICK n \in Nat \ {0} : n = Len(t)
  BY <1>0
<1>1a. n > 1
  BY <1>1
<1>2. PICK u \in Seq(Writes) : u = Tail(t)
  BY HeadTailProperties
<1>3. /\ Len(u) = n - 1 /\ \A i \in 1..(n - 1) : u[i] = t[i + 1]
  BY <1>1, <1>2, HeadTailProperties
<1>4. Head(t) = t[1] /\ DOMAIN t = 1..n /\ DOMAIN u = 1..(n - 1)
  BY <1>1, <1>2, <1>3, LenProperties
<1>5. u # << >>
  BY <1>1, <1>3
<1>6. ASSUME NEW x \in ToSet(u) PROVE x \in ToSet(t)
  <2>1. PICK i \in 1..(n - 1) : u[i] = x
    BY <1>4 DEF ToSet
  <2>2. i + 1 \in 1..n /\ t[i + 1] = x
    BY <2>1, <1>3
  <2> QED
    BY <2>2, <1>4 DEF ToSet
<1>7. ASSUME NEW x \in ToSet(t), x # Head(t) PROVE x \in ToSet(u)
  <2>1. PICK i \in 1..n : t[i] = x
    BY <1>4 DEF ToSet
  <2>2. i - 1 \in 1..(n - 1) /\ u[i - 1] = t[i]
    BY <2>1, <1>3, <1>4, <1>7
  <2> QED
    BY <2>1, <2>2, <1>4 DEF ToSet
<1>8. ASSUME SavesOnce(t) PROVE SavesOnce(u)
  <2> SUFFICES ASSUME NEW i \in 1..(n - 1), NEW j \in 1..(n - 1), u[i] = Save, u[j] = Save
               PROVE  i = j
    BY <1>4 DEF SavesOnce
  <2>1. t[i + 1] = Save /\ t[j + 1] = Save /\ i + 1 \in 1..n /\ j + 1 \in 1..n
    BY <1>3
  <2> QED
    BY <2>1, <1>8, <1>4 DEF SavesOnce
<1>9. ASSUME SavesOnce(t), Head(t) = Save PROVE Save \notin ToSet(u)
  <2> SUFFICES ASSUME NEW i \in 1..(n - 1), u[i] = Save PROVE FALSE
    BY <1>4 DEF ToSet
  <2>1. t[i + 1] = Save /\ i + 1 \in 1..n /\ 1 \in 1..n
    BY <1>1, <1>3
  <2> QED
    BY <2>1, <1>4, <1>9 DEF SavesOnce
<1>10. ASSUME Head(t) # Save, NEW w, SavesBefore(t, w) PROVE SavesBefore(u, w)
  <2> SUFFICES ASSUME NEW i \in 1..(n - 1), u[i] = w
               PROVE  \E j \in 1..(n - 1) : j < i /\ u[j] = Save
    BY <1>4 DEF SavesBefore
  <2>1. t[i + 1] = w /\ i + 1 \in 1..n
    BY <1>3
  <2>2. PICK j \in 1..n : j < i + 1 /\ t[j] = Save
    BY <2>1, <1>4, <1>10 DEF SavesBefore
  <2>3. j - 1 \in 1..(n - 1) /\ u[j - 1] = Save /\ j - 1 < i
    BY <2>2, <1>3, <1>4, <1>10
  <2> QED
    BY <2>3
<1> QED
  BY <1>2, <1>5, <1>6, <1>7, <1>8, <1>9, <1>10

LEMMA OneLeft ==
    ASSUME NEW t \in Seq(Writes), t # << >>
    PROVE  /\ Head(t) \in ToSet(t) /\ Head(t) \in Writes
           /\ Len(t) = 1 => \A x \in ToSet(t) : x = Head(t)
           /\ \A w : SavesBefore(t, w) => Head(t) # w
<1>1. PICK n \in Nat : n = Len(t) /\ n > 0
  BY EmptySeq, LenProperties
<1>2. Head(t) = t[1] /\ DOMAIN t = 1..n /\ 1 \in 1..n
  BY <1>1, LenProperties
<1>3. t[1] \in Writes
  BY <1>1, ElementOfSeq
<1>4. ASSUME NEW w, SavesBefore(t, w), t[1] = w PROVE FALSE
  <2>1. \E j \in 1..n : j < 1 /\ t[j] = Save
    BY <1>2, <1>4 DEF SavesBefore
  <2> QED
    BY <2>1
<1> QED
  BY <1>1, <1>2, <1>3, <1>4 DEF ToSet

-----------------------------------------------------------------------------
(* What every step keeps.                                                       *)

\* The database only grows as the invariant needs it.
Grows ==
    /\ \A c \in Conversations :
          /\ conv[c] # NoDoc => /\ conv'[c] # NoDoc
                                /\ conv[c].status # "open" => conv'[c].status # "open"
                                /\ conv'[c].routing = conv[c].routing
          /\ rows[c] \subseteq rows'[c] /\ held[c] \subseteq held'[c]
    /\ stale \subseteq stale'
    /\ failures > 0 => failures' > 0

\* The request next to r moves on from q to n, having made the write w.
Moves(r, n, w) ==
    /\ reqs' = [reqs EXCEPT ![r] = n]
    /\ n # Idle => n.conv = reqs[r].conv
    /\ Left(n) \subseteq Left(reqs[r])
    /\ \A x \in Left(reqs[r]) : x # w => x \in Left(n)

LEMMA SoundOthers ==
    ASSUME NEW r \in Requests, NEW o \in Requests \ {r}, NEW n, NEW q,
           q = reqs[o], reqs \in [Requests -> Request \cup {Idle}], Sound(o, q),
           Grows, reqs' = [reqs EXCEPT ![r] = n],
           q # Idle /\ q.seen = NoDoc =>
               conv'[q.conv] = conv[q.conv] /\ (n # Idle => n.conv # q.conv)
    PROVE  Sound(o, reqs[o])'
<1>1. reqs'[o] = q
  OBVIOUS
<1> SUFFICES ASSUME q # Idle
             PROVE  /\ q.todo # << >> /\ SavesOnce(q.todo)
                    /\ Opens(o, q)' /\ Decides(q)' /\ Addresses(q)' /\ Authorised(q)'
  BY <1>1 DEF Sound, Opens, Decides, Addresses, Authorised, Owed, Left
<1>2. q \in Request /\ q.conv \in Conversations
  BY DEF Request
<1>3. q.todo # << >> /\ SavesOnce(q.todo) /\ Opens(o, q) /\ Decides(q) /\ Addresses(q) /\ Authorised(q)
  BY DEF Sound
<1>4. Opens(o, q)'
  <2> SUFFICES ASSUME q.seen = NoDoc, NEW p \in Requests \ {o}, reqs'[p] # Idle
               PROVE  /\ conv'[q.conv] = NoDoc /\ Head(q.todo) = Save /\ q.next.agent = Nobody
                      /\ q.next.status \in Active /\ reqs'[p].conv # q.conv
    BY <1>3 DEF Opens
  <2> QED
    BY <1>3 DEF Opens
<1>5. \A x : Owed(q, q.conv, x) => Owed(q, q.conv, x)'
  BY <1>2 DEF Owed, Grows, Left
<1>6. Decides(q)'
  BY <1>2, <1>3, <1>5 DEF Decides, Grows, Left
<1>7. Addresses(q)'
  BY <1>3 DEF Addresses, Grows, Left
<1>8. Authorised(q)'
  <2>1. q.seen # NoDoc => conv'[q.conv].routing = conv[q.conv].routing
    BY <1>2, <1>3 DEF Decides, Grows
  <2>2. held[q.conv] \subseteq held'[q.conv]
    BY <1>2 DEF Grows
  <2> QED
    BY <1>3, <2>1, <2>2 DEF Authorised, Left, May
<1> QED
  BY <1>3, <1>4, <1>6, <1>7, <1>8

\* A row that was accounted for stays so, unless it is the write just made.
LEMMA AccountedKept ==
    ASSUME NEW r \in Requests, NEW n, NEW w, NEW c \in Conversations, NEW x,
           reqs \in [Requests -> Request \cup {Idle}], Grows, Moves(r, n, w),
           x # w \/ c # reqs[r].conv \/ x \in rows'[c], Accounted(c, x)
    PROVE  Accounted(c, x)'
<1>1. CASE x \in rows[c] \/ failures > 0
  BY <1>1 DEF Accounted, Grows
<1>2. ASSUME NEW o \in Requests, reqs[o] # Idle, reqs[o].conv = c, x \in Left(reqs[o])
      PROVE  Accounted(c, x)'
  <2>1. CASE o # r
    BY <1>2, <2>1 DEF Accounted, Moves, Left
  <2>2. CASE o = r /\ x \in rows'[c]
    BY <2>2 DEF Accounted
  <2>4. o = r => c = reqs[r].conv
    BY <1>2
  <2>3. CASE o = r /\ x # w
    <3>1. x \in Left(n) /\ n # Idle /\ n.conv = c
      BY <1>2, <2>3, IdleFacts DEF Moves
    <3>2. reqs'[r] = n
      BY DEF Moves
    <3> QED
      BY <3>1, <3>2 DEF Accounted, Left
  <2> QED
    BY <2>1, <2>2, <2>3, <2>4
<1> QED
  BY <1>1, <1>2 DEF Accounted, Left

\* A conversation nobody saves or writes in is stored as it was.
LEMMA StoredKept ==
    ASSUME NEW c \in Conversations, TypeOK, Stored(c), Grows,
           conv'[c] = conv[c], messages'[c] = messages[c],
           \A x \in Rows : Accounted(c, x) => Accounted(c, x)'
    PROVE  Stored(c)'
<1>1. conv[c] \in Doc \cup {NoDoc} /\ held[c] \subseteq held'[c]
  BY DEF TypeOK, Grows
<1>2. conv[c].agent # Nobody => Row("assignment", conv[c].agent) \in Rows
  BY <1>1, DocFacts, WriteFacts
<1>3. conv[c].status \in Finished => Row("status_log", conv[c].status) \in Rows
  BY WriteFacts
<1> QED
  BY <1>1, <1>2, <1>3 DEF Stored, May

-----------------------------------------------------------------------------
(* The writes of a request.                                                     *)

\* n is what q becomes once its first write is made, with the document `seen`.
After(q, n, seen) ==
    n # Idle =>
        /\ n.conv = q.conv /\ n.next = q.next /\ n.seen = seen
        /\ n.todo # << >> /\ SavesOnce(n.todo)
        /\ Head(q.todo) = Save => Save \notin Left(n)
        /\ Head(q.todo) # Save => \A w : SavesBefore(q.todo, w) => SavesBefore(n.todo, w)

LEMMA Progress ==
    ASSUME TypeOK, NEW r \in Requests, reqs[r] # Idle, Sound(r, reqs[r]),
           NEW seen \in Doc \cup {NoDoc}, Done(r, seen)
    PROVE  \E n \in Request \cup {Idle} :
              Moves(r, n, Head(reqs[r].todo)) /\ After(reqs[r], n, seen)
<1>1. PICK q \in Request : q = reqs[r]
  BY DEF TypeOK
<1>2. /\ q.conv \in Conversations /\ q.next \in Doc /\ q.todo \in Seq(Writes)
      /\ q.todo # << >> /\ SavesOnce(q.todo)
  BY <1>1 DEF Request, Sound
<1>3. CASE Len(q.todo) = 1
  <2>1. reqs' = [reqs EXCEPT ![r] = Idle]
    BY <1>1, <1>3 DEF Done
  <2>2. \A x \in Left(q) : x = Head(q.todo)
    BY <1>2, <1>3, OneLeft DEF Left
  <2> QED
    BY <1>1, <2>1, <2>2, IdleFacts DEF Moves, After
<1>4. CASE Len(q.todo) # 1
  <2> DEFINE n == [q EXCEPT !.seen = seen, !.todo = Tail(q.todo)]
  <2>1. reqs' = [reqs EXCEPT ![r] = n]
    BY <1>1, <1>4 DEF Done
  <2>2. /\ n.conv = q.conv /\ n.next = q.next /\ n.seen = seen /\ n.todo = Tail(q.todo)
    BY <1>1 DEF Request
  <2>3. Tail(q.todo) \in Seq(Writes)
    BY <1>2, <1>4, TailOf
  <2>4. n \in Request
    BY <1>2, <2>3 DEF Request
  <2> HIDE DEF n
  <2>5. Moves(r, n, Head(q.todo))
    BY <1>1, <1>2, <1>4, <2>1, <2>2, TailOf DEF Moves, Left
  <2>6. After(q, n, seen)
    BY <1>2, <1>4, <2>2, TailOf DEF After, Left
  <2> QED
    BY <1>1, <2>4, <2>5, <2>6
<1> QED
  BY <1>3, <1>4

\* A request that made another write than its save.
LEMMA SoundAfterRow ==
    ASSUME TypeOK, NEW r \in Requests, NEW q \in Request, q = reqs[r], Sound(r, q),
           NEW n \in Request \cup {Idle}, Moves(r, n, Head(q.todo)), After(q, n, q.seen),
           Head(q.todo) # Save, Grows, UNCHANGED <<conv, held>>,
           Head(q.todo) \in Rows => Head(q.todo) \in rows'[q.conv]
    PROVE  Sound(r, reqs[r])'
<1>1. reqs'[r] = n
  BY DEF Moves, TypeOK
<1> SUFFICES ASSUME n # Idle
             PROVE  /\ n.todo # << >> /\ SavesOnce(n.todo)
                    /\ Opens(r, n)' /\ Decides(n)' /\ Addresses(n)' /\ Authorised(n)'
  BY <1>1 DEF Sound, Opens, Decides, Addresses, Authorised, Owed, Left
<1>2. /\ q # Idle /\ q.conv \in Conversations /\ q.next \in Doc
      /\ Opens(r, q) /\ Decides(q) /\ Addresses(q) /\ Authorised(q)
  BY IdleFacts DEF Sound, Request
<1>3. /\ n.conv = q.conv /\ n.next = q.next /\ n.seen = q.seen /\ n.todo # << >>
      /\ SavesOnce(n.todo) /\ \A w : SavesBefore(q.todo, w) => SavesBefore(n.todo, w)
  BY DEF After
<1>4. Left(n) \subseteq Left(q) /\ \A x \in Left(q) : x # Head(q.todo) => x \in Left(n)
  BY DEF Moves
<1>5. q.seen # NoDoc
  BY <1>2 DEF Opens
<1>6. Opens(r, n)'
  BY <1>3, <1>5 DEF Opens
<1>7. \A x \in Rows : Owed(q, q.conv, x) => Owed(n, n.conv, x)'
  <2> SUFFICES ASSUME NEW x \in Rows, Owed(q, q.conv, x) PROVE Owed(n, n.conv, x)'
    OBVIOUS
  <2>1. rows[q.conv] \subseteq rows'[q.conv] /\ (failures > 0 => failures' > 0)
    BY <1>2 DEF Grows
  <2>2. x \in Left(q) => x \in rows'[q.conv] \/ x \in Left(n)
    BY <1>4
  <2> QED
    BY <1>3, <2>1, <2>2 DEF Owed, Left
<1>8. Decides(n)'
  <2>1. q.next.agent # Nobody => Row("assignment", q.next.agent) \in Rows
    BY <1>2, DocFacts, WriteFacts
  <2>2. q.next.status \in Finished => Row("status_log", q.next.status) \in Rows
    BY WriteFacts
  <2> QED
    BY <1>2, <1>3, <1>4, <1>5, <1>7, <2>1, <2>2 DEF Decides, Left
<1>9. Addresses(n)'
  BY <1>2, <1>3, <1>4 DEF Addresses, Grows, Left
<1>10. Authorised(n)'
  BY <1>2, <1>3, <1>4 DEF Authorised, Left, May
<1> QED
  BY <1>3, <1>6, <1>8, <1>9, <1>10

\* The others see that something was written, and nothing else.
LEMMA OthersAfterWrite ==
    ASSUME ChatInv, NEW r \in Requests, reqs[r] # Idle, NEW n, NEW w, Moves(r, n, w), Grows,
           \A c \in Conversations : c # reqs[r].conv => conv'[c] = conv[c],
           NEW o \in Requests \ {r}
    PROVE  Sound(o, reqs[o])'
<1>1. PICK q : q = reqs[o]
  OBVIOUS
<1>2. Sound(o, q) /\ reqs \in [Requests -> Request \cup {Idle}] /\ reqs' = [reqs EXCEPT ![r] = n]
  BY <1>1 DEF ChatInv, TypeOK, Moves
<1>3. ASSUME q # Idle, q.seen = NoDoc
      PROVE  conv'[q.conv] = conv[q.conv] /\ (n # Idle => n.conv # q.conv)
  <2>1. reqs[r].conv # q.conv /\ q.conv \in Conversations
    BY <1>1, <1>2, <1>3 DEF Sound, Opens, Request
  <2> QED
    BY <2>1 DEF Moves
<1> QED
  BY <1>1, <1>2, <1>3, SoundOthers

LEMMA StoreRowKeeps == ASSUME ChatInv, NEW r \in Requests, StoreRow(r) PROVE ChatInv'
<1>1. PICK q \in Request : q = reqs[r] /\ q # Idle
  BY DEF StoreRow, ChatInv, TypeOK
<1>2. /\ q.conv \in Conversations /\ q.seen \in Doc \cup {NoDoc} /\ Sound(r, q)
      /\ Head(q.todo) \in Rows /\ Done(r, q.seen)
      /\ rows' = [rows EXCEPT ![q.conv] = @ \cup {Head(q.todo)}]
      /\ \/ notices' = notices
         \/ notices' = [notices EXCEPT ![q.conv] = @ + 1]
      /\ UNCHANGED <<conv, messages, calls, failures, held, stale>>
  BY <1>1 DEF StoreRow, ChatInv, Request
<1>3. PICK n \in Request \cup {Idle} : Moves(r, n, Head(q.todo)) /\ After(q, n, q.seen)
  BY <1>1, <1>2, Progress DEF ChatInv
<1>4. TypeOK /\ rows \in [Conversations -> SUBSET Rows]
  BY DEF ChatInv, TypeOK
<1>5. TypeOK'
  <2>1. notices' \in [Conversations -> Nat]
    BY <1>2, <1>4 DEF TypeOK
  <2>2. rows' \in [Conversations -> SUBSET Rows]
    BY <1>2, <1>4
  <2> QED
    BY <1>2, <1>3, <1>4, <2>1, <2>2 DEF TypeOK, Moves
<1>6. Head(q.todo) \in rows'[q.conv] /\ \A c \in Conversations : rows[c] \subseteq rows'[c]
  BY <1>2, <1>4
<1>7. Grows
  BY <1>2, <1>6 DEF Grows
<1>8. ASSUME NEW o \in Requests PROVE Sound(o, reqs[o])'
  <2>1. CASE o = r
    BY <1>1, <1>2, <1>3, <1>4, <1>6, <1>7, <2>1, SoundAfterRow, WriteFacts
  <2>2. CASE o # r
    BY <1>1, <1>2, <1>3, <1>7, <2>2, OthersAfterWrite
  <2> QED
    BY <2>1, <2>2
<1>9. ASSUME NEW c \in Conversations PROVE Stored(c)'
  <2>1. \A x \in Rows : Accounted(c, x) => Accounted(c, x)'
    BY <1>1, <1>3, <1>4, <1>6, <1>7, AccountedKept DEF TypeOK
  <2> QED
    BY <1>2, <1>4, <1>7, <2>1, StoredKept DEF ChatInv
<1> QED
  BY <1>5, <1>8, <1>9 DEF ChatInv

LEMMA StoreMessageKeeps == ASSUME ChatInv, NEW r \in Requests, StoreMessage(r) PROVE ChatInv'
<1>1. PICK q \in Request : q = reqs[r] /\ q # Idle
  BY DEF StoreMessage, ChatInv, TypeOK
<1>2. /\ q.conv \in Conversations /\ q.seen \in Doc \cup {NoDoc} /\ Sound(r, q)
      /\ q.todo \in Seq(Writes) /\ q.todo # << >>
      /\ Head(q.todo).table = "message" /\ Done(r, q.seen)
      /\ messages' = [messages EXCEPT ![q.conv] = Append(@, Head(q.todo).about)]
      /\ stale \subseteq stale' /\ stale' \subseteq stale \cup {q.conv}
      /\ UNCHANGED <<conv, rows, notices, calls, failures, held>>
  BY <1>1 DEF StoreMessage, ChatInv, Request, Touch, Sound
<1>3. PICK n \in Request \cup {Idle} : Moves(r, n, Head(q.todo)) /\ After(q, n, q.seen)
  BY <1>1, <1>2, Progress DEF ChatInv
<1>4. PICK x \in Senders : /\ Head(q.todo) = Message(x) /\ Head(q.todo).about = x
                           /\ Message(x) \in Left(q) /\ Message(x) # Save /\ Message(x) \notin Rows
  BY <1>2, OneLeft, WriteFacts DEF Left
<1>5. TypeOK /\ messages \in [Conversations -> Seq(Senders)]
  BY DEF ChatInv, TypeOK
<1>6. messages' \in [Conversations -> Seq(Senders)]
  BY <1>2, <1>4, <1>5
<1>7. TypeOK'
  BY <1>2, <1>3, <1>5, <1>6 DEF TypeOK, Moves
<1>8. Grows
  BY <1>2 DEF Grows
<1>9. ASSUME NEW o \in Requests PROVE Sound(o, reqs[o])'
  <2>1. CASE o = r
    BY <1>1, <1>2, <1>3, <1>4, <1>5, <1>8, <2>1, SoundAfterRow
  <2>2. CASE o # r
    BY <1>1, <1>2, <1>3, <1>8, <2>2, OthersAfterWrite
  <2> QED
    BY <2>1, <2>2
<1>10. ASSUME NEW c \in Conversations PROVE Stored(c)'
  <2>1. \A y \in Rows : Accounted(c, y) => Accounted(c, y)'
    BY <1>1, <1>3, <1>4, <1>5, <1>8, AccountedKept DEF TypeOK
  <2>2. CASE c # q.conv
    BY <1>2, <1>5, <1>8, <2>1, <2>2, StoredKept DEF ChatInv
  <2>3. CASE c = q.conv
    <3>1. messages'[c] = Append(messages[c], x) /\ messages[c] \in Seq(Senders)
      BY <1>2, <1>4, <1>5, <2>3
    <3>2. ToSet(messages'[c]) = ToSet(messages[c]) \cup {x}
      BY <3>1, AppendedTo
    <3>3. Stored(c) /\ conv[c] \in Doc \cup {NoDoc}
      BY <1>5 DEF ChatInv, TypeOK
    <3>4. x \in Staff => /\ conv[c] # NoDoc /\ May(x, conv[c].routing)
                         /\ RoleOf[x] = "support_agent" => x \in held[c]
      <4> SUFFICES ASSUME x \in Staff
                   PROVE  /\ conv[c] # NoDoc /\ May(x, conv[c].routing)
                          /\ RoleOf[x] = "support_agent" => x \in held[c]
        OBVIOUS
      <4>1. Authorised(q) /\ Decides(q)
        BY <1>1, <1>2 DEF Sound
      <4>2. ~SavesBefore(q.todo, Message(x))
        BY <1>2, <1>4, OneLeft
      <4> QED
        BY <1>4, <2>3, <4>1, <4>2 DEF Authorised, Decides
    <3>5. conv[c].agent # Nobody => Row("assignment", conv[c].agent) \in Rows
      BY <3>3, DocFacts, WriteFacts
    <3>6. conv[c].status \in Finished => Row("status_log", conv[c].status) \in Rows
      BY WriteFacts
    <3> QED
      BY <1>2, <2>1, <3>2, <3>3, <3>4, <3>5, <3>6 DEF Stored, May
  <2> QED
    BY <2>2, <2>3
<1> QED
  BY <1>7, <1>9, <1>10 DEF ChatInv

\* What a save stores: the fields it changed, over the document there is.
LEMMA MergeFacts ==
    ASSUME NEW seen \in Doc \cup {NoDoc}, NEW next \in Doc, NEW current \in Doc \cup {NoDoc},
           (seen = NoDoc) <=> (current = NoDoc)
    PROVE  LET d == Merge(seen, next, current)
           IN  /\ d \in Doc
               /\ d.agent = IF next.agent # seen.agent THEN next.agent ELSE current.agent
               /\ d.status = IF next.status # seen.status THEN next.status ELSE current.status
               /\ d.routing = IF next.routing # seen.routing THEN next.routing ELSE current.routing
               /\ seen = current => d = next
<1> DEFINE d == Merge(seen, next, current)
<1>1. DOMAIN current = {"status", "agent", "loan", "routing"}
  BY DEF Doc, NoDoc
<1>2. d = [f \in {"status", "agent", "loan", "routing"} |->
             IF next[f] # seen[f] THEN next[f] ELSE current[f]]
  BY <1>1 DEF Merge
<1>3. CASE current \in Doc
  <2>1. d \in Doc
    BY <1>2, <1>3 DEF Doc
  <2>2. seen = current => d = next
    BY <1>2, <1>3 DEF Doc
  <2> QED
    BY <1>2, <2>1, <2>2
<1>4. CASE current = NoDoc
  <2>1. seen = NoDoc
    BY <1>4
  <2>2. \A f \in {"status", "agent", "loan", "routing"} : d[f] = next[f]
    BY <1>2, <1>4, <2>1
  <2>3. d = next
    BY <1>2, <2>2 DEF Doc
  <2> QED
    BY <1>2, <2>3
<1> QED
  BY <1>3, <1>4

LEMMA SaveConversationKeeps ==
    ASSUME ChatInv, NEW r \in Requests, SaveConversation(r) PROVE ChatInv'
<1>1. PICK q \in Request : q = reqs[r] /\ q # Idle
  BY DEF SaveConversation, ChatInv, TypeOK
<1>2. PICK cur : cur = conv[q.conv]
  OBVIOUS
<1>3. PICK doc : doc = Merge(q.seen, q.next, cur)
  OBVIOUS
<1>4. /\ q.conv \in Conversations /\ q.seen \in Doc \cup {NoDoc} /\ q.next \in Doc
      /\ q.todo \in Seq(Writes) /\ q.todo # << >>
      /\ Opens(r, q) /\ Decides(q) /\ Addresses(q) /\ Authorised(q) /\ Sound(r, q)
  BY <1>1 DEF ChatInv, Sound, Request
<1>5. /\ Head(q.todo) = Save /\ Done(r, doc)
      /\ conv' = [conv EXCEPT ![q.conv] = doc]
      /\ held' = [held EXCEPT ![q.conv] = @ \cup ({doc.agent} \ {Nobody})]
      /\ stale \subseteq stale' /\ stale' \subseteq stale \cup {q.conv}
      /\ q.seen # cur => q.conv \in stale'
      /\ UNCHANGED <<messages, rows, notices, calls, failures>>
  BY <1>1, <1>2, <1>3, <1>4 DEF SaveConversation, Touch
<1>6. TypeOK /\ conv \in [Conversations -> Doc \cup {NoDoc}] /\ cur \in Doc \cup {NoDoc}
      /\ held \in [Conversations -> SUBSET Staff]
  BY <1>2, <1>4 DEF ChatInv, TypeOK
<1>7. (q.seen = NoDoc) <=> (cur = NoDoc)
  BY <1>2, <1>4 DEF Opens, Decides
<1>8. /\ doc \in Doc
      /\ doc.agent = IF q.next.agent # q.seen.agent THEN q.next.agent ELSE cur.agent
      /\ doc.status = IF q.next.status # q.seen.status THEN q.next.status ELSE cur.status
      /\ doc.routing = IF q.next.routing # q.seen.routing THEN q.next.routing ELSE cur.routing
      /\ q.seen = cur => doc = q.next
  BY <1>3, <1>4, <1>6, <1>7, MergeFacts
<1>9. doc # NoDoc /\ doc.agent \in Staff \cup {Nobody} /\ doc.status \in Active \cup Finished
  BY <1>8, DocFacts
<1>10. Save \in Left(q)
  BY <1>4, <1>5, OneLeft DEF Left
<1>11. PICK n \in Request \cup {Idle} : Moves(r, n, Head(q.todo)) /\ After(q, n, doc)
  BY <1>1, <1>4, <1>5, <1>6, <1>8, Progress
<1>12. /\ conv'[q.conv] = doc /\ \A c \in Conversations : c # q.conv => conv'[c] = conv[c]
       /\ held'[q.conv] = held[q.conv] \cup ({doc.agent} \ {Nobody})
       /\ \A c \in Conversations : held[c] \subseteq held'[c]
  BY <1>4, <1>5, <1>6
<1>13. TypeOK'
  <2>1. conv' \in [Conversations -> Doc \cup {NoDoc}]
    BY <1>4, <1>5, <1>6, <1>8
  <2>2. held' \in [Conversations -> SUBSET Staff]
    BY <1>4, <1>5, <1>6, <1>9
  <2> QED
    BY <1>4, <1>5, <1>6, <1>11, <2>1, <2>2 DEF TypeOK, Moves
<1>14. /\ cur # NoDoc => /\ q.next.status # "open" /\ q.next.routing = q.seen.routing
                         /\ cur.status # "open" => doc.status # "open"
                         /\ q.seen.status # "open" => cur.status # "open"
                         /\ doc.routing = cur.routing
  BY <1>2, <1>4, <1>7, <1>8, <1>10 DEF Decides
<1>15. Grows
  BY <1>2, <1>5, <1>9, <1>12, <1>14 DEF Grows
<1>16. Sound(r, reqs[r])'
  <2>1. reqs'[r] = n
    BY <1>6, <1>11 DEF Moves, TypeOK
  <2> SUFFICES ASSUME n # Idle
               PROVE  /\ n.todo # << >> /\ SavesOnce(n.todo)
                      /\ Opens(r, n)' /\ Decides(n)' /\ Addresses(n)' /\ Authorised(n)'
    BY <2>1 DEF Sound, Opens, Decides, Addresses, Authorised, Owed, Left
  <2>2. /\ n.conv = q.conv /\ n.next = q.next /\ n.seen = doc
        /\ n.todo # << >> /\ SavesOnce(n.todo) /\ Save \notin Left(n)
    BY <1>5, <1>11 DEF After
  <2>3. Left(n) \subseteq Left(q)
    BY <1>1, <1>11 DEF Moves
  <2>4. Opens(r, n)'
    BY <1>9, <2>2 DEF Opens
  <2>5. Decides(n)'
    BY <1>9, <1>12, <2>2 DEF Decides, Left
  <2>6. Addresses(n)'
    BY <1>4, <1>5, <1>8, <2>2, <2>3 DEF Addresses, Left
  <2>7. Authorised(n)'
    <3> SUFFICES ASSUME NEW s \in Staff, Message(s) \in Left(n)
                 PROVE  /\ doc # NoDoc /\ May(s, doc.routing)
                        /\ RoleOf[s] = "support_agent" => s \in held'[q.conv]
      BY <1>12, <2>2 DEF Authorised, Left, May
    <3>1. /\ q.seen # NoDoc /\ May(s, cur.routing)
          /\ RoleOf[s] = "support_agent" =>
                s \in held[q.conv] \/ (q.next.agent = s /\ q.seen.agent # s)
      BY <1>2, <1>4, <2>3 DEF Authorised
    <3>2. doc.routing = cur.routing
      BY <1>7, <1>14, <3>1
    <3>3. s # Nobody
      BY ChatConstants
    <3>4. q.next.agent = s /\ q.seen.agent # s => s \in held'[q.conv]
      BY <1>8, <1>12, <3>3
    <3> QED
      BY <1>4, <1>9, <1>12, <3>1, <3>2, <3>4
  <2> QED
    BY <2>2, <2>4, <2>5, <2>6, <2>7
<1>17. ASSUME NEW o \in Requests \ {r} PROVE Sound(o, reqs[o])'
  BY <1>1, <1>11, <1>12, <1>15, OthersAfterWrite
<1>18. ASSUME NEW c \in Conversations PROVE Stored(c)'
  <2>1. \A x \in Rows : Accounted(c, x) => Accounted(c, x)'
    BY <1>1, <1>5, <1>6, <1>11, <1>15, AccountedKept, WriteFacts DEF TypeOK
  <2>2. CASE c # q.conv
    BY <1>5, <1>6, <1>12, <1>15, <2>1, <2>2, StoredKept DEF ChatInv
  <2>3. CASE c = q.conv
    <3>1. Stored(c) /\ cur = conv[c]
      BY <1>2, <2>3 DEF ChatInv
    <3>2. \A x : Owed(q, q.conv, x) => Accounted(c, x)
      BY <1>1, <2>3 DEF Owed, Accounted, Left
    <3>3. doc.status # "open" \/ cur = NoDoc
      BY <1>8, <1>14
    <3>4. cur = NoDoc => /\ doc.agent = Nobody /\ doc.status \in Active
      BY <1>4, <1>7, <1>8 DEF Opens
    <3>5. doc.agent # Nobody => Accounted(c, Row("assignment", doc.agent))
      <4> SUFFICES ASSUME doc.agent # Nobody PROVE Accounted(c, Row("assignment", doc.agent))
        OBVIOUS
      <4>1. cur # NoDoc
        BY <3>4
      <4>2. CASE q.next.agent # q.seen.agent
        BY <1>7, <1>8, <1>4, <1>10, <3>2, <4>1, <4>2 DEF Decides
      <4>3. CASE q.next.agent = q.seen.agent
        BY <1>8, <3>1, <4>3 DEF Stored
      <4> QED
        BY <4>2, <4>3
    <3>6. doc.status \in Finished => Accounted(c, Row("status_log", doc.status))
      <4> SUFFICES ASSUME doc.status \in Finished PROVE Accounted(c, Row("status_log", doc.status))
        OBVIOUS
      <4>1. cur # NoDoc
        BY <3>4, DocFacts
      <4>2. CASE q.next.status # q.seen.status
        BY <1>7, <1>8, <1>4, <1>10, <3>2, <4>1, <4>2 DEF Decides
      <4>3. CASE q.next.status = q.seen.status
        BY <1>8, <3>1, <4>3 DEF Stored
      <4> QED
        BY <4>2, <4>3
    <3>7. doc.agent # Nobody => Row("assignment", doc.agent) \in Rows
      BY <1>9, WriteFacts
    <3>8. doc.status \in Finished => Row("status_log", doc.status) \in Rows
      BY WriteFacts
    <3>9. doc.agent # Nobody => doc.agent \in held'[c]
      BY <1>12, <2>3
    <3>10. \A s \in Staff : s \in ToSet(messages[c]) =>
              /\ doc # NoDoc /\ May(s, doc.routing)
              /\ RoleOf[s] = "support_agent" => s \in held'[c]
      BY <1>9, <1>12, <1>14, <3>1 DEF Stored
    <3>11. conv'[c] = doc /\ messages'[c] = messages[c]
      BY <1>5, <1>12, <2>3
    <3> QED
      BY <2>1, <3>3, <3>4, <3>5, <3>6, <3>7, <3>8, <3>9, <3>10, <3>11 DEF Stored, May
  <2> QED
    BY <2>2, <2>3
<1> QED
  BY <1>13, <1>16, <1>17, <1>18 DEF ChatInv

-----------------------------------------------------------------------------
(* The lists of writes the handlers begin with.                                 *)

LEMMA Joined ==
    ASSUME NEW u \in Seq(Writes), NEW v \in Seq(Writes)
    PROVE  /\ u \o v \in Seq(Writes)
           /\ ToSet(u \o v) = ToSet(u) \cup ToSet(v)
           /\ u # << >> => u \o v # << >> /\ Head(u \o v) = Head(u)
           /\ v # << >> => u \o v # << >>
           /\ SavesOnce(u) /\ Save \notin ToSet(v) => SavesOnce(u \o v)
           /\ Save \notin ToSet(u) /\ SavesOnce(v) => SavesOnce(u \o v)
           /\ \A w : SavesBefore(v, w) /\ w \notin ToSet(u) => SavesBefore(u \o v, w)
<1>1. PICK k \in Nat : k = Len(u)
  BY LenProperties
<1>2. PICK l \in Nat : l = Len(v)
  BY LenProperties
<1>3. PICK t \in Seq(Writes) : t = u \o v
  BY ConcatProperties
<1>4. /\ Len(t) = k + l
      /\ \A i \in 1..(k + l) : t[i] = IF i <= k THEN u[i] ELSE v[i - k]
  BY <1>1, <1>2, <1>3, ConcatProperties
<1>5. DOMAIN t = 1..(k + l) /\ DOMAIN u = 1..k /\ DOMAIN v = 1..l
  BY <1>1, <1>2, <1>4, LenProperties
<1>6. ToSet(t) = ToSet(u) \cup ToSet(v)
  <2>1. ASSUME NEW x \in ToSet(t) PROVE x \in ToSet(u) \cup ToSet(v)
    <3>1. PICK i \in 1..(k + l) : t[i] = x
      BY <1>5, <2>1 DEF ToSet
    <3>2. CASE i <= k
      <4>1. i \in 1..k /\ u[i] = x
        BY <1>4, <3>1, <3>2
      <4> QED
        BY <1>5, <4>1 DEF ToSet
    <3>3. CASE ~(i <= k)
      <4>1. i - k \in 1..l /\ v[i - k] = x
        BY <1>4, <3>1, <3>3
      <4> QED
        BY <1>5, <4>1 DEF ToSet
    <3> QED
      BY <3>2, <3>3
  <2>2. ASSUME NEW x \in ToSet(u) PROVE x \in ToSet(t)
    <3>1. PICK i \in 1..k : u[i] = x
      BY <1>5, <2>2 DEF ToSet
    <3>2. i \in 1..(k + l) /\ t[i] = x
      BY <1>4, <3>1
    <3> QED
      BY <1>5, <3>2 DEF ToSet
  <2>3. ASSUME NEW x \in ToSet(v) PROVE x \in ToSet(t)
    <3>1. PICK i \in 1..l : v[i] = x
      BY <1>5, <2>3 DEF ToSet
    <3>2. i + k \in 1..(k + l) /\ t[i + k] = x
      BY <1>4, <3>1
    <3> QED
      BY <1>5, <3>2 DEF ToSet
  <2> QED
    BY <2>1, <2>2, <2>3
<1>7. u # << >> => t # << >> /\ Head(t) = Head(u)
  <2> SUFFICES ASSUME u # << >> PROVE t # << >> /\ Head(t) = Head(u)
    OBVIOUS
  <2>1. k > 0
    BY <1>1, EmptySeq
  <2>2. Head(t) = t[1] /\ Head(u) = u[1] /\ t # << >>
    BY <1>1, <1>4, <2>1
  <2> QED
    BY <1>4, <2>1, <2>2
<1>8. v # << >> => t # << >>
  <2> SUFFICES ASSUME v # << >> PROVE t # << >>
    OBVIOUS
  <2>1. l > 0
    BY <1>2, EmptySeq
  <2> QED
    BY <1>4, <2>1
<1>9. ASSUME SavesOnce(u), Save \notin ToSet(v) PROVE SavesOnce(t)
  <2>1. ASSUME NEW i \in 1..(k + l), t[i] = Save PROVE i \in 1..k /\ u[i] = Save
    <3>1. CASE i <= k
      BY <1>4, <2>1, <3>1
    <3>2. CASE ~(i <= k)
      <4>1. i - k \in 1..l /\ v[i - k] = Save
        BY <1>4, <2>1, <3>2
      <4> QED
        BY <1>5, <1>9, <4>1 DEF ToSet
    <3> QED
      BY <3>1, <3>2
  <2> QED
    BY <1>5, <1>9, <2>1 DEF SavesOnce
<1>10. ASSUME Save \notin ToSet(u), SavesOnce(v) PROVE SavesOnce(t)
  <2>1. ASSUME NEW i \in 1..(k + l), t[i] = Save PROVE i - k \in 1..l /\ v[i - k] = Save
    <3>1. CASE i <= k
      <4>1. i \in 1..k /\ u[i] = Save
        BY <1>4, <2>1, <3>1
      <4> QED
        BY <1>5, <1>10, <4>1 DEF ToSet
    <3>2. CASE ~(i <= k)
      BY <1>4, <2>1, <3>2
    <3> QED
      BY <3>1, <3>2
  <2> SUFFICES ASSUME NEW i \in 1..(k + l), NEW j \in 1..(k + l), t[i] = Save, t[j] = Save
               PROVE  i = j
    BY <1>5 DEF SavesOnce
  <2>2. i - k = j - k
    BY <1>5, <1>10, <2>1 DEF SavesOnce
  <2> QED
    BY <2>2
<1>11. ASSUME NEW w, SavesBefore(v, w), w \notin ToSet(u) PROVE SavesBefore(t, w)
  <2> SUFFICES ASSUME NEW i \in 1..(k + l), t[i] = w
               PROVE  \E j \in 1..(k + l) : j < i /\ t[j] = Save
    BY <1>5 DEF SavesBefore
  <2>1. ~(i <= k)
    BY <1>4, <1>5, <1>11 DEF ToSet
  <2>2. i - k \in 1..l /\ v[i - k] = w
    BY <1>4, <2>1
  <2>3. PICK j \in 1..l : j < i - k /\ v[j] = Save
    BY <1>5, <1>11, <2>2 DEF SavesBefore
  <2>4. j + k \in 1..(k + l) /\ j + k < i /\ t[j + k] = v[j]
    BY <1>4, <2>3
  <2> QED
    BY <2>3, <2>4
<1> QED
  BY <1>3, <1>6, <1>7, <1>8, <1>9, <1>10, <1>11

\* Lists written out.
LEMMA Listed ==
    ASSUME NEW a \in Writes, NEW b \in Writes, NEW c \in Writes, NEW d \in Writes
    PROVE  /\ <<a>> \in Seq(Writes) /\ <<a>> # << >> /\ ToSet(<<a>>) = {a}
           /\ <<a, b>> \in Seq(Writes) /\ <<a, b>> # << >> /\ ToSet(<<a, b>>) = {a, b}
           /\ <<a, b, c>> \in Seq(Writes) /\ <<a, b, c>> # << >> /\ ToSet(<<a, b, c>>) = {a, b, c}
           /\ <<a, b, c, d>> \in Seq(Writes) /\ <<a, b, c, d>> # << >>
           /\ ToSet(<<a, b, c, d>>) = {a, b, c, d}
           /\ Head(<<a>>) = a /\ Head(<<a, b>>) = a /\ Head(<<a, b, c>>) = a
           /\ << >> \in Seq(Writes) /\ ToSet(<< >>) = {}
<1>1. /\ <<a>> \in Seq(Writes) /\ <<a, b>> \in Seq(Writes) /\ <<a, b, c>> \in Seq(Writes)
      /\ <<a, b, c, d>> \in Seq(Writes)
  OBVIOUS
<1>2. ToSet(<<a>>) = {a} /\ ToSet(<< >>) = {}
  BY DEF ToSet
<1>3. ToSet(<<a, b>>) = {a, b}
  BY DEF ToSet
<1>4. ToSet(<<a, b, c>>) = {a, b, c}
  BY DEF ToSet
<1>5. ToSet(<<a, b, c, d>>) = {a, b, c, d}
  BY DEF ToSet
<1>6. Head(<<a>>) = a /\ Head(<<a, b>>) = a /\ Head(<<a, b, c>>) = a
  OBVIOUS
<1>7. <<a>> # << >> /\ <<a, b>> # << >> /\ <<a, b, c>> # << >> /\ <<a, b, c, d>> # << >>
  OBVIOUS
<1> QED
  BY <1>1, <1>2, <1>3, <1>4, <1>5, <1>6, <1>7

\* A list that starts with its save.
Starts(t) == /\ t \in Seq(Writes) /\ t # << >> /\ Head(t) = Save /\ SavesOnce(t)
             /\ \A w : w # Save => SavesBefore(t, w)

LEMMA SaveFirst ==
    ASSUME NEW t \in Seq(Writes), NEW n \in Nat, n > 0, Len(t) = n, t[1] = Save,
           \A i \in 2..n : t[i] # Save
    PROVE  Starts(t)
<1>1. DOMAIN t = 1..n /\ 1 \in 1..n
  BY LenProperties
<1>2. \A i \in 1..n : i = 1 \/ i \in 2..n
  OBVIOUS
<1>3. SavesOnce(t)
  BY <1>1, <1>2 DEF SavesOnce
<1>4. ASSUME NEW w, w # Save PROVE SavesBefore(t, w)
  <2> SUFFICES ASSUME NEW i \in 1..n, t[i] = w PROVE \E j \in 1..n : j < i /\ t[j] = Save
    BY <1>1 DEF SavesBefore
  <2>1. i # 1
    BY <1>4
  <2>2. 1 < i
    BY <2>1
  <2> QED
    BY <1>1, <2>2
<1>5. t # << >> /\ Head(t) = t[1]
  OBVIOUS
<1> QED
  BY <1>3, <1>4, <1>5 DEF Starts

LEMMA StartTwo ==
    ASSUME NEW a, a = Save, NEW b \in Writes \ {Save}
    PROVE  Starts(<<a, b>>) /\ ToSet(<<a, b>>) = {a, b}
<1>1. a \in Writes
  BY WriteFacts
<1>2. <<a, b>> \in Seq(Writes)
  BY <1>1
<1>3. ToSet(<<a, b>>) = {a, b}
  BY DEF ToSet
<1>4. PICK t \in Seq(Writes) : t = <<a, b>>
  BY <1>2
<1>5. Len(t) = 2 /\ t[1] = Save /\ (\A i \in 2..2 : t[i] # Save) /\ 2 \in Nat /\ 2 > 0
  BY <1>4
<1>6. Starts(t)
  BY <1>5, SaveFirst
<1> QED
  BY <1>3, <1>4, <1>6

LEMMA StartThree ==
    ASSUME NEW a, a = Save, NEW b \in Writes \ {Save}, NEW c \in Writes \ {Save}
    PROVE  Starts(<<a, b, c>>) /\ ToSet(<<a, b, c>>) = {a, b, c}
<1>1. a \in Writes
  BY WriteFacts
<1>2. <<a, b, c>> \in Seq(Writes)
  BY <1>1
<1>3. ToSet(<<a, b, c>>) = {a, b, c}
  BY DEF ToSet
<1>4. PICK t \in Seq(Writes) : t = <<a, b, c>>
  BY <1>2
<1>5. Len(t) = 3 /\ t[1] = Save /\ (\A i \in 2..3 : t[i] # Save) /\ 3 \in Nat /\ 3 > 0
  BY <1>4
<1>6. Starts(t)
  BY <1>5, SaveFirst
<1> QED
  BY <1>3, <1>4, <1>6

LEMMA StartFour ==
    ASSUME NEW a, a = Save, NEW b \in Writes \ {Save}, NEW c \in Writes \ {Save}, NEW d \in Writes \ {Save}
    PROVE  Starts(<<a, b, c, d>>) /\ ToSet(<<a, b, c, d>>) = {a, b, c, d}
<1>1. a \in Writes
  BY WriteFacts
<1>2. <<a, b, c, d>> \in Seq(Writes)
  BY <1>1
<1>3. ToSet(<<a, b, c, d>>) = {a, b, c, d}
  BY DEF ToSet
<1>4. PICK t \in Seq(Writes) : t = <<a, b, c, d>>
  BY <1>2
<1>5. Len(t) = 4 /\ t[1] = Save /\ (\A i \in 2..4 : t[i] # Save) /\ 4 \in Nat /\ 4 > 0
  BY <1>4
<1>6. Starts(t)
  BY <1>5, SaveFirst
<1> QED
  BY <1>3, <1>4, <1>6

LEMMA StartSix ==
    ASSUME NEW a, a = Save, NEW b \in Writes \ {Save}, NEW c \in Writes \ {Save},
           NEW d \in Writes \ {Save}, NEW e \in Writes \ {Save}, NEW f \in Writes \ {Save}
    PROVE  Starts(<<a, b, c, d, e, f>>) /\ ToSet(<<a, b, c, d, e, f>>) = {a, b, c, d, e, f}
<1>1. a \in Writes
  BY WriteFacts
<1>2. <<a, b, c, d, e, f>> \in Seq(Writes)
  BY <1>1
<1>3. ToSet(<<a, b, c, d, e, f>>) = {a, b, c, d, e, f}
  BY DEF ToSet
<1>4. PICK t \in Seq(Writes) : t = <<a, b, c, d, e, f>>
  BY <1>2
<1>5. Len(t) = 6 /\ t[1] = Save /\ (\A i \in 2..6 : t[i] # Save) /\ 6 \in Nat /\ 6 > 0
  BY <1>4
<1>6. Starts(t)
  BY <1>5, SaveFirst
<1> QED
  BY <1>3, <1>4, <1>6

-----------------------------------------------------------------------------
(* The handlers.                                                                *)

Fresh(c, next, todo) == [conv |-> c, seen |-> conv[c], next |-> next, todo |-> todo]

LEMMA BeginKeeps ==
    ASSUME ChatInv, NEW r \in Requests, NEW c \in Conversations, NEW next \in Doc,
           NEW todo \in Seq(Writes), todo # << >>, Begin(r, c, next, todo),
           Sound(r, Fresh(c, next, todo)),
           \A o \in Requests : reqs[o] # Idle /\ reqs[o].seen = NoDoc => reqs[o].conv # c
    PROVE  ChatInv'
<1>1. PICK q : q = Fresh(c, next, todo)
  OBVIOUS
<1>2. TypeOK /\ conv[c] \in Doc \cup {NoDoc}
  BY DEF ChatInv, TypeOK
<1>3. q \in Request /\ q.conv = c
  BY <1>1, <1>2 DEF Fresh, Request
<1>4. /\ reqs[r] = Idle /\ calls < MaxCalls /\ calls' = calls + 1
      /\ reqs' = [reqs EXCEPT ![r] = q]
      /\ UNCHANGED <<conv, messages, rows, notices, failures, held, stale>>
  BY <1>1 DEF Begin, Fresh
<1>5. TypeOK'
  <2>1. calls' \in 0..MaxCalls
    BY <1>2, <1>4, ChatConstants DEF TypeOK
  <2> QED
    BY <1>2, <1>3, <1>4, <2>1 DEF TypeOK
<1>6. Grows
  BY <1>4 DEF Grows
<1>7. ASSUME NEW o \in Requests PROVE Sound(o, reqs[o])'
  <2>1. CASE o = r
    <3>1. reqs'[o] = q /\ Sound(r, q)
      BY <1>1, <1>2, <1>4, <2>1 DEF TypeOK
    <3>2. Opens(r, q) => Opens(r, q)'
      BY <1>2, <1>4 DEF Opens, TypeOK
    <3>3. Decides(q) => Decides(q)'
      BY <1>4 DEF Decides, Owed, Left
    <3>4. Addresses(q) => Addresses(q)'
      BY <1>4 DEF Addresses, Left
    <3>5. Authorised(q) => Authorised(q)'
      BY <1>4 DEF Authorised, Left, May
    <3>6. q # Idle
      BY <1>3, IdleFacts
    <3>7. /\ q.todo # << >> /\ SavesOnce(q.todo)
          /\ Opens(r, q)' /\ Decides(q)' /\ Addresses(q)' /\ Authorised(q)'
      BY <3>1, <3>2, <3>3, <3>4, <3>5, <3>6 DEF Sound
    <3> QED
      BY <2>1, <3>1, <3>7 DEF Sound, Opens, Decides, Addresses, Authorised, Owed, Left
  <2>2. CASE o # r
    <3>1. PICK p : p = reqs[o]
      OBVIOUS
    <3>2. Sound(o, p)
      BY <3>1 DEF ChatInv
    <3>3. p # Idle /\ p.seen = NoDoc => conv'[p.conv] = conv[p.conv] /\ (q # Idle => q.conv # p.conv)
      BY <1>3, <1>4, <3>1
    <3> QED
      BY <1>2, <1>4, <1>6, <2>2, <3>1, <3>2, <3>3, SoundOthers DEF TypeOK
  <2> QED
    BY <2>1, <2>2
<1>8. ASSUME NEW d \in Conversations PROVE Stored(d)'
  <2>1. ASSUME NEW x \in Rows, Accounted(d, x) PROVE Accounted(d, x)'
    <3>1. CASE x \in rows[d] \/ failures > 0
      BY <1>4, <3>1 DEF Accounted
    <3>2. ASSUME NEW o \in Requests, reqs[o] # Idle, reqs[o].conv = d, x \in Left(reqs[o])
          PROVE  Accounted(d, x)'
      <4>1. o # r /\ reqs'[o] = reqs[o]
        BY <1>4, <3>2
      <4> QED
        BY <3>2, <4>1 DEF Accounted, Left
    <3> QED
      BY <2>1, <3>1, <3>2 DEF Accounted, Left
  <2> QED
    BY <1>2, <1>4, <1>6, <2>1, StoredKept DEF ChatInv
<1> QED
  BY <1>5, <1>7, <1>8 DEF ChatInv

\* What a request on a conversation there is may begin with.
Fits(c, next, todo) ==
    /\ next.status # "open" /\ next.routing = conv[c].routing
    /\ next.agent # conv[c].agent =>
          next.agent # Nobody /\ Row("assignment", next.agent) \in ToSet(todo)
    /\ next.status # conv[c].status /\ next.status \in Finished =>
          Row("status_log", next.status) \in ToSet(todo)
    /\ \A x \in Senders : Message(x) \in ToSet(todo) =>
          next.status \in Active /\ conv[c].status \in Active
    /\ \A s \in Staff : Message(s) \in ToSet(todo) =>
          /\ May(s, conv[c].routing)
          /\ RoleOf[s] = "support_agent" =>
                \/ s \in held[c]
                \/ next.agent = s /\ conv[c].agent # s /\ SavesBefore(todo, Message(s))

LEMMA HandlerKeeps ==
    ASSUME ChatInv, NEW r \in Requests, NEW c \in Conversations, NEW next \in Doc,
           NEW todo \in Seq(Writes), todo # << >>, SavesOnce(todo), Begin(r, c, next, todo),
           conv[c] # NoDoc, Fits(c, next, todo)
    PROVE  ChatInv'
<1>1. PICK q : q = Fresh(c, next, todo)
  OBVIOUS
<1>2. q.conv = c /\ q.seen = conv[c] /\ q.next = next /\ q.todo = todo
  BY <1>1 DEF Fresh
<1>3. Opens(r, q)
  BY <1>2 DEF Opens
<1>4. Decides(q)
  BY <1>2 DEF Decides, Fits, Owed, Left
<1>5. Addresses(q)
  BY <1>2 DEF Addresses, Fits, Left
<1>6. Authorised(q)
  BY <1>2 DEF Authorised, Fits, Left
<1>7. Sound(r, q)
  BY <1>2, <1>3, <1>4, <1>5, <1>6 DEF Sound
<1>8. ASSUME NEW o \in Requests, reqs[o] # Idle, reqs[o].seen = NoDoc PROVE reqs[o].conv # c
  <2>1. Opens(o, reqs[o])
    BY <1>8 DEF ChatInv, Sound
  <2> QED
    BY <1>8, <2>1 DEF Opens
<1> QED
  BY <1>1, <1>7, <1>8, BeginKeeps

\* The rows the handlers write.
LEMMA RowFacts ==
    /\ \A p \in Staff \cup {"customer and assistant"} : Row("participant", p) \in Rows
    /\ \A what \in {"staff message", "reply", "assigned", "resolved"} : Row("notification", what) \in Rows
    /\ \A what \in {"assignment", "reply"} \cup Active \cup Finished : Row("audit", what) \in Rows
    /\ \A w \in Rows : w \in Writes \ {Save} /\ \A x \in Senders : w # Message(x)
    /\ {"customer", "system"} \subseteq Senders /\ {"customer", "system"} \cap Staff = {}
<1>1. /\ \A p \in Staff \cup {"customer and assistant"} : Row("participant", p) \in Rows
      /\ \A what \in {"staff message", "reply", "assigned", "resolved"} : Row("notification", what) \in Rows
      /\ \A what \in {"assignment", "reply"} \cup Active \cup Finished : Row("audit", what) \in Rows
  BY DEF Rows
<1>2. \A w \in Rows : w \in Writes \ {Save} /\ \A x \in Senders : w # Message(x)
  BY WriteFacts
<1>3. {"customer", "system"} \subseteq Senders /\ {"customer", "system"} \cap Staff = {}
  BY ChatConstants DEF Senders
<1> QED
  BY <1>1, <1>2, <1>3

LEMMA SendKeeps ==
    ASSUME ChatInv, NEW r \in Requests, NEW c \in Conversations, Send(r, c) PROVE ChatInv'
<1> DEFINE next == [conv[c] EXCEPT !.status = "waiting_agent"]
<1>1. PICK a : a = Message("customer")
  OBVIOUS
<1>2. PICK b : b = Row("status_log", "waiting_agent")
  OBVIOUS
<1>3. PICK v : v = IF conv[c].agent = Nobody THEN << >> ELSE <<Row("notification", "staff message")>>
  OBVIOUS
<1>4. PICK d : d = Save
  OBVIOUS
<1>5. Begin(r, c, next, <<a, b, d>> \o v) /\ conv[c].status \in Active
  BY <1>1, <1>2, <1>3, <1>4 DEF Send, Writable
<1>6. /\ a \in Writes \ {Save} /\ b \in Writes \ {Save} /\ d \in Writes
      /\ \A s \in Staff : a # Message(s) /\ b # Message(s) /\ d # Message(s)
  BY <1>1, <1>2, <1>4, WriteFacts, RowFacts DEF Active
<1>7. /\ v \in Seq(Writes) /\ Save \notin ToSet(v) /\ \A s \in Staff : Message(s) \notin ToSet(v)
  <2>1. PICK n : n = Row("notification", "staff message")
    OBVIOUS
  <2>2. n \in Writes /\ n # Save /\ \A s \in Staff : Message(s) # n
    BY <2>1, RowFacts, WriteFacts
  <2>3. v = << >> \/ v = <<n>>
    BY <1>3, <2>1
  <2>4. ToSet(v) \subseteq {n} /\ v \in Seq(Writes)
    BY <2>2, <2>3, Listed
  <2> QED
    BY <2>2, <2>4
<1>8a. /\ <<a, b, d>> \in Seq(Writes) /\ <<a, b, d>> # << >>
       /\ ToSet(<<a, b, d>>) = {a, b, d}
  <2>1. a \in Writes /\ b \in Writes /\ d \in Writes
    BY <1>6
  <2> HIDE <1>1, <1>2, <1>3, <1>4, <1>5, <1>6, <1>7
  <2>2. ToSet(<<a, b, d>>) = {a, b, d}
    BY DEF ToSet
  <2> QED
    BY <2>1, <2>2
<1>8. PICK u \in Seq(Writes) : u = <<a, b, d>>
  BY <1>8a
<1>9. u # << >> /\ ToSet(u) = {a, b, d}
  BY <1>8, <1>8a
<1>10. SavesOnce(u)
  <2>1. DOMAIN u = 1..3 /\ u[1] = a /\ u[2] = b /\ u[3] = d
    BY <1>8
  <2> QED
    BY <1>6, <2>1 DEF SavesOnce
<1>11. PICK todo \in Seq(Writes) : todo = u \o v
  BY <1>7, Joined
<1>12. /\ todo # << >> /\ SavesOnce(todo) /\ \A s \in Staff : Message(s) \notin ToSet(todo)
  BY <1>6, <1>7, <1>9, <1>10, <1>11, Joined
<1>13. conv[c] \in Doc /\ conv[c] # NoDoc
  BY <1>5, DocFacts DEF ChatInv, TypeOK
<1>14. /\ next \in Doc /\ next.status = "waiting_agent" /\ next.agent = conv[c].agent
       /\ next.routing = conv[c].routing
  BY <1>13 DEF Doc, Active
<1>15. Fits(c, next, todo)
  BY <1>5, <1>12, <1>14 DEF Fits, Active, Finished
<1>16. Begin(r, c, next, todo)
  BY <1>5, <1>8, <1>11
<1> QED
  BY <1>12, <1>13, <1>14, <1>15, <1>16, HandlerKeeps

LEMMA AssignKeeps ==
    ASSUME ChatInv, NEW r \in Requests, NEW c \in Conversations, NEW s \in Staff, Assign(r, c, s)
    PROVE  ChatInv'
<1> DEFINE next == [conv[c] EXCEPT !.agent = s, !.status = "assigned"]
<1>1. PICK b : b = Row("assignment", s)
  OBVIOUS
<1>2. PICK d : d = Row("participant", s)
  OBVIOUS
<1>3. PICK e : e = Row("status_log", "assigned")
  OBVIOUS
<1>4. PICK f : f = Row("audit", "assignment")
  OBVIOUS
<1>5. PICK g : g = Row("notification", "assigned")
  OBVIOUS
<1>6. PICK a : a = Save
  OBVIOUS
<1>7. Begin(r, c, next, <<a, b, d, e, f, g>>) /\ conv[c] # NoDoc
  BY <1>1, <1>2, <1>3, <1>4, <1>5, <1>6 DEF Assign
<1>8. {b, d, e, f, g} \subseteq Rows
  <2>1. "assigned" \in Active \cup Finished
    BY DEF Active
  <2>2. b \in Rows
    BY <1>1, WriteFacts
  <2>3. d \in Rows
    BY <1>2, RowFacts
  <2>4. e \in Rows
    BY <1>3, <2>1, WriteFacts
  <2>5. f \in Rows
    BY <1>4, RowFacts
  <2>6. g \in Rows
    BY <1>5, RowFacts
  <2> QED
    BY <2>2, <2>3, <2>4, <2>5, <2>6
<1>9. /\ b \in Writes \ {Save} /\ d \in Writes \ {Save} /\ e \in Writes \ {Save}
      /\ f \in Writes \ {Save} /\ g \in Writes \ {Save}
  BY <1>8, RowFacts
<1>9a. Starts(<<a, b, d, e, f, g>>) /\ ToSet(<<a, b, d, e, f, g>>) = {a, b, d, e, f, g}
  BY <1>6, <1>9, StartSix, SMT
<1>10. PICK todo : todo = <<a, b, d, e, f, g>>
  OBVIOUS
<1>11. Starts(todo) /\ ToSet(todo) = {a, b, d, e, f, g}
  BY <1>9a, <1>10
<1>12. \A x \in Senders : Message(x) \notin ToSet(todo)
  BY <1>6, <1>8, <1>11, WriteFacts, RowFacts
<1>13. conv[c] \in Doc
  BY <1>7 DEF ChatInv, TypeOK
<1>14. /\ next \in Doc /\ next.status = "assigned" /\ next.agent = s
       /\ next.routing = conv[c].routing
  BY <1>13 DEF Doc, Active
<1>15. s # Nobody /\ Staff \subseteq Senders
  BY ChatConstants, WriteFacts
<1>16. Fits(c, next, todo)
  BY <1>1, <1>11, <1>12, <1>14, <1>15 DEF Fits, Finished
<1> QED
  BY <1>7, <1>10, <1>11, <1>14, <1>16, HandlerKeeps DEF Starts

LEMMA ReplyKeeps ==
    ASSUME ChatInv, NEW r \in Requests, NEW c \in Conversations, NEW s \in Staff, Reply(r, c, s)
    PROVE  ChatInv'
<1> DEFINE next == [conv[c] EXCEPT !.agent = IF @ = Nobody THEN s ELSE @, !.status = "waiting_customer"]
<1>1. PICK a : a = Save
  OBVIOUS
<1>2. PICK b : b = Message(s)
  OBVIOUS
<1>3. PICK d : d = Row("notification", "reply")
  OBVIOUS
<1>4. PICK e : e = Row("audit", "reply")
  OBVIOUS
<1>5. PICK u : u = Claim(s, conv[c])
  OBVIOUS
<1>6. /\ Begin(r, c, next, u \o <<a, b, d, e>>)
      /\ conv[c].status \in Active /\ MayAct(s, conv[c])
  BY <1>1, <1>2, <1>3, <1>4, <1>5 DEF Reply, Answer, Writable
<1>7. /\ s \in Senders /\ s # Nobody
      /\ b \in Writes \ {Save} /\ d \in Rows /\ e \in Rows
      /\ d \in Writes \ {Save} /\ e \in Writes \ {Save} /\ a \in Writes
  BY <1>1, <1>2, <1>3, <1>4, WriteFacts, RowFacts, ChatConstants
<1>7a. Starts(<<a, b, d, e>>) /\ ToSet(<<a, b, d, e>>) = {a, b, d, e}
  <2>1. a = Save /\ b \in Writes \ {Save} /\ d \in Writes \ {Save} /\ e \in Writes \ {Save}
    BY <1>1, <1>7
  <2> QED
    BY <2>1, StartFour, SMT
<1>8. PICK v : v = <<a, b, d, e>>
  OBVIOUS
<1>9. Starts(v) /\ ToSet(v) = {a, b, d, e}
  BY <1>7a, <1>8
<1>10. /\ u \in Seq(Writes) /\ Save \notin ToSet(u) /\ \A x \in Senders : Message(x) \notin ToSet(u)
       /\ conv[c].agent = Nobody => Row("assignment", s) \in ToSet(u)
  <2>1. PICK n : n = Row("assignment", s)
    OBVIOUS
  <2>2. n \in Writes /\ n # Save /\ \A x \in Senders : Message(x) # n
    BY <2>1, RowFacts, WriteFacts
  <2>3. IF conv[c].agent = Nobody THEN u = <<n>> ELSE u = << >>
    BY <1>5, <2>1 DEF Claim
  <2>4. /\ ToSet(u) \subseteq {n} /\ u \in Seq(Writes)
        /\ conv[c].agent = Nobody => n \in ToSet(u)
    BY <2>2, <2>3, Listed
  <2> QED
    BY <2>1, <2>2, <2>4
<1>11. PICK todo \in Seq(Writes) : todo = u \o v
  BY <1>9, <1>10, Joined DEF Starts
<1>12. /\ todo # << >> /\ SavesOnce(todo) /\ ToSet(todo) = ToSet(u) \cup ToSet(v)
  BY <1>9, <1>10, <1>11, Joined DEF Starts
<1>13. SavesBefore(todo, Message(s))
  BY <1>2, <1>7, <1>9, <1>10, <1>11, Joined DEF Starts
<1>14. conv[c] \in Doc /\ conv[c] # NoDoc
  BY <1>6, DocFacts DEF ChatInv, TypeOK
<1>15. /\ next \in Doc /\ next.status = "waiting_customer" /\ next.routing = conv[c].routing
       /\ next.agent = IF conv[c].agent = Nobody THEN s ELSE conv[c].agent
  BY <1>14 DEF Doc, Active
<1>16. \A x \in Senders : Message(x) \in ToSet(todo) => x = s
  BY <1>1, <1>2, <1>7, <1>9, <1>10, <1>12, WriteFacts, RowFacts
<1>17. /\ May(s, conv[c].routing)
       /\ RoleOf[s] = "support_agent" =>
             s \in held[c] \/ (next.agent = s /\ conv[c].agent # s)
  <2>1. Stored(c)
    BY DEF ChatInv
  <2> QED
    BY <1>6, <1>7, <1>15, <2>1 DEF MayAct, May, Stored
<1>18. next.agent # conv[c].agent =>
          next.agent # Nobody /\ Row("assignment", next.agent) \in ToSet(todo)
  BY <1>7, <1>10, <1>12, <1>15
<1>19. next.status \in Active /\ next.status \notin Finished /\ next.status # "open"
  BY <1>15 DEF Active, Finished
<1>20. Fits(c, next, todo)
  BY <1>6, <1>13, <1>15, <1>16, <1>17, <1>18, <1>19, WriteFacts DEF Fits
<1>21. Begin(r, c, next, todo)
  BY <1>6, <1>8, <1>11
<1> QED
  BY <1>12, <1>14, <1>15, <1>20, <1>21, HandlerKeeps

LEMMA SetStatusKeeps ==
    ASSUME ChatInv, NEW r \in Requests, NEW c \in Conversations, NEW s \in Staff,
           NEW status \in (Active \ {"open"}) \cup Finished, SetStatus(r, c, s, status)
    PROVE  ChatInv'
<1> DEFINE next == [conv[c] EXCEPT !.status = status]
<1>1. PICK a : a = Save
  OBVIOUS
<1>2. PICK b : b = Row("status_log", status)
  OBVIOUS
<1>3. PICK d : d = Row("audit", status)
  OBVIOUS
<1>4. PICK v : v = IF status = "resolved" THEN <<Row("notification", "resolved")>> ELSE << >>
  OBVIOUS
<1>5. Begin(r, c, next, <<a, b, d>> \o v) /\ conv[c] # NoDoc
  BY <1>1, <1>2, <1>3, <1>4 DEF SetStatus
<1>6. b \in Rows /\ d \in Rows
  <2>1. b \in Rows
    BY <1>2, WriteFacts
  <2>2. d \in Rows
    BY <1>3, RowFacts
  <2> QED
    BY <2>1, <2>2
<1>7. a \in Writes /\ b \in Writes \ {Save} /\ d \in Writes \ {Save}
  BY <1>1, <1>6, WriteFacts, RowFacts
<1>8. Starts(<<a, b, d>>) /\ ToSet(<<a, b, d>>) = {a, b, d}
  BY <1>1, <1>7, StartThree, Zenon
<1>10. PICK u : u = <<a, b, d>>
  OBVIOUS
<1>11. Starts(u) /\ ToSet(u) = {a, b, d}
  BY <1>8, <1>10
<1>12. v \in Seq(Writes) /\ Save \notin ToSet(v) /\ \A x \in Senders : Message(x) \notin ToSet(v)
  <2>1. PICK n : n = Row("notification", "resolved")
    OBVIOUS
  <2>2. n \in Writes /\ n # Save /\ \A x \in Senders : Message(x) # n
    BY <2>1, RowFacts, WriteFacts
  <2>3. v = << >> \/ v = <<n>>
    BY <1>4, <2>1
  <2>4. ToSet(v) \subseteq {n} /\ v \in Seq(Writes)
    BY <2>2, <2>3, Listed
  <2> QED
    BY <2>2, <2>4
<1>13. PICK todo \in Seq(Writes) : todo = u \o v
  BY <1>11, <1>12, Joined DEF Starts
<1>14. /\ todo # << >> /\ SavesOnce(todo) /\ ToSet(todo) = ToSet(u) \cup ToSet(v)
  BY <1>11, <1>12, <1>13, Joined DEF Starts
<1>15. \A x \in Senders : Message(x) \notin ToSet(todo)
  BY <1>1, <1>6, <1>11, <1>12, <1>14, WriteFacts, RowFacts
<1>16. Row("status_log", status) \in ToSet(todo)
  BY <1>2, <1>11, <1>14
<1>17. conv[c] \in Doc
  BY <1>5 DEF ChatInv, TypeOK
<1>18. /\ next \in Doc /\ next.status = status /\ next.agent = conv[c].agent
       /\ next.routing = conv[c].routing
  BY <1>17 DEF Doc
<1>19. status # "open" /\ Staff \subseteq Senders
  BY WriteFacts DEF Finished
<1>20. Fits(c, next, todo)
  BY <1>15, <1>16, <1>18, <1>19 DEF Fits
<1>21. Begin(r, c, next, todo)
  BY <1>5, <1>10, <1>13
<1> QED
  BY <1>5, <1>14, <1>18, <1>20, <1>21, HandlerKeeps

LEMMA OpenKeeps ==
    ASSUME ChatInv, NEW r \in Requests, NEW c \in Conversations, NEW l \in Loans \cup {NoLoan},
           NEW routing \in Routings, NEW asked \in BOOLEAN, Open(r, c, l, routing, asked)
    PROVE  ChatInv'
<1> DEFINE status == IF asked THEN "waiting_agent" ELSE "open"
           next == [status |-> status, agent |-> Nobody, loan |-> l, routing |-> routing]
<1>1. PICK a : a = Save
  OBVIOUS
<1>2. PICK b : b = Row("participant", "customer and assistant")
  OBVIOUS
<1>3. PICK v : v = IF asked THEN <<Message("customer")>> ELSE << >>
  OBVIOUS
<1>4. PICK d : d = Message("system")
  OBVIOUS
<1>5. PICK e : e = Row("status_log", status)
  OBVIOUS
<1>6. /\ Begin(r, c, next, <<a, b>> \o v \o <<d, e>>) /\ conv[c] = NoDoc
      /\ \A q \in Requests : reqs[q] # Idle => reqs[q].conv # c
  BY <1>1, <1>2, <1>3, <1>4, <1>5 DEF Open
<1>7. status \in Active
  BY DEF Active
<1>8. b \in Rows /\ e \in Rows
  <2>1. b \in Rows
    BY <1>2, RowFacts
  <2>2. e \in Rows
    BY <1>5, <1>7, WriteFacts
  <2> QED
    BY <2>1, <2>2
<1>9. /\ a \in Writes /\ b \in Writes \ {Save} /\ d \in Writes \ {Save} /\ e \in Writes \ {Save}
      /\ \A s \in Staff : Message(s) # a /\ Message(s) # b /\ Message(s) # d /\ Message(s) # e
  BY <1>1, <1>4, <1>8, WriteFacts, RowFacts
<1>10. Starts(<<a, b>>) /\ ToSet(<<a, b>>) = {a, b}
  BY <1>1, <1>9, StartTwo, Zenon
<1>12. ToSet(<<d, e>>) = {d, e} /\ <<d, e>> \in Seq(Writes)
  BY <1>9, Listed, Zenon
<1>13. PICK u : u = <<a, b>>
  OBVIOUS
<1>14. PICK w : w = <<d, e>>
  OBVIOUS
<1>15. /\ Starts(u) /\ ToSet(u) = {a, b}
       /\ w \in Seq(Writes) /\ ToSet(w) = {d, e} /\ Save \notin ToSet(w)
  BY <1>9, <1>10, <1>12, <1>13, <1>14
<1>16. v \in Seq(Writes) /\ Save \notin ToSet(v) /\ \A s \in Staff : Message(s) \notin ToSet(v)
  <2>1. PICK n : n = Message("customer")
    OBVIOUS
  <2>2. n \in Writes /\ n # Save /\ \A s \in Staff : Message(s) # n
    BY <2>1, RowFacts, WriteFacts
  <2>3. v = << >> \/ v = <<n>>
    BY <1>3, <2>1
  <2>4. ToSet(v) \subseteq {n} /\ v \in Seq(Writes)
    BY <2>2, <2>3, Listed
  <2> QED
    BY <2>2, <2>4
<1>17. PICK x \in Seq(Writes) : x = u \o v
  BY <1>15, <1>16, Joined DEF Starts
<1>18. /\ x # << >> /\ Head(x) = Save /\ SavesOnce(x) /\ ToSet(x) = ToSet(u) \cup ToSet(v)
  BY <1>15, <1>16, <1>17, Joined DEF Starts
<1>19. PICK todo \in Seq(Writes) : todo = x \o w
  BY <1>15, <1>17, Joined
<1>20. /\ todo # << >> /\ Head(todo) = Save /\ SavesOnce(todo)
       /\ ToSet(todo) = ToSet(x) \cup ToSet(w)
  BY <1>15, <1>18, <1>19, Joined
<1>21. \A s \in Staff : Message(s) \notin ToSet(todo)
  BY <1>9, <1>15, <1>16, <1>18, <1>20
<1>22. Begin(r, c, next, todo)
  BY <1>6, <1>13, <1>14, <1>17, <1>19
<1>23. next \in Doc /\ next.status \in Active /\ next.agent = Nobody
  BY <1>7 DEF Doc
<1> HIDE DEF next
<1>24. PICK q : q = Fresh(c, next, todo)
  OBVIOUS
<1>25. q.conv = c /\ q.seen = NoDoc /\ q.next = next /\ q.todo = todo
  BY <1>6, <1>24 DEF Fresh
<1>26. Opens(r, q)
  BY <1>6, <1>20, <1>23, <1>25 DEF Opens
<1>27. Decides(q) /\ Addresses(q)
  BY <1>23, <1>25 DEF Decides, Addresses
<1>28. Authorised(q)
  BY <1>21, <1>25 DEF Authorised, Left
<1>29. Sound(r, Fresh(c, next, todo))
  BY <1>20, <1>24, <1>25, <1>26, <1>27, <1>28 DEF Sound
<1> QED
  BY <1>6, <1>20, <1>22, <1>23, <1>29, BeginKeeps

LEMMA FailKeeps == ASSUME ChatInv, NEW r \in Requests, Fail(r) PROVE ChatInv'
<1>1. TypeOK /\ reqs \in [Requests -> Request \cup {Idle}] /\ failures \in 0..MaxFailures
  BY DEF ChatInv, TypeOK
<1>2. /\ reqs' = [reqs EXCEPT ![r] = Idle] /\ failures' = failures + 1
      /\ failures < MaxFailures
      /\ UNCHANGED <<conv, messages, rows, notices, calls, held, stale>>
  BY DEF Fail
<1>3. failures' \in 0..MaxFailures /\ failures' > 0
  BY <1>1, <1>2, ChatConstants
<1>4. TypeOK'
  BY <1>1, <1>2, <1>3 DEF TypeOK
<1>5. Grows
  BY <1>2, <1>3 DEF Grows
<1>6. ASSUME NEW o \in Requests PROVE Sound(o, reqs[o])'
  <2>1. CASE o = r
    BY <1>1, <1>2, <2>1 DEF Sound
  <2>2. CASE o # r
    <3>1. PICK p : p = reqs[o]
      OBVIOUS
    <3>2. Sound(o, p)
      BY <3>1 DEF ChatInv
    <3>3. p # Idle /\ p.seen = NoDoc =>
             conv'[p.conv] = conv[p.conv] /\ (Idle # Idle => Idle.conv # p.conv)
      BY <1>2
    <3> QED
      BY <1>1, <1>2, <1>5, <2>2, <3>1, <3>2, <3>3, SoundOthers
  <2> QED
    BY <2>1, <2>2
<1>7. ASSUME NEW c \in Conversations PROVE Stored(c)'
  <2>1. \A x \in Rows : Accounted(c, x)'
    BY <1>3 DEF Accounted
  <2> QED
    BY <1>1, <1>2, <1>5, <2>1, StoredKept DEF ChatInv
<1> QED
  BY <1>4, <1>6, <1>7 DEF ChatInv

-----------------------------------------------------------------------------
(* The invariant and what follows from it.                                      *)

LEMMA ChatStarts == Init => ChatInv
<1> SUFFICES ASSUME Init PROVE ChatInv
  OBVIOUS
<1>1. TypeOK
  <2>1. << >> \in Seq(Senders)
    OBVIOUS
  <2>2. 0 \in 0..MaxCalls /\ 0 \in 0..MaxFailures
    BY ChatConstants
  <2> QED
    BY <2>1, <2>2 DEF Init, TypeOK
<1>2. \A r \in Requests : Sound(r, reqs[r])
  BY DEF Init, Sound
<1>3. ASSUME NEW c \in Conversations PROVE Stored(c)
  <2>1. conv[c] = NoDoc /\ messages[c] = << >>
    BY DEF Init
  <2>2. ToSet(messages[c]) = {}
    BY <2>1, Listed, WriteFacts
  <2> QED
    BY <2>1, <2>2, DocFacts DEF Stored
<1> QED
  BY <1>1, <1>2, <1>3 DEF ChatInv

LEMMA ChatSteps == ChatInv /\ [Next]_vars => ChatInv'
<1> SUFFICES ASSUME ChatInv, [Next]_vars PROVE ChatInv'
  OBVIOUS
<1>1. CASE UNCHANGED vars
  BY <1>1 DEF vars, ChatInv, TypeOK, Sound, Opens, Decides, Addresses, Authorised, Owed, Left,
              Stored, Accounted
<1>2. ASSUME NEW r \in Requests, NEW c \in Conversations, NEW l \in Loans \cup {NoLoan},
             NEW routing \in Routings, NEW asked \in BOOLEAN, Open(r, c, l, routing, asked)
      PROVE  ChatInv'
  BY <1>2, OpenKeeps
<1>3. ASSUME NEW r \in Requests, NEW c \in Conversations, Send(r, c) PROVE ChatInv'
  BY <1>3, SendKeeps
<1>4. ASSUME NEW r \in Requests, NEW c \in Conversations, NEW s \in Staff, Assign(r, c, s)
      PROVE  ChatInv'
  BY <1>4, AssignKeeps
<1>5. ASSUME NEW r \in Requests, NEW c \in Conversations, NEW s \in Staff, Reply(r, c, s)
      PROVE  ChatInv'
  BY <1>5, ReplyKeeps
<1>6. ASSUME NEW r \in Requests, NEW c \in Conversations, NEW s \in Staff,
             NEW status \in (Active \ {"open"}) \cup Finished, SetStatus(r, c, s, status)
      PROVE  ChatInv'
  BY <1>6, SetStatusKeeps
<1>7. ASSUME NEW r \in Requests, SaveConversation(r) PROVE ChatInv'
  BY <1>7, SaveConversationKeeps
<1>8. ASSUME NEW r \in Requests, StoreMessage(r) PROVE ChatInv'
  BY <1>8, StoreMessageKeeps
<1>9. ASSUME NEW r \in Requests, StoreRow(r) PROVE ChatInv'
  BY <1>9, StoreRowKeeps
<1>10. ASSUME NEW r \in Requests, Fail(r) PROVE ChatInv'
  BY <1>10, FailKeeps
<1> QED
  BY <1>1, <1>2, <1>3, <1>4, <1>5, <1>6, <1>7, <1>8, <1>9, <1>10 DEF Next, Step

\* What is stored and what every request in flight still has to write stay sound,
\* whatever requests race and whatever writes throw.
THEOREM ChatInvariance == Spec => []ChatInv
  BY ChatStarts, ChatSteps, PTL DEF Spec

\* Every document, message, row and request stays one the schemas allow.
THEOREM ChatTyping == Spec => []TypeOK
<1>1. ChatInv => TypeOK
  BY DEF ChatInv
<1> QED
  BY <1>1, ChatInvariance, PTL

\* An active conversation that has an agent is in a status listAssignedChats shows.
THEOREM NoAgentIsLeftOut == Spec => []AssignedIsListed
<1>1. ChatInv => AssignedIsListed
  BY DEF ChatInv, Stored, AssignedIsListed, Active
<1> QED
  BY <1>1, ChatInvariance, PTL

\* Every staff message is of somebody who was allowed to act on the conversation:
\* an agent it has named, or a manager in scope.
THEOREM RepliesStayAuthorised == Spec => []RepliesAreAuthorised
<1>1. ChatInv => RepliesAreAuthorised
  BY DEF ChatInv, Stored, May, RepliesAreAuthorised
<1> QED
  BY <1>1, ChatInvariance, PTL

\* The stored agent has an assignment row and a finished conversation its status-log
\* row, unless a request still has to write it or a write was lost.
THEOREM StateStaysOnRecord == Spec => []StateIsOnRecord
<1>1. ChatInv => StateIsOnRecord
  BY DEF ChatInv, Stored, StateIsOnRecord
<1> QED
  BY <1>1, ChatInvariance, PTL

\* A finished conversation takes no message from a request that has seen it last.
THEOREM FinishedStaysQuiet == Spec => FreshFinishedTakesNoMessage
<1> DEFINE Quiet == \A c \in Conversations \ stale' :
                      conv[c].status \in Finished => messages'[c] = messages[c]
<1>1. ChatInv /\ [Next]_vars => [Quiet]_vars
  <2> SUFFICES ASSUME ChatInv, Next, NEW c \in Conversations \ stale',
                      conv[c].status \in Finished
               PROVE  messages'[c] = messages[c]
    OBVIOUS
  <2>1. ASSUME NEW r \in Requests, StoreMessage(r) PROVE messages'[c] = messages[c]
    <3>1. PICK q \in Request : q = reqs[r]
      BY <2>1 DEF StoreMessage, ChatInv, TypeOK
    <3>2. /\ q # Idle /\ Head(q.todo).table = "message"
          /\ messages' = [messages EXCEPT ![q.conv] = Append(@, Head(q.todo).about)]
          /\ stale' = IF q.seen = conv[q.conv] THEN stale ELSE stale \cup {q.conv}
      BY <2>1, <3>1 DEF StoreMessage, Touch
    <3>3. CASE q.conv # c
      BY <3>2, <3>3 DEF ChatInv, TypeOK
    <3>4. CASE q.conv = c
      <4>1. q.seen = conv[c] /\ c \notin stale
        BY <3>2, <3>4
      <4>2. Sound(r, q) /\ q.todo \in Seq(Writes)
        BY <3>1 DEF ChatInv, Request
      <4>3. Head(q.todo) \in Writes /\ Head(q.todo) \in Left(q)
        BY <3>2, <4>2, OneLeft DEF Sound, Left
      <4>4. \E x \in Senders : Message(x) \in Left(q)
        BY <3>2, <4>3, WriteFacts
      <4>5. q.seen = NoDoc \/ q.seen.status \in Active
        BY <3>2, <3>4, <4>1, <4>2, <4>4 DEF Sound, Addresses
      <4> QED
        BY <4>1, <4>5, DocFacts
    <3> QED
      BY <3>3, <3>4
  <2>2. (\E r \in Requests : StoreMessage(r)) \/ messages' = messages
    <3>1. ASSUME NEW r \in Requests, NEW c0, NEW n, NEW t, Begin(r, c0, n, t)
          PROVE  messages' = messages
      BY <3>1 DEF Begin
    <3>2. ASSUME NEW r \in Requests, NEW c0 \in Conversations,
                 \/ \E l \in Loans \cup {NoLoan}, routing \in Routings, asked \in BOOLEAN :
                       Open(r, c0, l, routing, asked)
                 \/ Send(r, c0)
                 \/ \E s \in Staff : \/ Assign(r, c0, s) \/ Reply(r, c0, s)
                                     \/ \E status \in (Active \ {"open"}) \cup Finished :
                                           SetStatus(r, c0, s, status)
          PROVE  messages' = messages
      BY <3>1, <3>2, Zenon DEF Open, Send, Assign, Reply, SetStatus
    <3>3. ASSUME NEW r \in Requests, SaveConversation(r) \/ StoreRow(r) \/ Fail(r)
          PROVE  messages' = messages
      BY <3>3 DEF SaveConversation, StoreRow, Fail
    <3> QED
      BY <3>2, <3>3 DEF Next, Step
  <2> QED
    BY <2>1, <2>2
<1>2. Spec => [][Quiet]_vars
  BY <1>1, ChatInvariance, PTL DEF Spec
<1> QED
  BY <1>2 DEF FreshFinishedTakesNoMessage
=============================================================================
