--------------------------- MODULE LocalStoreProofs ---------------------------
(* The store of a server without Supabase: its messages, turns and           *)
(* executions agree across crashes, and it implements TurnContract, for any  *)
(* number of turns, chats, accounts and restarts.                            *)
EXTENDS LocalStore, FilterProofs, FiniteSetTheorems

-----------------------------------------------------------------------------
(* The messages of a chat against the turns.  Questions stand at odd places. *)

Odd(i) == i % 2 = 1
Half(n) == (n + 1) \div 2
Status == Final \cup {"absent", "open", "deleted"}

\* The last question alone may be open; it may have an answer that a crash left.
MessageTold(c, h, turn, i) ==
  LET t == h[i].turn IN
  /\ h[i].role = IF Odd(i) THEN "user" ELSE "assistant"
  /\ ChatOf[t] = c /\ turn[t] \in Final \cup {"open"}
  /\ turn[t] = "open" => i + 1 >= Len(h)
  /\ Odd(i) /\ turn[t] \in Final => i + 1 <= Len(h)
  /\ ~Odd(i) => /\ t = h[i - 1].turn
                /\ turn[t] \in Final => h[i].answer = turn[t]

AskedOnce(h) ==
  \A i, j \in 1 .. Len(h) : Odd(i) /\ Odd(j) /\ h[i].turn = h[j].turn => i = j

\* Every turn of the chat was asked in it.
AllAsked(c, h, turn) ==
  \A t \in Turns : ChatOf[t] = c => \/ turn[t] = "absent"
                                    \/ \E i \in 1 .. Len(h) : Odd(i) /\ h[i].turn = t

Chronicle(c, h, turn) ==
  /\ \A i \in 1 .. Len(h) : MessageTold(c, h, turn, i)
  /\ AskedOnce(h) /\ AllAsked(c, h, turn)

\* A deleted chat has no messages; a turn of any other chat is found by its request.
ChatInv(c) ==
  IF c \in book.chats
  THEN /\ Chronicle(c, book.talk[c], book.turn)
       /\ \A t \in Turns : ChatOf[t] = c /\ book.turn[t] # "absent" => t \in book.named
  ELSE book.talk[c] = <<>>

\* A turn that may still be saved is open, and knows of its stop.
ExecutionInv(t) ==
  /\ book.turn[t] = "absent" => ~exec[t].claimed /\ t \notin stops
  /\ exec[t].claimed /\ ~exec[t].finished =>
       /\ ChatOf[t] \in book.chats => book.turn[t] = "open"
       /\ t \in stops => exec[t].cancelled

LocalInv == TypeOK /\ (\A c \in Chats : ChatInv(c)) /\ (\A t \in Turns : ExecutionInv(t))

-----------------------------------------------------------------------------
(* Places.                                                                   *)

LEMMA Parity ==
  /\ ~Odd(0) /\ Odd(1)
  /\ \A i \in Nat : Odd(i + 1) <=> ~Odd(i)
  /\ \A i \in Nat \ {0} : Odd(i - 1) <=> ~Odd(i)
  /\ \A i \in Nat : ~Odd(i) => i # 1
BY DEF Odd

LEMMA HalfFacts ==
  /\ Half(0) = 0
  /\ \A n \in Nat : Half(n) \in Nat
  /\ \A n \in Nat : Odd(n) => Half(n) > 0 /\ Half(n + 1) = Half(n) /\ 2 * Half(n) - 1 = n
  /\ \A n \in Nat : ~Odd(n) => Half(n + 1) = Half(n) + 1 /\ 2 * (Half(n) + 1) - 1 = n + 1
BY DEF Half, Odd

LEMMA QuestionPlaces ==
  \A n \in Nat : \A i \in 1 .. Half(n) : 2 * i - 1 \in 1 .. n /\ Odd(2 * i - 1)
BY DEF Half, Odd

LEMMA MessageTypes ==
  ASSUME NEW h \in Seq(Message)
  PROVE  /\ Len(h) \in Nat
         /\ \A i \in 1 .. Len(h) :
              /\ h[i] \in Message /\ h[i].turn \in Turns /\ h[i].role \in {"user", "assistant"}
              /\ h[i].role = "user" => h[i] = [role |-> "user", turn |-> h[i].turn]
              /\ h[i].role = "assistant" =>
                   h[i] = [role |-> "assistant", turn |-> h[i].turn, answer |-> h[i].answer]
<1>1. \A i \in 1 .. Len(h) : h[i] \in Message
  OBVIOUS
<1>2. \A m \in Message : /\ m.turn \in Turns /\ m.role \in {"user", "assistant"}
                         /\ m.role = "user" => m = [role |-> "user", turn |-> m.turn]
                         /\ m.role = "assistant" =>
                              m = [role |-> "assistant", turn |-> m.turn, answer |-> m.answer]
  BY DEF Message
<1> QED
  BY <1>1, <1>2

-----------------------------------------------------------------------------
(* What the calls make of a chat's messages.                                 *)

\* Other chats' turns do not matter.
LEMMA ChronicleKept ==
  ASSUME NEW c, NEW h \in Seq(Message), NEW turn, NEW next, Chronicle(c, h, turn),
         \A t \in Turns : ChatOf[t] = c => next[t] = turn[t]
  PROVE  Chronicle(c, h, next)
<1>1. \A i \in 1 .. Len(h) : MessageTold(c, h, next, i)
  BY MessageTypes DEF Chronicle, MessageTold
<1>2. AllAsked(c, h, next)
  BY DEF Chronicle, AllAsked
<1> QED
  BY <1>1, <1>2 DEF Chronicle

\* Without an open turn every question has its answer.
LEMMA NothingPending ==
  ASSUME NEW c, NEW h \in Seq(Message), NEW turn, Chronicle(c, h, turn),
         \A t \in Turns : ChatOf[t] = c => turn[t] # "open"
  PROVE  ~Odd(Len(h))
<1> SUFFICES ASSUME Odd(Len(h))
             PROVE  FALSE
  OBVIOUS
<1>1. Len(h) \in 1 .. Len(h)
  BY MessageTypes, Parity
<1>2. MessageTold(c, h, turn, Len(h)) /\ h[Len(h)].turn \in Turns
  BY <1>1, MessageTypes DEF Chronicle
<1>3. turn[h[Len(h)].turn] \in Final
  BY <1>2 DEF MessageTold
<1> QED
  BY <1>1, <1>2, <1>3, MessageTypes DEF MessageTold

Question(t) == [role |-> "user", turn |-> t]
AnswerOf(t, s) == [role |-> "assistant", turn |-> t, answer |-> s]

LEMMA MessageAppended ==
  ASSUME NEW h \in Seq(Message), NEW m \in Message
  PROVE  /\ Append(h, m) \in Seq(Message) /\ Len(Append(h, m)) = Len(h) + 1 /\ Append(h, m)[Len(h) + 1] = m
         /\ \A i \in 1 .. Len(h) : Append(h, m)[i] = h[i]
OBVIOUS

LEMMA SameSequence ==
  ASSUME NEW S, NEW g \in Seq(S), NEW h \in Seq(S), Len(g) = Len(h), \A i \in 1 .. Len(h) : g[i] = h[i]
  PROVE  g = h
OBVIOUS

LEMMA MessagesMade ==
  ASSUME NEW t \in Turns
  PROVE  /\ Question(t) \in Message /\ Question(t).role = "user" /\ Question(t).turn = t
         /\ \A s \in Final : /\ AnswerOf(t, s) \in Message /\ AnswerOf(t, s).role = "assistant"
                             /\ AnswerOf(t, s).turn = t /\ AnswerOf(t, s).answer = s
BY DEF Question, AnswerOf, Message

LEMMA ChronicleAsks ==
  ASSUME NEW c, NEW h \in Seq(Message), NEW turn \in [Turns -> Status], Chronicle(c, h, turn),
         NEW t \in Turns, ChatOf[t] = c, turn[t] = "absent",
         \A u \in Turns : ChatOf[u] = c => turn[u] # "open"
  PROVE  Chronicle(c, Append(h, Question(t)), [turn EXCEPT ![t] = "open"])
<1> DEFINE g == Append(h, Question(t))
           next == [turn EXCEPT ![t] = "open"]
           n == Len(h)
<1>1. /\ n \in Nat /\ Len(g) = n + 1 /\ g[n + 1].role = "user" /\ g[n + 1].turn = t
      /\ \A i \in 1 .. n : g[i] = h[i] /\ h[i].turn \in Turns
  <2> DEFINE m == Question(t)
  <2>1. m \in Message /\ m.role = "user" /\ m.turn = t
    BY MessagesMade
  <2> HIDE DEF m
  <2>2. /\ Len(Append(h, m)) = n + 1 /\ Append(h, m)[n + 1] = m
        /\ \A i \in 1 .. n : Append(h, m)[i] = h[i]
    BY <2>1, MessageAppended
  <2> QED
    BY <2>1, <2>2, MessageTypes DEF m
<1>2. ~Odd(n) /\ Odd(n + 1)
  BY <1>1, NothingPending, Parity
<1>3. \A u \in Turns : next[u] = IF u = t THEN "open" ELSE turn[u]
  OBVIOUS
<1>4. \A i \in 1 .. n : MessageTold(c, h, turn, i)
  BY DEF Chronicle
<1> HIDE DEF g, next, n
<1>5. ASSUME NEW i \in 1 .. n
      PROVE  h[i].turn # t /\ turn[h[i].turn] \in Final
  BY <1>1, <1>4, <1>5 DEF MessageTold, Final
<1>6. ASSUME NEW i \in 1 .. n
      PROVE  MessageTold(c, g, next, i)
  <2>1. next[g[i].turn] = turn[h[i].turn] /\ next[g[i].turn] \in Final /\ next[g[i].turn] # "open"
    BY <1>1, <1>3, <1>5 DEF Final
  <2>2. ~Odd(i) => i - 1 \in 1 .. n
    BY <1>1, Parity
  <2>3. ~Odd(i) => g[i - 1] = h[i - 1]
    BY <1>1, <2>2
  <2>4. i + 1 <= Len(g)
    BY <1>1
  <2> QED
    BY <1>1, <1>4, <2>1, <2>3, <2>4 DEF MessageTold
<1>7. MessageTold(c, g, next, n + 1)
  BY <1>1, <1>2, <1>3 DEF MessageTold, Final
<1>8. \A i \in 1 .. Len(g) : i \in 1 .. n \/ i = n + 1
  BY <1>1
<1>9. AskedOnce(g)
  <2> SUFFICES ASSUME NEW i \in 1 .. Len(g), NEW j \in 1 .. Len(g), Odd(i), Odd(j), g[i].turn = g[j].turn
               PROVE  i = j
    BY DEF AskedOnce
  <2>1. CASE i \in 1 .. n /\ j \in 1 .. n
    BY <1>1, <2>1 DEF AskedOnce, Chronicle, n
  <2>2. CASE i \in 1 .. n /\ j = n + 1
    BY <1>1, <1>5, <2>2
  <2>3. CASE i = n + 1 /\ j \in 1 .. n
    BY <1>1, <1>5, <2>3
  <2> QED
    BY <1>8, <2>1, <2>2, <2>3
<1>10. AllAsked(c, g, next)
  <2> SUFFICES ASSUME NEW u \in Turns, ChatOf[u] = c, next[u] # "absent"
               PROVE  \E i \in 1 .. Len(g) : Odd(i) /\ g[i].turn = u
    BY DEF AllAsked
  <2>1. CASE u = t
    BY <1>1, <1>2, <2>1
  <2>2. CASE u # t
    <3>1. PICK i \in 1 .. n : Odd(i) /\ h[i].turn = u
      BY <1>3, <2>2 DEF AllAsked, Chronicle, n
    <3> QED
      BY <1>1, <3>1
  <2> QED
    BY <2>1, <2>2
<1> QED
  BY <1>6, <1>7, <1>8, <1>9, <1>10 DEF Chronicle, g, next
Others(t) == {m \in Message : ~(m.role = "assistant" /\ m.turn = t)}
Answered(h, t, s) == Append(Filter(h, Others(t)), AnswerOf(t, s))

\* Where the open turn was asked, and what stands before.
AskedAt(h, turn, t, n) ==
  /\ n \in Nat /\ Odd(n) /\ n <= Len(h) /\ Len(h) <= n + 1
  /\ h[n].turn = t /\ h[n].role = "user"
  /\ \A i \in 1 .. n : i # n => h[i].turn # t /\ turn[h[i].turn] \in Final

LEMMA OpenPlace ==
  ASSUME NEW c, NEW h \in Seq(Message), NEW turn \in [Turns -> Status], Chronicle(c, h, turn),
         NEW t \in Turns, ChatOf[t] = c, turn[t] = "open"
  PROVE  \E n : AskedAt(h, turn, t, n)
<1>1. PICK n \in 1 .. Len(h) : Odd(n) /\ h[n].turn = t
  BY DEF Chronicle, AllAsked
<1>2. \A i \in 1 .. Len(h) : MessageTold(c, h, turn, i) /\ h[i].turn \in Turns
  BY MessageTypes DEF Chronicle
<1>3. /\ Len(h) \in Nat /\ n \in Nat /\ n <= Len(h) /\ Len(h) <= n + 1
      /\ h[n].role = "user"
  BY <1>1, <1>2, MessageTypes DEF MessageTold
<1>4. ASSUME NEW i \in 1 .. n, i # n, Odd(i)
      PROVE  h[i].turn # t /\ turn[h[i].turn] \in Final
  <2>1. i \in 1 .. Len(h) /\ i + 1 # n /\ i + 1 < Len(h)
    <3>1. i \in Nat /\ i \in 1 .. Len(h) /\ i < n /\ n <= Len(h) /\ n \in Nat
      BY <1>3, <1>4
    <3>2. ~Odd(i + 1)
      BY <1>4, <3>1, Parity
    <3>3. i + 1 # n
      BY <1>1, <3>2
    <3> QED
      BY <1>3, <3>1, <3>3
  <2>2. h[i].turn # t
    BY <1>1, <1>4, <2>1 DEF Chronicle, AskedOnce
  <2> QED
    BY <1>2, <1>3, <2>1, <2>2 DEF MessageTold
<1>5. ASSUME NEW i \in 1 .. n, i # n, ~Odd(i)
      PROVE  h[i].turn # t /\ turn[h[i].turn] \in Final
  <2>1. i - 1 \in 1 .. n /\ i - 1 # n /\ Odd(i - 1) /\ i \in 1 .. Len(h)
    <3>1. i \in Nat \ {0} /\ i # 1
      BY <1>5, Parity
    <3>2. Odd(i - 1)
      BY <1>5, <3>1, Parity
    <3> QED
      BY <1>3, <3>1, <3>2
  <2>2. h[i].turn = h[i - 1].turn
    BY <1>2, <1>5, <2>1 DEF MessageTold
  <2> QED
    BY <1>4, <2>1, <2>2
<1> QED
  BY <1>1, <1>3, <1>4, <1>5 DEF AskedAt

\* The answer comes to stand right after its question.
Places(g, h, n, a) ==
  g \in Seq(Message) /\ Len(g) = n + 1 /\ g[n + 1] = a /\ \A i \in 1 .. n : g[i] = h[i]

LEMMA AnswerPlaced ==
  ASSUME NEW c, NEW h \in Seq(Message), NEW turn \in [Turns -> Status], Chronicle(c, h, turn),
         NEW t \in Turns, ChatOf[t] = c, NEW s \in Final,
         NEW n, AskedAt(h, turn, t, n)
  PROVE  Places(Answered(h, t, s), h, n, AnswerOf(t, s))
<1> DEFINE T == Others(t)
           a == AnswerOf(t, s)
<1> USE DEF AskedAt
<1>1. /\ Len(h) \in Nat
      /\ \A i \in 1 .. Len(h) : h[i] \in Message /\ MessageTold(c, h, turn, i)
  BY MessageTypes DEF Chronicle
<1>2. \A i \in 1 .. n : h[i] \in Message /\ (h[i].turn = t => h[i].role = "user")
  BY <1>1
<1>3. \A i \in 1 .. n : h[i] \in T
  BY <1>2 DEF Others
<1>4. a \in Message
  BY MessagesMade
<1> DEFINE f == [i \in 1 .. n |-> h[i]]
<1>5. f \in Seq(Message)
  BY <1>2
<1>6. Len(f) = n /\ \A i \in 1 .. n : f[i] = h[i]
  OBVIOUS
<1>7. f \in Seq(T)
  <2> HIDE DEF T
  <2> QED
    BY <1>3
<1> HIDE DEF f
<1>8. Filter(f, T) = f
  BY <1>7, FilterAll
<1>9. Filter(h, T) = f
  <2>1. CASE Len(h) = n
    <3>1. h = f
      BY <1>5, <1>6, <2>1, SameSequence
    <3> QED
      BY <1>8, <3>1
  <2>2. CASE Len(h) = n + 1
    <3>1. /\ n + 1 \in 1 .. Len(h) /\ ~Odd(n + 1) /\ (n + 1) - 1 = n
      BY <2>2, Parity
    <3>2. h[n + 1] \in Message /\ h[n + 1].role = "assistant" /\ h[n + 1].turn = t
      BY <1>1, <3>1 DEF MessageTold
    <3>3. h[n + 1] \notin T
      BY <3>2 DEF Others
    <3>4. h = Append(f, h[n + 1])
      BY <1>1, <1>6, <2>2, <3>2
    <3> HIDE DEF T
    <3>5. PICK x \in Message : x = h[n + 1]
      BY <3>2
    <3>6. Filter(Append(f, x), T) = f
      BY <1>5, <1>8, <3>3, <3>5, FilterAppend
    <3> QED
      BY <3>4, <3>5, <3>6
  <2> QED
    BY <1>1, <2>1, <2>2
<1>10. Answered(h, t, s) = Append(f, a)
  BY <1>9 DEF Answered
<1> HIDE DEF a
<1>11. /\ Append(f, a) \in Seq(Message) /\ Len(Append(f, a)) = n + 1 /\ Append(f, a)[n + 1] = a
       /\ \A i \in 1 .. n : Append(f, a)[i] = h[i]
  BY <1>4, <1>5, <1>6, MessageAppended
<1> QED
  BY <1>10, <1>11 DEF a, Places
\* A saved answer, its turn still open after a crash between the two writes,
\* or closed under the same status.
LEMMA ChronicleAnswers ==
  ASSUME NEW c, NEW h \in Seq(Message), NEW turn \in [Turns -> Status], Chronicle(c, h, turn),
         NEW t \in Turns, ChatOf[t] = c, turn[t] = "open", NEW s \in Final,
         NEW next, next[t] \in Final \cup {"open"}, next[t] \in Final => next[t] = s,
         \A u \in Turns : u # t => next[u] = turn[u]
  PROVE  Answered(h, t, s) \in Seq(Message) /\ Chronicle(c, Answered(h, t, s), next)
<1> DEFINE g == Answered(h, t, s)
<1>1. PICK n : AskedAt(h, turn, t, n)
  BY OpenPlace
<1>2. g \in Seq(Message) /\ Len(g) = n + 1 /\ g[n + 1] = AnswerOf(t, s) /\ \A i \in 1 .. n : g[i] = h[i]
  <2> HIDE DEF g
  <2>1. Places(g, h, n, AnswerOf(t, s))
    BY <1>1, AnswerPlaced DEF g
  <2> QED
    BY <2>1 DEF Places
<1> HIDE DEF g
<1> USE DEF AskedAt
<1>3. \A i \in 1 .. n : MessageTold(c, h, turn, i) /\ h[i].turn \in Turns
  <2>1. \A i \in 1 .. n : i \in 1 .. Len(h)
    BY <1>1, MessageTypes
  <2> QED
    BY <2>1, MessageTypes DEF Chronicle
<1>4. n \in 1 .. n /\ ~Odd(n + 1) /\ (n + 1) - 1 = n
  <2>1. n # 0
    BY <1>1, Parity
  <2>2. ~Odd(n + 1)
    BY <1>1, Parity
  <2> QED
    BY <1>1, <2>1, <2>2
<1>5. ASSUME NEW i \in 1 .. n
      PROVE  MessageTold(c, g, next, i)
  <2>1. ~Odd(i) => i - 1 \in 1 .. n
    <3>1. i \in Nat \ {0} /\ i <= n
      BY <1>1
    <3>2. ~Odd(i) => i # 1
      BY Parity
    <3> QED
      BY <1>1, <3>1, <3>2
  <2>2. CASE i = n
    BY <1>1, <1>2, <1>3, <2>2 DEF MessageTold
  <2>3. CASE i # n
    <3>1. next[g[i].turn] \in Final /\ next[g[i].turn] = turn[h[i].turn] /\ next[g[i].turn] # "open"
      BY <1>1, <1>2, <1>3, <2>3 DEF Final
    <3>2. ~Odd(i) => g[i - 1] = h[i - 1]
      BY <1>2, <2>1
    <3>3. g[i] = h[i] /\ i + 1 <= Len(g)
      BY <1>1, <1>2
    <3> QED
      BY <1>3, <3>1, <3>2, <3>3 DEF MessageTold
  <2> QED
    BY <2>2, <2>3
<1>6. MessageTold(c, g, next, n + 1)
  <2>1. /\ g[n + 1].role = "assistant" /\ g[n + 1].turn = t /\ g[n + 1].answer = s
        /\ g[(n + 1) - 1].turn = t
    BY <1>1, <1>2, <1>4, MessagesMade
  <2> QED
    BY <1>2, <1>4, <2>1 DEF MessageTold
<1>7. \A i \in 1 .. Len(g) : i \in 1 .. n \/ i = n + 1
  BY <1>1, <1>2
<1>8. AskedOnce(g)
  <2> SUFFICES ASSUME NEW i \in 1 .. Len(g), NEW j \in 1 .. Len(g), Odd(i), Odd(j), g[i].turn = g[j].turn
               PROVE  i = j
    BY DEF AskedOnce
  <2>1. i \in 1 .. n /\ j \in 1 .. n
    BY <1>4, <1>7
  <2>2. i \in 1 .. Len(h) /\ j \in 1 .. Len(h) /\ h[i].turn = h[j].turn
    BY <1>1, <1>2, <2>1, MessageTypes
  <2> QED
    BY <2>2 DEF AskedOnce, Chronicle
<1>9. AllAsked(c, g, next)
  <2> SUFFICES ASSUME NEW u \in Turns, ChatOf[u] = c, next[u] # "absent"
               PROVE  \E i \in 1 .. Len(g) : Odd(i) /\ g[i].turn = u
    BY DEF AllAsked
  <2>1. turn[u] # "absent"
    OBVIOUS
  <2>2. PICK i \in 1 .. Len(h) : Odd(i) /\ h[i].turn = u
    BY <2>1 DEF AllAsked, Chronicle
  <2>3. i \in 1 .. n
    BY <1>1, <1>4, <2>2, MessageTypes
  <2> QED
    BY <1>1, <1>2, <2>2, <2>3
<1> QED
  BY <1>2, <1>5, <1>6, <1>7, <1>8, <1>9 DEF Chronicle, g
-----------------------------------------------------------------------------
(* The calls keep LocalInv.                                                  *)

LEMMA BookTypes ==
  ASSUME TypeOK
  PROVE  /\ book.chats \in SUBSET Chats /\ book.talk \in [Chats -> Seq(Message)]
         /\ book.turn \in [Turns -> Status] /\ book.named \in SUBSET Turns
         /\ DOMAIN book = {"chats", "talk", "turn", "named"}
         /\ exec \in [Turns -> Execution]
BY DEF TypeOK, Status

LEMMA ChatOfTurn ==
  ASSUME NEW t \in Turns
  PROVE  ChatOf[t] \in Chats
BY LocalAssumption DEF LocalAssumption

\* A call that leaves the book alone.
LEMMA BookKept ==
  ASSUME LocalInv, TypeOK', UNCHANGED book, \A t \in Turns : ExecutionInv(t)'
  PROVE  LocalInv'
BY DEF LocalInv, ChatInv

LEMMA ProcessKeeps ==
  ASSUME LocalInv, Start \/ EndLease \/ Crash
  PROVE  LocalInv'
<1>1. TypeOK'
  <2>1. UNCHANGED book /\ lease' \in {"down", "live", "over"} /\ UNCHANGED stops
    BY DEF Start, EndLease, Crash
  <2>2. starts' \in 0 .. MaxStarts
    BY LocalAssumption DEF LocalInv, TypeOK, LocalAssumption, Start, EndLease, Crash
  <2>3. exec' \in [Turns -> Execution]
    <3>1. NoExecution \in Execution
      BY DEF NoExecution, Execution
    <3> QED
      BY <3>1 DEF LocalInv, TypeOK, Start, EndLease, Crash
  <2> QED
    BY <2>1, <2>2, <2>3 DEF LocalInv, TypeOK
<1>2. UNCHANGED book
  BY DEF Start, EndLease, Crash
<1>3. \A t \in Turns : ExecutionInv(t)'
  BY DEF LocalInv, ExecutionInv, Start, EndLease, Crash, NoExecution
<1> QED
  BY <1>1, <1>2, <1>3, BookKept

LEMMA FinishKeeps ==
  ASSUME LocalInv, NEW t \in Turns, FinishTurnExecution(t)
  PROVE  LocalInv'
<1>1. \A u \in Turns : /\ exec'[u] \in Execution /\ exec'[u].claimed = exec[u].claimed
                       /\ exec'[u].cancelled = exec[u].cancelled
                       /\ exec[u].finished => exec'[u].finished
  BY BookTypes DEF LocalInv, FinishTurnExecution, Execution
<1>2. exec' \in [Turns -> Execution]
  BY <1>1, BookTypes DEF LocalInv, FinishTurnExecution
<1>3. TypeOK'
  BY <1>2 DEF LocalInv, TypeOK, FinishTurnExecution
<1>4. \A u \in Turns : ExecutionInv(u)'
  BY <1>1 DEF LocalInv, ExecutionInv, FinishTurnExecution
<1> QED
  BY <1>3, <1>4, BookKept DEF FinishTurnExecution

LEMMA CancelKeeps ==
  ASSUME LocalInv, NEW T \in SUBSET Turns, Cancel(T)
  PROVE  LocalInv'
<1>1. \A u \in Turns : /\ exec'[u] \in Execution /\ exec'[u].claimed = exec[u].claimed
                       /\ exec'[u].finished = exec[u].finished
                       /\ exec'[u].cancelled = (exec[u].cancelled \/ u \in T \cap Unfinished)
  BY BookTypes DEF LocalInv, Cancel, Execution
<1>2. exec' \in [Turns -> Execution]
  BY <1>1 DEF Cancel
<1>3. TypeOK'
  BY <1>2 DEF LocalInv, TypeOK, Cancel
<1>4. \A u \in Turns : ExecutionInv(u)'
  BY <1>1 DEF LocalInv, ExecutionInv, Cancel, Unfinished
<1> QED
  BY <1>3, <1>4, BookKept DEF Cancel
LEMMA ClaimKeeps ==
  ASSUME LocalInv, NEW t \in Turns, ClaimTurn(t)
  PROVE  LocalInv'
<1> DEFINE c == ChatOf[t]
           h == book.talk[c]
           next == [book.turn EXCEPT ![t] = "open"]
<1>1. /\ TypeOK /\ c \in Chats /\ h \in Seq(Message) /\ book.turn \in [Turns -> Status]
      /\ book.turn[t] = "absent" /\ c \in book.chats
      /\ \A u \in Turns : ChatOf[u] = c => book.turn[u] # "open"
  BY BookTypes, ChatOfTurn DEF LocalInv, ClaimTurn, MayClaim
<1>2. /\ book'.chats = book.chats /\ book'.turn = next /\ book'.named = book.named \cup {t}
      /\ book'.talk = [book.talk EXCEPT ![c] = Append(h, Question(t))]
      /\ book' = [chats |-> book.chats, talk |-> book'.talk, turn |-> next, named |-> book'.named]
  BY <1>1 DEF ClaimTurn, Question, TypeOK
<1>3. Append(h, Question(t)) \in Seq(Message)
  BY <1>1, MessagesMade, MessageAppended
<1>4. \A u \in Turns : next[u] = IF u = t THEN "open" ELSE book.turn[u]
  BY <1>1
<1>5. next \in [Turns -> Status]
  BY <1>1 DEF Status
<1> HIDE DEF next, h
<1>6. book' \in [chats : SUBSET Chats, talk : [Chats -> Seq(Message)],
                 turn : [Turns -> Status], named : SUBSET Turns]
  <2>1. book'.talk \in [Chats -> Seq(Message)]
    BY <1>1, <1>2, <1>3, BookTypes
  <2> QED
    BY <1>1, <1>2, <1>5, <2>1, BookTypes
<1>7. \A u \in Turns : exec'[u] \in Execution /\ (u # t => exec'[u] = exec[u])
  BY <1>1, BookTypes DEF ClaimTurn, Execution
<1>8. exec' \in [Turns -> Execution]
  BY <1>1, <1>7, BookTypes DEF ClaimTurn
<1>9. TypeOK'
  BY <1>1, <1>6, <1>8 DEF TypeOK, ClaimTurn, Status
<1>10. ASSUME NEW d \in Chats
       PROVE  ChatInv(d)'
  <2>1. ChatInv(d)
    BY DEF LocalInv
  <2>2. CASE d = c
    <3>1. Chronicle(c, h, book.turn)
      BY <1>1, <2>1, <2>2 DEF ChatInv, h
    <3>2. Chronicle(c, Append(h, Question(t)), next)
      BY <1>1, <3>1, ChronicleAsks DEF next
    <3>3. book'.talk[c] = Append(h, Question(t))
      BY <1>1, <1>2, BookTypes
    <3>4. \A u \in Turns : ChatOf[u] = c /\ next[u] # "absent" => u \in book'.named
      BY <1>1, <1>2, <1>4, <2>1, <2>2 DEF ChatInv
    <3> QED
      BY <1>1, <1>2, <2>2, <3>2, <3>3, <3>4 DEF ChatInv
  <2>3. CASE d # c
    <3>1. book'.talk[d] = book.talk[d] /\ book.talk[d] \in Seq(Message)
      BY <1>1, <1>2, <2>3, BookTypes
    <3>2. \A u \in Turns : ChatOf[u] = d => next[u] = book.turn[u]
      BY <1>4, <2>3
    <3>3. Chronicle(d, book.talk[d], book.turn) => Chronicle(d, book.talk[d], next)
      BY <3>1, <3>2, ChronicleKept
    <3> QED
      BY <1>2, <2>1, <3>1, <3>2, <3>3 DEF ChatInv
  <2> QED
    BY <2>2, <2>3
<1>11. \A u \in Turns : ExecutionInv(u)'
  <2> SUFFICES ASSUME NEW u \in Turns
               PROVE  ExecutionInv(u)'
    OBVIOUS
  <2>1. ExecutionInv(u) /\ UNCHANGED stops
    BY DEF LocalInv, ClaimTurn
  <2> QED
    BY <1>1, <1>2, <1>4, <1>7, <2>1 DEF ExecutionInv
<1> QED
  BY <1>9, <1>10, <1>11 DEF LocalInv

\* A turn that may still be saved is open, but for one of a deleted chat.
LEMMA SaveKeeps ==
  ASSUME LocalInv, NEW t \in Turns, SaveTurn(t)
  PROVE  LocalInv'
<1> DEFINE next == [book.turn EXCEPT ![t] = "open"]
<1>1. /\ TypeOK /\ ChatOf[t] \in Chats /\ book.turn \in [Turns -> Status]
      /\ book.turn[t] # "absent" /\ (ChatOf[t] \in book.chats => book.turn[t] = "open")
  BY BookTypes, ChatOfTurn DEF LocalInv, SaveTurn, Fenced, ExecutionInv
<1>2. /\ book' = [chats |-> book.chats, talk |-> book.talk, turn |-> next, named |-> book.named]
      /\ book'.chats = book.chats /\ book'.talk = book.talk /\ book'.turn = next
      /\ book'.named = book.named
  BY <1>1 DEF SaveTurn, TypeOK
<1>3. \A u \in Turns : next[u] = IF u = t THEN "open" ELSE book.turn[u]
  BY <1>1
<1>4. next \in [Turns -> Status]
  BY <1>1 DEF Status
<1> HIDE DEF next
<1>5. TypeOK'
  BY <1>1, <1>2, <1>4 DEF TypeOK, SaveTurn, Status
<1>6. ASSUME NEW d \in Chats
      PROVE  ChatInv(d)'
  <2>1. ChatInv(d) /\ book.talk[d] \in Seq(Message)
    BY <1>1, BookTypes DEF LocalInv
  <2>2. CASE d \in book.chats
    <3>1. \A u \in Turns : ChatOf[u] = d => next[u] = book.turn[u]
      BY <1>1, <1>3, <2>2
    <3>2. Chronicle(d, book.talk[d], next)
      BY <2>1, <2>2, <3>1, ChronicleKept DEF ChatInv
    <3> QED
      BY <1>2, <2>1, <2>2, <3>1, <3>2 DEF ChatInv
  <2>3. CASE d \notin book.chats
    BY <1>2, <2>1, <2>3 DEF ChatInv
  <2> QED
    BY <2>2, <2>3
<1>7. \A u \in Turns : ExecutionInv(u)'
  <2> SUFFICES ASSUME NEW u \in Turns
               PROVE  ExecutionInv(u)'
    OBVIOUS
  <2>1. ExecutionInv(u) /\ UNCHANGED <<exec, stops>>
    BY DEF LocalInv, SaveTurn
  <2> QED
    BY <1>1, <1>2, <1>3, <2>1 DEF ExecutionInv
<1> QED
  BY <1>5, <1>6, <1>7 DEF LocalInv
\* An answer is saved and the turn closed, or left open by a crash.
LEMMA FinalizeKeeps ==
  ASSUME LocalInv, NEW t \in Turns, book.turn[t] = "open", NEW s \in Final, Finalize(t, s)
  PROVE  LocalInv'
<1> DEFINE c == ChatOf[t]
           h == book.talk[c]
           next == book'.turn
<1>1. /\ TypeOK /\ c \in Chats /\ h \in Seq(Message) /\ book.turn \in [Turns -> Status]
      /\ book.talk \in [Chats -> Seq(Message)] /\ "open" \notin Final
  BY BookTypes, ChatOfTurn DEF LocalInv, Final
<1>2. Answered(h, t, s) = Append(Filter(h, {m \in Message : ~(m.role = "assistant" /\ m.turn = t)}),
                                 [role |-> "assistant", turn |-> t, answer |-> s])
  BY DEF Answered, Others, AnswerOf
<1>3. PICK a \in Seq(Message) : a = IF c \in book.chats THEN Answered(h, t, s) ELSE h
  <2>1. CASE c \in book.chats
    <3>1. Chronicle(c, h, book.turn)
      BY <1>1, <2>1 DEF LocalInv, ChatInv
    <3>2. Answered(h, t, s) \in Seq(Message)
      BY <1>1, <3>1, ChronicleAnswers
    <3> QED
      BY <2>1, <3>2
  <2> QED
    BY <1>1, <2>1
<1>4. AnswerIn(t, s) = [book EXCEPT !.talk[c] = a]
  <2>1. CASE c \in book.chats
    BY <1>2, <1>3, <2>1 DEF AnswerIn
  <2>2. CASE c \notin book.chats
    <3>1. book = [book EXCEPT !.talk[c] = h]
      BY <1>1, BookTypes DEF TypeOK
    <3> QED
      BY <1>3, <2>2, <3>1 DEF AnswerIn
  <2> QED
    BY <2>1, <2>2
<1>5. /\ book'.chats = book.chats /\ book'.named = book.named
      /\ book'.talk = [book.talk EXCEPT ![c] = a]
      /\ next \in {book.turn, [book.turn EXCEPT ![t] = s]}
      /\ book' = [chats |-> book.chats, talk |-> book'.talk, turn |-> next, named |-> book.named]
  <2>1. AnswerIn(t, s) = [chats |-> book.chats, talk |-> [book.talk EXCEPT ![c] = a],
                          turn |-> book.turn, named |-> book.named]
    BY <1>1, <1>4 DEF TypeOK
  <2>2. [AnswerIn(t, s) EXCEPT !.turn[t] = s] =
          [chats |-> book.chats, talk |-> [book.talk EXCEPT ![c] = a],
           turn |-> [book.turn EXCEPT ![t] = s], named |-> book.named]
    BY <2>1
  <2>3. CASE book' = Settled(t, s)
    BY <2>2, <2>3 DEF Settled
  <2>4. CASE book' = AnswerIn(t, s)
    BY <2>1, <2>4
  <2> QED
    BY <2>3, <2>4 DEF Finalize
<1>6. /\ next \in [Turns -> Status] /\ next[t] \in Final \cup {"open"}
      /\ next[t] \in Final => next[t] = s
      /\ \A u \in Turns : u # t => next[u] = book.turn[u]
  <2>1. CASE next = book.turn
    BY <1>1, <2>1
  <2>2. CASE next = [book.turn EXCEPT ![t] = s]
    BY <1>1, <2>2 DEF Status
  <2> QED
    BY <1>5, <2>1, <2>2
<1>7. /\ exec' \in [Turns -> Execution]
      /\ \A u \in Turns : u # t => exec'[u] \in {exec[u], NoExecution}
      /\ ~(exec'[t].claimed /\ ~exec'[t].finished)
      /\ lease' \in {lease, "down"} /\ UNCHANGED <<starts, stops>>
  <2>1. NoExecution \in Execution /\ ~NoExecution.claimed /\ exec[t] \in Execution
    BY <1>1, BookTypes DEF NoExecution, Execution
  <2>2. CASE exec' = [exec EXCEPT ![t].finished = exec[t].claimed] /\ UNCHANGED <<lease, starts, stops>>
    <3>1. exec'[t] \in Execution /\ exec'[t].finished = exec[t].claimed /\ exec'[t].claimed = exec[t].claimed
      BY <1>1, <2>1, <2>2, BookTypes DEF Execution
    <3>2. \A u \in Turns : u # t => exec'[u] = exec[u]
      BY <1>1, <2>2, BookTypes
    <3> QED
      BY <1>1, <2>2, <3>1, <3>2, BookTypes
  <2>3. CASE exec' = [u \in Turns |-> NoExecution] /\ lease' = "down" /\ UNCHANGED <<starts, stops>>
    BY <2>1, <2>3
  <2> QED
    BY <2>2, <2>3 DEF Finalize
<1> HIDE DEF next, h
<1>8. TypeOK'
  <2>1. book'.talk \in [Chats -> Seq(Message)]
    BY <1>1, <1>3, <1>5
  <2>2. book' \in [chats : SUBSET Chats, talk : [Chats -> Seq(Message)],
                   turn : [Turns -> Status], named : SUBSET Turns]
    BY <1>1, <1>5, <1>6, <2>1, BookTypes
  <2> QED
    BY <1>1, <1>7, <2>2 DEF TypeOK, Status
<1>9. ASSUME NEW d \in Chats
      PROVE  ChatInv(d)'
  <2>1. ChatInv(d)
    BY DEF LocalInv
  <2>2. CASE d \notin book.chats
    <3>1. book'.talk[d] = <<>>
      BY <1>1, <1>3, <1>5, <2>1, <2>2 DEF ChatInv, h
    <3> QED
      BY <1>5, <2>2, <3>1 DEF ChatInv
  <2>3. CASE d \in book.chats /\ d = c
    <3>1. Chronicle(c, h, book.turn)
      BY <2>1, <2>3 DEF ChatInv, h
    <3>2. Chronicle(c, Answered(h, t, s), next)
      BY <1>1, <1>6, <3>1, ChronicleAnswers
    <3>3. book'.talk[c] = Answered(h, t, s)
      BY <1>1, <1>3, <1>5, <2>3
    <3>4. \A u \in Turns : ChatOf[u] = c /\ next[u] # "absent" => u \in book.named
      BY <1>6, <2>1, <2>3 DEF ChatInv
    <3> QED
      BY <1>5, <2>3, <3>2, <3>3, <3>4 DEF ChatInv, next
  <2>4. CASE d \in book.chats /\ d # c
    <3>1. book'.talk[d] = book.talk[d] /\ book.talk[d] \in Seq(Message)
      BY <1>1, <1>5, <2>4
    <3>2. \A u \in Turns : ChatOf[u] = d => next[u] = book.turn[u]
      BY <1>6, <2>4
    <3>3. Chronicle(d, book.talk[d], next)
      BY <2>1, <2>4, <3>1, <3>2, ChronicleKept DEF ChatInv
    <3> QED
      BY <1>5, <2>1, <2>4, <3>1, <3>2, <3>3 DEF ChatInv, next
  <2> QED
    BY <2>2, <2>3, <2>4
<1>10. ASSUME NEW u \in Turns
       PROVE  ExecutionInv(u)'
  <2>1. ExecutionInv(u)
    BY DEF LocalInv
  <2>2. CASE u = t
    BY <1>5, <1>6, <1>7, <2>2 DEF ExecutionInv, next, Final
  <2>3. CASE u # t
    BY <1>5, <1>6, <1>7, <2>1, <2>3 DEF ExecutionInv, next, NoExecution
  <2> QED
    BY <2>2, <2>3
<1> QED
  BY <1>8, <1>9, <1>10 DEF LocalInv

LEMMA DeleteKeeps ==
  ASSUME LocalInv, NEW c \in Chats, DeleteChat(c)
  PROVE  LocalInv'
<1> DEFINE next == [t \in Turns |-> IF ChatOf[t] = c /\ Exists(t) THEN "deleted" ELSE book.turn[t]]
<1>1. /\ TypeOK /\ book.turn \in [Turns -> Status] /\ book.talk \in [Chats -> Seq(Message)]
  BY BookTypes DEF LocalInv
<1>2. /\ book'.chats = book.chats \ {c} /\ book'.turn = next
      /\ book'.talk = [book.talk EXCEPT ![c] = <<>>]
      /\ book'.named = {t \in book.named : ChatOf[t] # c}
      /\ book' = [chats |-> book'.chats, talk |-> book'.talk, turn |-> next, named |-> book'.named]
  BY <1>1 DEF DeleteChat, TypeOK
<1>3. \A t \in Turns : /\ next[t] = "absent" <=> book.turn[t] = "absent"
                       /\ ChatOf[t] # c => next[t] = book.turn[t]
  BY DEF Exists
<1>4. next \in [Turns -> Status]
  BY <1>1 DEF Status
<1> HIDE DEF next
<1>5. TypeOK'
  <2>1. book'.talk \in [Chats -> Seq(Message)]
    <3>1. <<>> \in Seq(Message)
      OBVIOUS
    <3> QED
      BY <1>1, <1>2, <3>1
  <2>2. book' \in [chats : SUBSET Chats, talk : [Chats -> Seq(Message)],
                   turn : [Turns -> Status], named : SUBSET Turns]
    BY <1>1, <1>2, <1>4, <2>1, BookTypes
  <2> QED
    BY <1>1, <2>2 DEF TypeOK, Status, DeleteChat
<1>6. ASSUME NEW d \in Chats
      PROVE  ChatInv(d)'
  <2>1. ChatInv(d)
    BY DEF LocalInv
  <2>2. CASE d = c
    BY <1>1, <1>2, <2>2 DEF ChatInv
  <2>3. CASE d # c /\ d \in book.chats
    <3>1. book'.talk[d] = book.talk[d] /\ book.talk[d] \in Seq(Message)
      BY <1>1, <1>2, <2>3
    <3>2. \A u \in Turns : ChatOf[u] = d => next[u] = book.turn[u]
      BY <1>3, <2>3
    <3>3. Chronicle(d, book.talk[d], next)
      BY <2>1, <2>3, <3>1, <3>2, ChronicleKept DEF ChatInv
    <3>4. \A u \in Turns : ChatOf[u] = d /\ next[u] # "absent" => u \in book'.named
      BY <1>2, <2>1, <2>3, <3>2 DEF ChatInv
    <3> QED
      BY <1>2, <2>3, <3>1, <3>3, <3>4 DEF ChatInv
  <2>4. CASE d # c /\ d \notin book.chats
    BY <1>1, <1>2, <2>1, <2>4 DEF ChatInv
  <2> QED
    BY <2>2, <2>3, <2>4
<1>7. ASSUME NEW u \in Turns
      PROVE  ExecutionInv(u)'
  <2>1. ExecutionInv(u) /\ UNCHANGED <<exec, stops>>
    BY DEF LocalInv, DeleteChat
  <2> QED
    BY <1>2, <1>3, <2>1 DEF ExecutionInv
<1> QED
  BY <1>5, <1>6, <1>7 DEF LocalInv

LEMMA StepKeeps == LocalInv /\ [Next]_vars => LocalInv'
<1> SUFFICES ASSUME LocalInv, [Next]_vars
             PROVE  LocalInv'
  OBVIOUS
<1>1. CASE UNCHANGED vars
  BY <1>1 DEF LocalInv, TypeOK, ChatInv, ExecutionInv, vars
<1>2. ASSUME NEW t \in Turns, CancelTurn(t)
      PROVE  LocalInv'
  BY <1>2, CancelKeeps DEF CancelTurn
<1>3. ASSUME NEW o \in Owners, CancelOwnerTurns(o)
      PROVE  LocalInv'
  BY <1>3, CancelKeeps DEF CancelOwnerTurns
<1>4. ASSUME NEW t \in Turns, NEW s \in Final, FinalizeTurn(t, s)
      PROVE  LocalInv'
  <2>1. Outcome(t, s) \in Final
    BY DEF Outcome, Final
  <2> QED
    BY <1>4, <2>1, FinalizeKeeps DEF FinalizeTurn
<1>5. ASSUME NEW t \in Turns, RecoverTurn(t)
      PROVE  LocalInv'
  <2>1. "error" \in Final
    BY DEF Final
  <2> QED
    BY <1>5, <2>1, FinalizeKeeps DEF RecoverTurn
<1> QED
  BY <1>1, <1>2, <1>3, <1>4, <1>5, ProcessKeeps, ClaimKeeps, SaveKeeps, FinishKeeps, DeleteKeeps DEF Next

\* Messages, turns and executions agree in every behaviour of the store.
THEOREM LocalInvHolds == Spec => []LocalInv
<1>1. Init => LocalInv
  <2> SUFFICES ASSUME Init
               PROVE  LocalInv
    OBVIOUS
  <2>1. TypeOK
    <3>1. <<>> \in Seq(Message)
      OBVIOUS
    <3>2. book \in [chats : SUBSET Chats, talk : [Chats -> Seq(Message)],
                    turn : [Turns -> Status], named : SUBSET Turns]
      BY <3>1 DEF Init, Empty, Status
    <3> QED
      BY <3>2, LocalAssumption DEF Init, TypeOK, LocalAssumption, NoExecution, Execution, Status
  <2>2. \A i \in 1 .. Len(<<>>) : FALSE
    OBVIOUS
  <2>3. ASSUME NEW c \in Chats
        PROVE  ChatInv(c)
    BY <2>2 DEF Init, Empty, ChatInv, Chronicle, AskedOnce, AllAsked
  <2>4. ASSUME NEW t \in Turns
        PROVE  ExecutionInv(t)
    BY DEF Init, Empty, NoExecution, ExecutionInv
  <2> QED
    BY <2>1, <2>3, <2>4 DEF LocalInv
<1> QED
  BY <1>1, StepKeeps, PTL DEF Spec
\* The saved conversation tells of every finished turn what the turn itself
\* tells, once and right after its question, for any number of crashes.
THEOREM AnswersMatch == Spec => []AnswersMatchTurns
<1>1. LocalInv => AnswersMatchTurns
  <2> SUFFICES ASSUME LocalInv, NEW c \in book.chats, NEW t \in Turns,
                      ChatOf[t] = c, book.turn[t] \in Final
               PROVE  LET answers == {i \in DOMAIN book.talk[c] :
                            book.talk[c][i].role = "assistant" /\ book.talk[c][i].turn = t} IN
                      /\ Cardinality(answers) = 1
                      /\ \A i \in answers : i > 1 /\ book.talk[c][i].answer = book.turn[t]
                                            /\ book.talk[c][i - 1] = [role |-> "user", turn |-> t]
    BY DEF AnswersMatchTurns
  <2> DEFINE h == book.talk[c]
             answers == {i \in DOMAIN h : h[i].role = "assistant" /\ h[i].turn = t}
  <2>1. c \in Chats /\ h \in Seq(Message) /\ Chronicle(c, h, book.turn)
    BY BookTypes DEF LocalInv, ChatInv
  <2> HIDE DEF h
  <2>2. /\ Len(h) \in Nat /\ DOMAIN h = 1 .. Len(h)
        /\ \A i \in 1 .. Len(h) : MessageTold(c, h, book.turn, i)
    BY <2>1, MessageTypes DEF Chronicle
  <2>3. PICK n \in 1 .. Len(h) : Odd(n) /\ h[n].turn = t
    <3>1. book.turn[t] # "absent"
      BY DEF Final
    <3> QED
      BY <2>1, <3>1 DEF Chronicle, AllAsked
  <2>4. n + 1 \in 1 .. Len(h) /\ ~Odd(n + 1) /\ (n + 1) - 1 = n
    <3>1. n + 1 <= Len(h)
      BY <2>2, <2>3 DEF MessageTold
    <3> QED
      BY <2>2, <2>3, <3>1, Parity
  <2>5. h[n + 1].role = "assistant" /\ h[n + 1].turn = t /\ h[n + 1].answer = book.turn[t]
    BY <2>2, <2>3, <2>4 DEF MessageTold
  <2>6. h[n] = [role |-> "user", turn |-> t]
    <3>1. h[n].role = "user"
      BY <2>2, <2>3 DEF MessageTold
    <3> QED
      BY <2>1, <2>3, <3>1, MessageTypes
  <2>7. ASSUME NEW i \in answers
        PROVE  i = n + 1
    <3>1. i \in 1 .. Len(h) /\ h[i].role = "assistant" /\ h[i].turn = t /\ i \in Nat \ {0}
      BY <2>2
    <3>2. ~Odd(i) /\ h[i - 1].turn = t
      BY <2>2, <3>1 DEF MessageTold
    <3>3. Odd(i - 1) /\ i # 1
      BY <3>1, <3>2, Parity
    <3>4. i - 1 \in 1 .. Len(h)
      BY <2>2, <3>1, <3>3
    <3>5. i - 1 = n
      BY <2>1, <2>3, <3>2, <3>3, <3>4 DEF Chronicle, AskedOnce
    <3> QED
      BY <3>1, <3>5
  <2>8. answers = {n + 1}
    BY <2>2, <2>4, <2>5, <2>7
  <2>9. Cardinality(answers) = 1
    BY <2>8, FS_Singleton
  <2>10. \A i \in answers : i > 1 /\ h[i].answer = book.turn[t] /\ h[i - 1] = [role |-> "user", turn |-> t]
    BY <2>3, <2>4, <2>5, <2>6, <2>8
  <2> QED
    BY <2>9, <2>10 DEF h
<1> QED
  BY <1>1, LocalInvHolds, PTL

-----------------------------------------------------------------------------
(* What users see: the refinement of TurnContract.                           *)

Shown(status) == IF status = "open" THEN "pending" ELSE status

\* x: as many entries as questions, each of a turn of the chat.
Tells(x, c, h, turn) ==
  /\ x \in Seq(Contract!Entry) /\ Len(x) = Half(Len(h)) /\ DOMAIN x = 1 .. Half(Len(h))
  /\ \A i \in 1 .. Half(Len(h)) :
       /\ x[i] = [turn |-> h[2 * i - 1].turn, answer |-> Shown(turn[h[2 * i - 1].turn])]
       /\ h[2 * i - 1].turn \in Turns /\ ChatOf[h[2 * i - 1].turn] = c
       /\ turn[h[2 * i - 1].turn] \in Final \cup {"open"}

LEMMA ToldFacts ==
  ASSUME NEW c, NEW h \in Seq(Message), NEW turn, Chronicle(c, h, turn)
  PROVE  Tells(Told(h, turn), c, h, turn)
<1> DEFINE e(i) == [turn |-> h[2 * i - 1].turn, answer |-> Shown(turn[h[2 * i - 1].turn])]
<1>1. PICK k \in Nat : k = Half(Len(h))
  BY MessageTypes, HalfFacts
<1>2. Told(h, turn) = [i \in 1 .. k |-> e(i)]
  BY <1>1 DEF Told, EntryOf, Half, Shown
<1>3. ASSUME NEW i \in 1 .. k
      PROVE  /\ h[2 * i - 1].turn \in Turns /\ ChatOf[h[2 * i - 1].turn] = c
             /\ turn[h[2 * i - 1].turn] \in Final \cup {"open"}
  <2>1. 2 * i - 1 \in 1 .. Len(h)
    BY <1>1, MessageTypes, QuestionPlaces
  <2> QED
    BY <2>1, MessageTypes DEF Chronicle, MessageTold
<1>4. ASSUME NEW i \in 1 .. k
      PROVE  e(i) \in Contract!Entry
  <2>1. Shown(turn[h[2 * i - 1].turn]) \in Contract!Answers \cup {"pending"}
    BY <1>3 DEF Shown, Final, Contract!Answers
  <2> QED
    BY <1>3, <2>1 DEF Contract!Entry
<1>5. \A i \in 1 .. k : Told(h, turn)[i] = e(i)
  BY <1>2
<1>6. Told(h, turn) \in Seq(Contract!Entry) /\ Len(Told(h, turn)) = k /\ DOMAIN Told(h, turn) = 1 .. k
  <2> HIDE DEF e
  <2> QED
    BY <1>1, <1>2, <1>4
<1> QED
  BY <1>1, <1>3, <1>5, <1>6 DEF Tells

\* Nothing is told but of the chat's own turns.
LEMMA ToldKept ==
  ASSUME NEW c, NEW h \in Seq(Message), NEW turn, Chronicle(c, h, turn), NEW next,
         \A t \in Turns : ChatOf[t] = c => next[t] = turn[t]
  PROVE  Told(h, next) = Told(h, turn)
<1>1. PICK k \in Nat : k = Half(Len(h))
  BY MessageTypes, HalfFacts
<1>2. \A i \in 1 .. k : h[2 * i - 1].turn \in Turns /\ ChatOf[h[2 * i - 1].turn] = c
  BY <1>1, ToldFacts DEF Tells
<1>3. \A i \in 1 .. k : EntryOf(h[2 * i - 1].turn, next) = EntryOf(h[2 * i - 1].turn, turn)
  BY <1>2 DEF EntryOf
<1> QED
  BY <1>1, <1>3 DEF Told, Half
\* Extensionality, entry by entry.
LEMMA ToldIs ==
  ASSUME NEW h, NEW turn, NEW S, NEW x \in Seq(S), Half(Len(h)) = Len(x), Len(h) \in Nat,
         \A i \in 1 .. Len(x) : EntryOf(h[2 * i - 1].turn, turn) = x[i]
  PROVE  Told(h, turn) = x
<1>1. x = [i \in 1 .. Len(x) |-> x[i]]
  OBVIOUS
<1>2. Told(h, turn) = [i \in 1 .. Len(x) |-> EntryOf(h[2 * i - 1].turn, turn)]
  BY DEF Told, Half
<1> QED
  BY <1>1, <1>2

AsksLast(x, y, t) == y = Append(x, [turn |-> t, answer |-> "pending"])

LEMMA ToldAsks ==
  ASSUME NEW c, NEW h \in Seq(Message), NEW turn \in [Turns -> Status], Chronicle(c, h, turn),
         NEW t \in Turns, ChatOf[t] = c, turn[t] = "absent",
         \A u \in Turns : ChatOf[u] = c => turn[u] # "open",
         NEW next, next[t] = "open", \A u \in Turns : u # t => next[u] = turn[u]
  PROVE  AsksLast(Told(h, turn), Told(Append(h, Question(t)), next), t)
<1> DEFINE m == Question(t)
           e == [turn |-> t, answer |-> "pending"]
           x == Told(h, turn)
<1>1. PICK n \in Nat : n = Len(h) /\ ~Odd(n)
  BY NothingPending, MessageTypes
<1>2. PICK k \in Nat : k = Half(n) /\ Half(n + 1) = k + 1 /\ 2 * (k + 1) - 1 = n + 1
  BY <1>1, HalfFacts
<1>3. m \in Message /\ m.turn = t /\ e \in Contract!Entry
  BY MessagesMade DEF Contract!Entry
<1> HIDE DEF m, e, x
<1>4. Len(Append(h, m)) = n + 1 /\ Append(h, m)[n + 1] = m /\ \A i \in 1 .. n : Append(h, m)[i] = h[i]
  BY <1>1, <1>3, MessageAppended
<1>5. /\ x \in Seq(Contract!Entry) /\ Len(x) = k
      /\ \A i \in 1 .. k : /\ x[i] = [turn |-> h[2 * i - 1].turn, answer |-> Shown(turn[h[2 * i - 1].turn])]
                           /\ h[2 * i - 1].turn \in Turns /\ turn[h[2 * i - 1].turn] # "absent"
  <2>1. "absent" \notin Final \cup {"open"}
    BY DEF Final
  <2>2. Half(Len(h)) = k
    BY <1>1, <1>2
  <2>3. Tells(x, c, h, turn)
    BY ToldFacts DEF x
  <2> QED
    BY <2>1, <2>2, <2>3 DEF Tells
<1>6. /\ Append(x, e) \in Seq(Contract!Entry) /\ Len(Append(x, e)) = k + 1 /\ Append(x, e)[k + 1] = e
      /\ \A i \in 1 .. k : Append(x, e)[i] = x[i]
  BY <1>3, <1>5, AppendProperties
<1>7. \A u \in Turns : next[u] = IF u = t THEN "open" ELSE turn[u]
  OBVIOUS
<1>8. ASSUME NEW i \in 1 .. k
      PROVE  EntryOf(Append(h, m)[2 * i - 1].turn, next) = x[i]
  <2>1. 2 * i - 1 \in 1 .. n
    BY <1>2, QuestionPlaces
  <2>2. Append(h, m)[2 * i - 1] = h[2 * i - 1]
    BY <1>4, <2>1
  <2>3. next[h[2 * i - 1].turn] = turn[h[2 * i - 1].turn]
    BY <1>5, <1>7
  <2> QED
    BY <1>5, <2>2, <2>3 DEF EntryOf, Shown
<1>9. EntryOf(Append(h, m)[2 * (k + 1) - 1].turn, next) = e
  BY <1>2, <1>3, <1>4, <1>7 DEF EntryOf, e
<1>10. \A i \in 1 .. k + 1 : EntryOf(Append(h, m)[2 * i - 1].turn, next) = Append(x, e)[i]
  <2>1. \A i \in 1 .. k + 1 : i \in 1 .. k \/ i = k + 1
    OBVIOUS
  <2> QED
    BY <1>6, <1>8, <1>9, <2>1
<1>11. Told(Append(h, m), next) = Append(x, e)
  <2>1. PICK y \in Seq(Contract!Entry) : y = Append(x, e)
    BY <1>6
  <2>2. PICK g : g = Append(h, m)
    OBVIOUS
  <2>3. Len(y) = k + 1 /\ Half(Len(g)) = k + 1 /\ Len(g) \in Nat
    BY <1>2, <1>4, <1>6, <2>1, <2>2
  <2>4. \A i \in 1 .. k + 1 : EntryOf(g[2 * i - 1].turn, next) = y[i]
    BY <1>10, <2>1, <2>2
  <2>5. Told(g, next) = y
    BY <2>3, <2>4, ToldIs
  <2> QED
    BY <2>1, <2>2, <2>5
<1> QED
  BY <1>11 DEF AsksLast, m, e, x

\* An answer in the messages changes nothing that is told before its turn is
\* closed; then it is the answer of the last question.
AnswersLast(x, y, t, status) ==
  /\ Len(x) > 0 /\ x[Len(x)] = [turn |-> t, answer |-> "pending"]
  /\ y = [x EXCEPT ![Len(x)] = [turn |-> t, answer |-> Shown(status)]]

LEMMA ToldAnswers ==
  ASSUME NEW c, NEW h \in Seq(Message), NEW turn \in [Turns -> Status], Chronicle(c, h, turn),
         NEW t \in Turns, ChatOf[t] = c, turn[t] = "open", NEW s \in Final,
         NEW next, next[t] \in Final \cup {"open"},
         \A u \in Turns : u # t => next[u] = turn[u]
  PROVE  AnswersLast(Told(h, turn), Told(Answered(h, t, s), next), t, next[t])
<1> DEFINE g == Answered(h, t, s)
           x == Told(h, turn)
           e == [turn |-> t, answer |-> Shown(next[t])]
<1>1. PICK n : AskedAt(h, turn, t, n)
  BY OpenPlace
<1>2. n \in Nat /\ Odd(n) /\ n <= Len(h) /\ Len(h) <= n + 1 /\ h[n].turn = t
  BY <1>1 DEF AskedAt
<1>3. PICK k \in Nat : k = Half(n) /\ k > 0 /\ Half(n + 1) = k /\ 2 * k - 1 = n
  BY <1>2, HalfFacts
<1>4. Half(Len(h)) = k
  <2>1. Len(h) = n \/ Len(h) = n + 1
    BY <1>2, MessageTypes
  <2> QED
    BY <1>3, <2>1
<1> HIDE DEF g, x, e
<1>5. Len(g) = n + 1 /\ \A i \in 1 .. n : g[i] = h[i]
  <2>1. Places(g, h, n, AnswerOf(t, s))
    BY <1>1, AnswerPlaced DEF g
  <2> QED
    BY <2>1 DEF Places
<1>6. /\ x \in Seq(Contract!Entry) /\ Len(x) = k
      /\ \A i \in 1 .. k : /\ x[i] = [turn |-> h[2 * i - 1].turn, answer |-> Shown(turn[h[2 * i - 1].turn])]
                           /\ h[2 * i - 1].turn \in Turns
  <2>1. Tells(x, c, h, turn)
    BY ToldFacts DEF x
  <2> QED
    BY <1>4, <2>1 DEF Tells
<1>7. k \in 1 .. k /\ x[k] = [turn |-> t, answer |-> "pending"]
  BY <1>2, <1>3, <1>6 DEF Shown
<1>8. e \in Contract!Entry
  BY DEF Contract!Entry, Contract!Answers, Final, Shown, e
<1>9. PICK y \in Seq(Contract!Entry) : y = [x EXCEPT ![k] = e]
  <2>1. [x EXCEPT ![k] = e] \in Seq(Contract!Entry)
    BY <1>6, <1>7, <1>8, ExceptSeq
  <2> QED
    BY <2>1
<1>10. Len(y) = k /\ \A i \in 1 .. k : y[i] = IF i = k THEN e ELSE x[i]
  BY <1>6, <1>7, <1>9
<1>11. ASSUME NEW i \in 1 .. k
       PROVE  EntryOf(g[2 * i - 1].turn, next) = y[i]
  <2>1. 2 * i - 1 \in 1 .. n
    BY <1>2, <1>3, QuestionPlaces
  <2>2. g[2 * i - 1] = h[2 * i - 1]
    BY <1>5, <2>1
  <2>3. CASE i = k
    BY <1>2, <1>3, <1>10, <2>2, <2>3 DEF EntryOf, e, Shown
  <2>4. CASE i # k
    <3>1. 2 * i - 1 # n
      BY <1>3, <2>4
    <3>2. h[2 * i - 1].turn # t
      BY <1>1, <2>1, <3>1 DEF AskedAt
    <3> QED
      BY <1>6, <1>10, <2>2, <2>4, <3>2 DEF EntryOf, Shown
  <2> QED
    BY <2>3, <2>4
<1>12. Told(g, next) = y
  <2>1. Half(Len(g)) = Len(y) /\ Len(g) \in Nat
    BY <1>2, <1>3, <1>5, <1>10
  <2>2. \A i \in 1 .. Len(y) : EntryOf(g[2 * i - 1].turn, next) = y[i]
    BY <1>10, <1>11
  <2> QED
    BY <2>1, <2>2, ToldIs
<1> QED
  BY <1>3, <1>6, <1>7, <1>9, <1>12 DEF AnswersLast, g, x, e
StoppedTurns == {t \in stops : ChatOf[t] \in book.chats}

LEMMA ToldNothing == \A turn : Told(<<>>, turn) = <<>>
<1>1. (Len(<<>>) + 1) \div 2 = 0
  OBVIOUS
<1>2. \A turn : Told(<<>>, turn) = [i \in 1 .. 0 |-> EntryOf(<<>>[2 * i - 1].turn, turn)]
  BY <1>1 DEF Told
<1>3. 1 .. 0 = {}
  OBVIOUS
<1> QED
  BY <1>2, <1>3

LEMMA ChatFacts ==
  ASSUME LocalInv, NEW c \in Chats
  PROVE  /\ book.talk[c] \in Seq(Message)
         /\ c \in book.chats => Chronicle(c, book.talk[c], book.turn)
         /\ c \notin book.chats => book.talk[c] = <<>> /\ Transcript[c] = <<>>
         /\ Transcript[c] = Told(book.talk[c], book.turn)
<1>1. book.talk[c] \in Seq(Message) /\ Transcript[c] = Told(book.talk[c], book.turn)
  BY BookTypes DEF LocalInv, Transcript
<1>2. ChatInv(c)
  BY DEF LocalInv
<1> QED
  BY <1>1, <1>2, ToldNothing DEF ChatInv

LEMMA TranscriptKept ==
  ASSUME LocalInv, NEW c \in Chats, book'.talk[c] = book.talk[c],
         c \in book.chats => \A t \in Turns : ChatOf[t] = c => book'.turn[t] = book.turn[t]
  PROVE  Transcript'[c] = Transcript[c]
<1>1. Transcript'[c] = Told(book.talk[c], book'.turn)
  BY DEF Transcript
<1>2. CASE c \in book.chats
  BY <1>1, <1>2, ChatFacts, ToldKept
<1>3. CASE c \notin book.chats
  BY <1>1, <1>3, ChatFacts, ToldNothing
<1> QED
  BY <1>2, <1>3

LEMMA TranscriptChanges ==
  ASSUME NEW c \in Chats, NEW x, Transcript'[c] = x,
         \A d \in Chats : d # c => Transcript'[d] = Transcript[d]
  PROVE  Transcript' = [Transcript EXCEPT ![c] = x]
BY DEF Transcript

LEMMA TranscriptSame ==
  ASSUME \A c \in Chats : Transcript'[c] = Transcript[c]
  PROVE  Transcript' = Transcript
BY DEF Transcript

\* What an entry tells is what its turn tells.
LEMMA EntryFacts ==
  ASSUME LocalInv, NEW c \in Chats, NEW e \in Contract!Entries(c)
  PROVE  /\ c \in book.chats /\ e.turn \in Turns /\ ChatOf[e.turn] = c
         /\ book.turn[e.turn] \in Final \cup {"open"}
         /\ e.answer = Shown(book.turn[e.turn])
<1>1. PICK i \in DOMAIN Transcript[c] : e = Transcript[c][i]
  BY DEF Contract!Entries
<1>2. c \in book.chats
  <2>1. DOMAIN <<>> = {}
    OBVIOUS
  <2> QED
    BY <1>1, <2>1, ChatFacts
<1>3. Tells(Transcript[c], c, book.talk[c], book.turn)
  BY <1>2, ChatFacts, ToldFacts
<1>4. PICK t : t = book.talk[c][2 * i - 1].turn
  OBVIOUS
<1>5. e = [turn |-> t, answer |-> Shown(book.turn[t])] /\ t \in Turns /\ ChatOf[t] = c
      /\ book.turn[t] \in Final \cup {"open"}
  BY <1>1, <1>3, <1>4 DEF Tells
<1> QED
  BY <1>2, <1>5

LEMMA OpenIsPending ==
  ASSUME LocalInv, NEW t \in Turns, book.turn[t] = "open", ChatOf[t] \in book.chats
  PROVE  t \in Contract!Pending(ChatOf[t])
<1> DEFINE c == ChatOf[t]
           x == Transcript[c]
<1>1. c \in Chats /\ book.turn \in [Turns -> Status] /\ "error" \in Final
  BY ChatOfTurn, BookTypes DEF LocalInv, Final
<1>2. book.talk[c] \in Seq(Message) /\ Chronicle(c, book.talk[c], book.turn) /\ x = Told(book.talk[c], book.turn)
  BY <1>1, ChatFacts
<1> HIDE DEF x
<1>3. Tells(x, c, book.talk[c], book.turn)
  BY <1>2, ToldFacts
<1>4. AnswersLast(x, Told(Answered(book.talk[c], t, "error"), book.turn), t, book.turn[t])
  BY <1>1, <1>2, ToldAnswers
<1>5. Len(x) \in DOMAIN x
  <2>1. x \in Seq(Contract!Entry) /\ Len(x) > 0
    BY <1>3, <1>4 DEF Tells, AnswersLast
  <2> QED
    BY <2>1
<1>6. x[Len(x)] = [turn |-> t, answer |-> "pending"]
  BY <1>4 DEF AnswersLast
<1> QED
  BY <1>5, <1>6 DEF Contract!Pending, Contract!Entries, x

LEMMA Stutters ==
  ASSUME LocalInv, UNCHANGED <<book, stops>>
  PROVE  UNCHANGED Contract!contractVars
BY DEF Contract!contractVars, Transcript

LEMMA ClaimAsks ==
  ASSUME LocalInv, NEW t \in Turns, ClaimTurn(t)
  PROVE  Contract!Ask(t)
<1> DEFINE c == ChatOf[t]
           h == book.talk[c]
           next == [book.turn EXCEPT ![t] = "open"]
           e == [turn |-> t, answer |-> "pending"]
<1>1. /\ TypeOK /\ c \in Chats /\ c \in book.chats /\ Prior(t) = {} /\ book.turn[t] = "absent"
      /\ book.turn \in [Turns -> Status] /\ book.talk \in [Chats -> Seq(Message)]
      /\ \A u \in Turns : ChatOf[u] = c => book.turn[u] # "open"
  BY ChatOfTurn, BookTypes DEF LocalInv, ClaimTurn, MayClaim
<1>2. /\ book'.chats = book.chats /\ book'.turn = next
      /\ book'.talk = [book.talk EXCEPT ![c] = Append(h, Question(t))]
  BY <1>1 DEF ClaimTurn, Question, TypeOK
<1>3. h \in Seq(Message) /\ Chronicle(c, h, book.turn) /\ Transcript[c] = Told(h, book.turn)
  BY <1>1, ChatFacts
<1>4. Contract!Pending(c) = {}
  <2> SUFFICES ASSUME NEW u \in Turns, [turn |-> u, answer |-> "pending"] \in Contract!Entries(c)
               PROVE  FALSE
    BY DEF Contract!Pending
  <2>1. ChatOf[u] = c /\ book.turn[u] \in Final \cup {"open"} /\ "pending" = Shown(book.turn[u])
    BY <1>1, EntryFacts
  <2> QED
    BY <1>1, <2>1 DEF Shown, Final
<1>5. \A u \in Contract!Asked : ~Contract!SameRequest(t, u)
  <2> SUFFICES ASSUME NEW u \in Turns, NEW x \in Contract!Entries(ChatOf[u]), x.turn = u
               PROVE  ~Contract!SameRequest(t, u)
    BY DEF Contract!Asked
  <2>1. ChatOf[u] \in book.chats /\ book.turn[u] \in Final \cup {"open"} /\ ChatOf[u] \in Chats
    BY ChatOfTurn, EntryFacts
  <2>2. Exists(u) /\ book.turn[u] # "absent"
    BY <2>1 DEF Exists, Final
  <2>3. u \in book.named
    BY <2>1, <2>2 DEF LocalInv, ChatInv
  <2> QED
    BY <1>1, <2>2, <2>3 DEF Prior, Owner, Contract!SameRequest
<1>6. Transcript'[c] = Append(Transcript[c], e)
  <2>1. Transcript'[c] = Told(Append(h, Question(t)), next)
    BY <1>1, <1>2 DEF Transcript
  <2>2. next[t] = "open" /\ \A u \in Turns : u # t => next[u] = book.turn[u]
    BY <1>1
  <2> HIDE DEF h, next
  <2> QED
    <3>1. AsksLast(Told(h, book.turn), Told(Append(h, Question(t)), next), t)
      BY <1>1, <1>3, <2>2, ToldAsks
    <3> QED
      BY <1>3, <2>1, <3>1 DEF AsksLast
<1>7. ASSUME NEW d \in Chats, d # c
      PROVE  Transcript'[d] = Transcript[d]
  <2>1. book'.talk[d] = book.talk[d]
    BY <1>1, <1>2, <1>7
  <2>2. \A u \in Turns : ChatOf[u] = d => book'.turn[u] = book.turn[u]
    BY <1>1, <1>2, <1>7
  <2> QED
    BY <2>1, <2>2, TranscriptKept
<1>8. Transcript' = [Transcript EXCEPT ![c] = Append(Transcript[c], e)]
  BY <1>1, <1>6, <1>7, TranscriptChanges
<1>9. UNCHANGED stops
  BY DEF ClaimTurn
<1> QED
  BY <1>1, <1>2, <1>4, <1>5, <1>8, <1>9 DEF Contract!Ask

LEMMA SaveStutters ==
  ASSUME LocalInv, NEW t \in Turns, SaveTurn(t)
  PROVE  UNCHANGED Contract!contractVars
<1>1. /\ TypeOK /\ book.turn \in [Turns -> Status] /\ UNCHANGED stops
      /\ ChatOf[t] \in book.chats => book.turn[t] = "open"
  BY BookTypes DEF LocalInv, SaveTurn, Fenced, ExecutionInv
<1>2. /\ book'.chats = book.chats /\ book'.talk = book.talk
      /\ book'.turn = [book.turn EXCEPT ![t] = "open"]
  BY <1>1 DEF SaveTurn, TypeOK
<1>3. ASSUME NEW c \in Chats
      PROVE  Transcript'[c] = Transcript[c]
  <2>1. c \in book.chats => \A u \in Turns : ChatOf[u] = c => book'.turn[u] = book.turn[u]
    BY <1>1, <1>2
  <2> QED
    BY <1>2, <2>1, TranscriptKept
<1> QED
  BY <1>1, <1>2, <1>3, TranscriptSame DEF Contract!contractVars
\* A closed turn is an answer, unless its chat is gone; one that a crash left
\* open shows nothing.
LEMMA FinalizeAnswers ==
  ASSUME LocalInv, NEW t \in Turns, book.turn[t] = "open", NEW s \in Final, Finalize(t, s),
         t \in stops => s # "complete"
  PROVE  Contract!Answer(t, s) \/ UNCHANGED Contract!contractVars
<1> DEFINE c == ChatOf[t]
           h == book.talk[c]
           x == Transcript[c]
           next == book'.turn
<1>1. /\ TypeOK /\ c \in Chats /\ book.turn \in [Turns -> Status]
      /\ book.talk \in [Chats -> Seq(Message)] /\ "open" \notin Final
  BY ChatOfTurn, BookTypes DEF LocalInv, Final
<1>2. /\ h \in Seq(Message) /\ x = Told(h, book.turn)
      /\ c \in book.chats => Chronicle(c, h, book.turn)
  BY <1>1, ChatFacts
<1>3. UNCHANGED stops
  BY DEF Finalize
<1>4. /\ book'.chats = book.chats
      /\ book'.talk = IF c \in book.chats THEN [book.talk EXCEPT ![c] = Answered(h, t, s)] ELSE book.talk
      /\ next = book.turn \/ next = [book.turn EXCEPT ![t] = s]
  <2>1. /\ AnswerIn(t, s).chats = book.chats /\ AnswerIn(t, s).turn = book.turn
        /\ AnswerIn(t, s).talk = IF c \in book.chats THEN [book.talk EXCEPT ![c] = Answered(h, t, s)] ELSE book.talk
        /\ DOMAIN AnswerIn(t, s) = {"chats", "talk", "turn", "named"}
    BY <1>1, BookTypes DEF AnswerIn, Answered, AnswerOf, Others
  <2>2. /\ Settled(t, s).chats = AnswerIn(t, s).chats /\ Settled(t, s).talk = AnswerIn(t, s).talk
        /\ Settled(t, s).turn = [AnswerIn(t, s).turn EXCEPT ![t] = s]
    BY <2>1 DEF Settled
  <2> QED
    BY <2>1, <2>2 DEF Finalize
<1>5. /\ next[t] = "open" \/ next[t] = s
      /\ \A u \in Turns : u # t => next[u] = book.turn[u]
  BY <1>1, <1>4
<1>6. ASSUME NEW d \in Chats, d # c \/ c \notin book.chats
      PROVE  Transcript'[d] = Transcript[d]
  <2>1. book'.talk[d] = book.talk[d]
    BY <1>1, <1>4, <1>6
  <2>2. d \in book.chats => \A u \in Turns : ChatOf[u] = d => book'.turn[u] = book.turn[u]
    BY <1>5, <1>6
  <2> QED
    BY <2>1, <2>2, TranscriptKept
<1>7. CASE c \notin book.chats
  BY <1>3, <1>4, <1>6, <1>7, TranscriptSame DEF Contract!contractVars
<1>8. CASE c \in book.chats
  <2>1. Transcript'[c] = Told(Answered(h, t, s), next)
    BY <1>1, <1>4, <1>8 DEF Transcript
  <2> HIDE DEF h, next, x
  <2>2. AnswersLast(x, Transcript'[c], t, next[t])
    <3>1. next[t] \in Final \cup {"open"}
      BY <1>5
    <3>2. AnswersLast(Told(h, book.turn), Told(Answered(h, t, s), next), t, next[t])
      BY <1>1, <1>2, <1>5, <1>8, <3>1, ToldAnswers
    <3> QED
      BY <1>2, <2>1, <3>2
  <2>3. Tells(x, c, h, book.turn)
    BY <1>2, <1>8, ToldFacts
  <2>4. CASE next[t] = "open"
    <3>1. Shown(next[t]) = "pending"
      BY <2>4 DEF Shown
    <3>2. Transcript'[c] = [x EXCEPT ![Len(x)] = x[Len(x)]]
      BY <2>2, <3>1 DEF AnswersLast
    <3>3. Transcript'[c] = Transcript[c]
      BY <2>3, <3>2 DEF Tells, x
    <3>4. \A d \in Chats : Transcript'[d] = Transcript[d]
      BY <1>6, <3>3
    <3> QED
      BY <1>3, <1>4, <3>4, TranscriptSame DEF Contract!contractVars
  <2>5. CASE next[t] = s
    <3>1. Shown(next[t]) = s
      BY <1>1, <2>5 DEF Shown
    <3>2. Transcript'[c] = [x EXCEPT ![Len(x)] = [turn |-> t, answer |-> s]]
      BY <2>2, <3>1 DEF AnswersLast
    <3>3. Transcript' = [Transcript EXCEPT ![c] = [x EXCEPT ![Len(x)] = [turn |-> t, answer |-> s]]]
      BY <1>1, <1>6, <3>2, TranscriptChanges
    <3>4. Len(x) > 0 /\ x[Len(x)] = [turn |-> t, answer |-> "pending"]
      BY <2>2 DEF AnswersLast
    <3> QED
      BY <1>3, <1>4, <3>3, <3>4 DEF Contract!Answer, x
  <2> QED
    BY <1>5, <2>4, <2>5
<1> QED
  BY <1>7, <1>8

\* A stop is recorded for turns that are open; those of a deleted chat count
\* for nobody.
LEMMA CancelStops ==
  ASSUME LocalInv, NEW T \in SUBSET Turns, Cancel(T)
  PROVE  \E U \in SUBSET Turns : Contract!Stop(U)
<1> DEFINE U == {t \in T \cap Unfinished : ChatOf[t] \in book.chats}
<1>1. \A t \in U : t \in Contract!Pending(ChatOf[t])
  <2> SUFFICES ASSUME NEW t \in U
               PROVE  t \in Contract!Pending(ChatOf[t])
    OBVIOUS
  <2>1. t \in Turns /\ book.turn[t] = "open"
    BY DEF LocalInv, ExecutionInv, Unfinished
  <2> QED
    BY <2>1, OpenIsPending
<1>2. {t \in stops' : ChatOf[t] \in book'.chats} = StoppedTurns \cup U
  BY DEF Cancel, StoppedTurns
<1>3. Transcript' = Transcript /\ book' = book
  BY DEF Cancel, Transcript
<1>4. PICK V \in SUBSET Turns : V = U
  OBVIOUS
<1> HIDE DEF U
<1>5. Contract!Stop(V)
  BY <1>1, <1>2, <1>3, <1>4 DEF Contract!Stop, StoppedTurns
<1> QED
  BY <1>5

LEMMA DeleteErases ==
  ASSUME LocalInv, NEW c \in Chats, DeleteChat(c)
  PROVE  Contract!Erase(c)
<1>1. TypeOK /\ book.talk \in [Chats -> Seq(Message)] /\ book.chats \in SUBSET Chats
  BY BookTypes DEF LocalInv
<1>2. /\ book'.chats = book.chats \ {c} /\ book'.talk = [book.talk EXCEPT ![c] = <<>>]
      /\ \A t \in Turns : ChatOf[t] # c => book'.turn[t] = book.turn[t]
      /\ UNCHANGED stops
  BY <1>1 DEF DeleteChat, TypeOK
<1>3. Transcript'[c] = <<>>
  <2>1. Transcript'[c] = Told(<<>>, book'.turn)
    BY <1>1, <1>2 DEF Transcript
  <2> QED
    BY <2>1, ToldNothing
<1>4. ASSUME NEW d \in Chats, d # c
      PROVE  Transcript'[d] = Transcript[d]
  <2>1. book'.talk[d] = book.talk[d]
    BY <1>1, <1>2, <1>4
  <2>2. \A t \in Turns : ChatOf[t] = d => book'.turn[t] = book.turn[t]
    BY <1>2, <1>4
  <2> QED
    BY <2>1, <2>2, TranscriptKept
<1>5. Transcript' = [Transcript EXCEPT ![c] = <<>>]
  BY <1>3, <1>4, TranscriptChanges
<1>6. Chats \ book'.chats = (Chats \ book.chats) \cup {c}
  BY <1>1, <1>2
<1>7. {t \in stops' : ChatOf[t] \in book'.chats} = {t \in StoppedTurns : ChatOf[t] # c}
  BY <1>2 DEF StoppedTurns
<1> QED
  BY <1>5, <1>6, <1>7 DEF Contract!Erase, StoppedTurns

LEMMA StepContract ==
  ASSUME LocalInv, [Next]_vars
  PROVE  [Contract!Next]_Contract!contractVars
<1>1. CASE UNCHANGED vars
  BY <1>1, Stutters DEF vars
<1>2. CASE Start \/ EndLease \/ Crash
  BY <1>2, Stutters DEF Start, EndLease, Crash
<1>3. ASSUME NEW t \in Turns, ClaimTurn(t)
      PROVE  [Contract!Next]_Contract!contractVars
  BY <1>3, ClaimAsks DEF Contract!Next
<1>4. ASSUME NEW t \in Turns, FinishTurnExecution(t)
      PROVE  [Contract!Next]_Contract!contractVars
  BY <1>4, Stutters DEF FinishTurnExecution
<1>5. ASSUME NEW T \in SUBSET Turns, Cancel(T)
      PROVE  [Contract!Next]_Contract!contractVars
  BY <1>5, CancelStops DEF Contract!Next
<1>6. ASSUME NEW t \in Turns, NEW s \in Final, book.turn[t] = "open", Finalize(t, s),
             t \in stops => s # "complete"
      PROVE  [Contract!Next]_Contract!contractVars
  <2>1. Final = Contract!Answers
    BY DEF Final, Contract!Answers
  <2> QED
    BY <1>6, <2>1, FinalizeAnswers DEF Contract!Next
<1>7. ASSUME NEW t \in Turns, NEW s \in Final, FinalizeTurn(t, s)
      PROVE  [Contract!Next]_Contract!contractVars
  <2>1. Outcome(t, s) \in Final /\ (exec[t].cancelled => Outcome(t, s) = "aborted")
    BY DEF Outcome, Final
  <2>2. t \in stops => exec[t].cancelled
    BY <1>7 DEF LocalInv, ExecutionInv, FinalizeTurn, Fenced
  <2> QED
    BY <1>6, <1>7, <2>1, <2>2 DEF FinalizeTurn
<1>8. ASSUME NEW t \in Turns, RecoverTurn(t)
      PROVE  [Contract!Next]_Contract!contractVars
  <2>1. "error" \in Final
    BY DEF Final
  <2> QED
    BY <1>6, <1>8, <2>1 DEF RecoverTurn
<1>9. ASSUME NEW t \in Turns, CancelTurn(t)
      PROVE  [Contract!Next]_Contract!contractVars
  BY <1>5, <1>9 DEF CancelTurn
<1>10. ASSUME NEW o \in Owners, CancelOwnerTurns(o)
       PROVE  [Contract!Next]_Contract!contractVars
  BY <1>5, <1>10 DEF CancelOwnerTurns
<1>11. ASSUME NEW c \in Chats, DeleteChat(c)
       PROVE  [Contract!Next]_Contract!contractVars
  BY <1>11, DeleteErases DEF Contract!Next
<1> QED
  BY <1>1, <1>2, <1>3, <1>4, <1>7, <1>8, <1>9, <1>10, <1>11, SaveStutters DEF Next

\* The store of a single process keeps the promises of the Postgres procedures.
THEOREM LocalStoreKeepsContract == Spec => KeepsContract
<1>1. Init => Contract!Init
  <2> SUFFICES ASSUME Init
               PROVE  Contract!Init
    OBVIOUS
  <2>1. \A c \in Chats : Transcript[c] = <<>>
    BY ToldNothing DEF Init, Empty, Transcript
  <2>2. Transcript = [c \in Chats |-> <<>>]
    BY <2>1 DEF Transcript
  <2> QED
    BY <2>2 DEF Init, Empty, Contract!Init
<1>2. LocalInv /\ [Next]_vars => [Contract!Next]_Contract!contractVars
  BY StepContract
<1> QED
  BY <1>1, <1>2, LocalInvHolds, PTL DEF Spec, KeepsContract, Contract!Spec
===============================================================================
