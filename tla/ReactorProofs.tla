---------------------------- MODULE ReactorProofs ----------------------------
(***************************************************************************)
(* Proofs about the kvstore's reactor, for any connections, descriptors,   *)
(* buffer length and amount sent: events are handled for the connection    *)
(* they were raised for, and nothing a client sends is lost, answered      *)
(* twice, out of order or to another client.                               *)
(***************************************************************************)
EXTENDS Reactor, SequencesExt, FiniteSetsExt, FiniteSetTheorems, SequenceTheorems, TLAPS

(* A set of numbers that is not empty has a least member, and Min is it.    *)
LEMMA MinFacts ==
  ASSUME NEW S \in SUBSET Nat, S # {}
  PROVE  Min(S) \in S /\ \A j \in S : Min(S) <= j
<1>1. \E i \in S : \A j \in S : i <= j
  <2> DEFINE R == {ss \in Nat \X Nat : ss[1] < ss[2]}
  <2>1. OpToRel(<, Nat) = R
    BY DEF OpToRel
  <2>2. IsWellFoundedOn(R, Nat)
    BY <2>1, NatLessThanWellFounded
  <2> HIDE DEF R
  <2>3. PICK i \in S : \A j \in S : ~ (<<j, i>> \in R)
    BY <2>2, WFMin
  <2>4. ASSUME NEW j \in S
        PROVE  i <= j
    <3>1. ~ (<<j, i>> \in R)
      BY <2>3
    <3>2. i \in Nat /\ j \in Nat
      OBVIOUS
    <3>3. j < i => <<j, i>> \in R
      BY <3>2 DEF R
    <3>4. QED
      BY <3>1, <3>2, <3>3
  <2>5. QED
    BY <2>4
<1>2. QED
  BY <1>1 DEF Min

(* Adding at the tail.                                                      *)
LEMMA AppendFacts ==
  ASSUME NEW T, NEW s \in Seq(T), NEW x \in T
  PROVE  /\ Append(s, x) \in Seq(T) /\ Len(Append(s, x)) = Len(s) + 1
         /\ ToSet(Append(s, x)) = ToSet(s) \cup {x}
         /\ IsInjective(s) /\ x \notin ToSet(s) => IsInjective(Append(s, x))
<1> DEFINE c == Append(s, x)
<1>1. c \in Seq(T) /\ Len(c) = Len(s) + 1 /\ Len(s) \in Nat
  OBVIOUS
<1>2. c[Len(s) + 1] = x /\ \A i \in 1 .. Len(s) : c[i] = s[i]
  OBVIOUS
<1>3. DOMAIN c = 1 .. Len(s) + 1 /\ DOMAIN s = 1 .. Len(s)
  BY <1>1
<1> HIDE DEF c
<1>4. \A i \in 1 .. Len(s) + 1 : i \in 1 .. Len(s) \/ i = Len(s) + 1
  BY <1>1
<1>5. ToSet(c) = ToSet(s) \cup {x}
  <2>1. ASSUME NEW y \in ToSet(c) PROVE y \in {x} \cup ToSet(s)
    BY <1>1, <1>2, <1>3, <1>4 DEF ToSet
  <2>2. x \in ToSet(c)
    BY <1>1, <1>2, <1>3, Len(s) + 1 \in 1 .. Len(s) + 1 DEF ToSet
  <2>3. ASSUME NEW i \in 1 .. Len(s) PROVE s[i] \in ToSet(c)
    BY <1>1, <1>2, <1>3, i \in 1 .. Len(s) + 1 DEF ToSet
  <2>4. QED
    BY <2>1, <2>2, <2>3, <1>3 DEF ToSet
<1>6. ASSUME IsInjective(s), x \notin ToSet(s) PROVE IsInjective(c)
  BY <1>2, <1>3, <1>4, <1>6 DEF ToSet, IsInjective
<1>7. QED
  BY <1>1, <1>5, <1>6 DEF c

(* Taking the head.                                                         *)
LEMMA TailFacts ==
  ASSUME NEW T, NEW s \in Seq(T), s # <<>>
  PROVE  /\ Tail(s) \in Seq(T) /\ Head(s) \in T /\ Len(Tail(s)) = Len(s) - 1
         /\ ToSet(s) = {Head(s)} \cup ToSet(Tail(s))
         /\ IsInjective(s) => IsInjective(Tail(s)) /\ Head(s) \notin ToSet(Tail(s))
<1> DEFINE c == Tail(s)
<1>1. c \in Seq(T) /\ Len(c) = Len(s) - 1 /\ Len(s) \in Nat \ {0} /\ Head(s) = s[1]
  OBVIOUS
<1>2. \A i \in 1 .. Len(s) - 1 : c[i] = s[i + 1]
  OBVIOUS
<1>3. DOMAIN c = 1 .. Len(s) - 1 /\ DOMAIN s = 1 .. Len(s)
  BY <1>1
<1>4. s[1] \in T
  BY <1>1
<1> HIDE DEF c
<1>5. \A i \in 1 .. Len(s) : i = 1 \/ (i - 1 \in 1 .. Len(s) - 1 /\ c[i - 1] = s[i])
  BY <1>1, <1>2
<1>6. ToSet(s) = {Head(s)} \cup ToSet(c)
  <2>1. ASSUME NEW i \in 1 .. Len(s) PROVE s[i] \in {Head(s)} \cup ToSet(c)
    BY <1>1, <1>3, <1>5 DEF ToSet
  <2>2. s[1] \in ToSet(s)
    BY <1>1, <1>3 DEF ToSet
  <2>3. ASSUME NEW i \in 1 .. Len(s) - 1 PROVE c[i] \in ToSet(s)
    BY <1>1, <1>2, <1>3, i + 1 \in 1 .. Len(s) DEF ToSet
  <2>4. QED
    BY <1>1, <2>1, <2>2, <2>3, <1>3 DEF ToSet
<1>7. ASSUME IsInjective(s) PROVE IsInjective(c) /\ Head(s) \notin ToSet(c)
  <2>1. \A k, l \in 1 .. Len(s) : s[k] = s[l] => k = l
    BY <1>3, <1>7 DEF IsInjective
  <2>2. \A i \in 1 .. Len(s) - 1 : i + 1 \in 1 .. Len(s) /\ i + 1 # 1
    BY <1>1
  <2>3. ASSUME NEW i \in 1 .. Len(s) - 1, NEW j \in 1 .. Len(s) - 1, c[i] = c[j]
        PROVE  i = j
    BY <1>1, <1>2, <2>1, <2>2, <2>3, i + 1 = j + 1
  <2>4. \A i \in 1 .. Len(s) - 1 : c[i] # s[1]
    BY <1>1, <1>2, <2>1, <2>2
  <2>5. QED
    BY <1>1, <1>3, <2>3, <2>4 DEF IsInjective, ToSet
<1>8. QED
  BY <1>1, <1>4, <1>6, <1>7 DEF c

(* The concatenation of the first n members of a list of lists, as a        *)
(* function of n: what FlattenSeq defines by recursion.                     *)
IsFlatten(f, s, n) ==
  f = [i \in 1 .. n |-> IF i = 1 THEN s[i] ELSE f[i - 1] \o s[i]]

(* The recursion has a solution.                                            *)
LEMMA FlattenExists ==
  ASSUME NEW s, NEW n \in Nat
  PROVE  \E f : IsFlatten(f, s, n)
<1> DEFINE Bad == {m \in Nat : ~\E f : IsFlatten(f, s, m)}
           m == Min(Bad)
<1>1. SUFFICES ASSUME Bad # {}
               PROVE  FALSE
  OBVIOUS
<1>2. m \in Bad /\ \A j \in Bad : m <= j
  BY <1>1, MinFacts
<1> HIDE DEF m
<1>3. m \in Nat
  BY <1>2
<1>4. m # 0
  <2>1. IsFlatten(<<>>, s, 0)
    BY DEF IsFlatten
  <2>2. QED
    BY <1>2, <2>1
<1>5. m - 1 \in Nat /\ ~(m <= m - 1)
  BY <1>3, <1>4
<1>6. PICK f : IsFlatten(f, s, m - 1)
  BY <1>2, <1>5
<1> DEFINE g == [i \in 1 .. m |-> IF i = 1 THEN s[i] ELSE f[i - 1] \o s[i]]
<1>7. \A i \in 1 .. m - 1 : g[i] = f[i]
  <2>1. \A i \in 1 .. m - 1 : i \in 1 .. m
    BY <1>3
  <2>2. \A i \in 1 .. m - 1 : f[i] = IF i = 1 THEN s[i] ELSE f[i - 1] \o s[i]
    BY <1>6 DEF IsFlatten
  <2>3. QED
    BY <2>1, <2>2
<1>8. \A i \in 1 .. m : i # 1 => i - 1 \in 1 .. m - 1
  BY <1>3
<1>9. \A i \in 1 .. m : g[i] = IF i = 1 THEN s[i] ELSE g[i - 1] \o s[i]
  BY <1>7, <1>8
<1>10. g = [i \in 1 .. m |-> g[i]]
  OBVIOUS
<1> HIDE DEF g
<1>11. g = [i \in 1 .. m |-> IF i = 1 THEN s[i] ELSE g[i - 1] \o s[i]]
  BY <1>9, <1>10
<1>12. QED
  BY <1>2, <1>11 DEF IsFlatten

(* What the recursion says of one place.                                    *)
LEMMA FlattenStep ==
  ASSUME NEW s, NEW f, NEW n \in Nat, IsFlatten(f, s, n), NEW i \in 1 .. n
  PROVE  f[i] = IF i = 1 THEN s[i] ELSE f[i - 1] \o s[i]
BY DEF IsFlatten

(* t is s and one member more.                                              *)
Longer(t, s) == Len(t) = Len(s) + 1 /\ \A i \in 1 .. Len(s) : t[i] = s[i]

(* It is the only one, and a longer list has the same up to there.          *)
LEMMA FlattenUnique ==
  ASSUME NEW s, NEW t, NEW f, NEW g, Len(s) \in Nat, Longer(t, s),
         IsFlatten(f, s, Len(s)), IsFlatten(g, t, Len(t))
  PROVE  \A i \in 1 .. Len(s) : f[i] = g[i]
<1> DEFINE n == Len(s)
           Bad == {i \in 1 .. n : f[i] # g[i]}
           m == Min(Bad)
<1>1. SUFFICES ASSUME Bad # {}
               PROVE  FALSE
  OBVIOUS
<1>2. n \in Nat /\ Len(t) \in Nat /\ Len(t) = n + 1
  BY DEF Longer
<1>3. m \in Bad /\ \A j \in Bad : m <= j
  <2>1. Bad \in SUBSET Nat
    BY <1>2
  <2>2. QED
    BY <1>1, <2>1, MinFacts
<1> HIDE DEF m
<1>4. m \in 1 .. n /\ m \in 1 .. Len(t) /\ f[m] # g[m]
  BY <1>2, <1>3
<1>5. f[m] = IF m = 1 THEN s[m] ELSE f[m - 1] \o s[m]
  BY <1>2, <1>4, FlattenStep
<1>6. g[m] = IF m = 1 THEN t[m] ELSE g[m - 1] \o t[m]
  BY <1>2, <1>4, FlattenStep
<1>7. s[m] = t[m]
  BY <1>4 DEF Longer
<1>8. m # 1
  BY <1>4, <1>5, <1>6, <1>7
<1>9. m - 1 \in 1 .. n /\ ~(m <= m - 1)
  BY <1>2, <1>4, <1>8
<1>10. f[m - 1] = g[m - 1]
  BY <1>3, <1>9
<1>11. QED
  BY <1>4, <1>5, <1>6, <1>7, <1>8, <1>10

(* What FlattenSeq is for a list that is not empty.                         *)
LEMMA FlattenIs ==
  ASSUME NEW T, NEW s \in Seq(T), s # <<>>
  PROVE  \E f : IsFlatten(f, s, Len(s)) /\ FlattenSeq(s) = f[Len(s)]
<1> DEFINE f == CHOOSE f : f = [i \in 1 .. Len(s) |-> IF i = 1 THEN s[i] ELSE f[i - 1] \o s[i]]
<1>1. Len(s) \in Nat /\ Len(s) # 0
  OBVIOUS
<1>2. \E g : g = [i \in 1 .. Len(s) |-> IF i = 1 THEN s[i] ELSE g[i - 1] \o s[i]]
  BY <1>1, FlattenExists DEF IsFlatten
<1>3. f = [i \in 1 .. Len(s) |-> IF i = 1 THEN s[i] ELSE f[i - 1] \o s[i]]
  BY <1>2
<1>4. FlattenSeq(s) = f[Len(s)]
  BY <1>1 DEF FlattenSeq
<1>5. QED
  BY <1>3, <1>4 DEF IsFlatten

(* One list more: its members follow.                                       *)
LEMMA FlattenAppend ==
  ASSUME NEW T, NEW s \in Seq(Seq(T)), NEW x \in Seq(T)
  PROVE  FlattenSeq(Append(s, x)) = FlattenSeq(s) \o x
<1> DEFINE c == Append(s, x)
<1>1. c \in Seq(Seq(T)) /\ Len(c) = Len(s) + 1 /\ Len(s) \in Nat /\ c # <<>>
  <2>1. c \in Seq(Seq(T)) /\ Len(c) = Len(s) + 1 /\ Len(s) \in Nat
    BY AppendProperties
  <2>2. ASSUME c = <<>> PROVE FALSE
    <3>1. Len(c) = 0
      BY <2>2
    <3>2. QED
      BY <2>1, <3>1
  <2>3. QED
    BY <2>1, <2>2
<1>2. c[Len(s) + 1] = x /\ \A i \in 1 .. Len(s) : c[i] = s[i]
  OBVIOUS
<1> HIDE DEF c
<1>3. PICK g : IsFlatten(g, c, Len(c)) /\ FlattenSeq(c) = g[Len(c)]
  BY <1>1, FlattenIs
<1>4. g[Len(s) + 1] = IF Len(s) + 1 = 1 THEN x ELSE g[Len(s) + 1 - 1] \o x
  <2>1. Len(s) + 1 \in 1 .. Len(c)
    BY <1>1
  <2>2. g[Len(s) + 1] = IF Len(s) + 1 = 1 THEN c[Len(s) + 1]
                        ELSE g[Len(s) + 1 - 1] \o c[Len(s) + 1]
    BY <1>1, <1>3, <2>1, FlattenStep
  <2>3. QED
    BY <1>2, <2>2
<1>5. CASE s = <<>>
  <2>1. FlattenSeq(s) = <<>>
    BY <1>5 DEF FlattenSeq
  <2>2. FlattenSeq(c) = x
    BY <1>1, <1>3, <1>4, <1>5
  <2>3. QED
    BY <2>1, <2>2 DEF c
<1>6. CASE s # <<>>
  <2>1. PICK f : IsFlatten(f, s, Len(s)) /\ FlattenSeq(s) = f[Len(s)]
    BY <1>6, FlattenIs
  <2>2. \A i \in 1 .. Len(s) : f[i] = g[i]
    <3>1. Len(s) \in Nat
      BY <1>1
    <3>2. Longer(c, s)
      BY <1>1, <1>2 DEF Longer
    <3>3. IsFlatten(f, s, Len(s)) /\ IsFlatten(g, c, Len(c))
      BY <1>3, <2>1
    <3>4. QED
      BY <3>1, <3>2, <3>3, FlattenUnique
  <2>3. Len(s) \in 1 .. Len(s) /\ Len(s) + 1 # 1 /\ Len(s) + 1 - 1 = Len(s)
    BY <1>1, <1>6
  <2>4. FlattenSeq(c) = g[Len(s)] \o x
    BY <1>1, <1>3, <1>4, <2>3
  <2>5. QED
    BY <2>1, <2>2, <2>3, <2>4 DEF c
<1>7. QED
  BY <1>5, <1>6

------------------------------------------------------------------------------
(* A connection is in one place: in the backlog once, or behind one         *)
(* descriptor, and a descriptor is registered exactly while it is open.     *)
Places ==
  /\ IsInjective(backlog)
  /\ \A fd \in Fd : file[fd] \notin ToSet(backlog)
  /\ \A fd, g \in Fd : file[fd] = file[g] /\ file[fd] # NULL => fd = g
  /\ \A fd \in Fd : interest[fd] = "none" <=> file[fd] = NULL

(* What epoll_wait reported is still so, and it reported each descriptor    *)
(* once: no callback disturbs what another descriptor's event says.         *)
EventsTrue ==
  /\ \A i \in 1 .. Len(events) :
       events[i].fd \in Fd =>
         /\ file[events[i].fd] = events[i].conn
         /\ interest[events[i].fd] = events[i].event
         /\ events[i].event = "IN" => Readable(events[i].fd)
  /\ \A i \in 1 .. Len(events) : events[i].fd = listenfd => backlog # <<>>
  /\ \A i, j \in 1 .. Len(events) : events[i].fd = events[j].fd => i = j

(* A connection leaves the server only after its client has closed it.      *)
Untouched ==
  \A c \in Conn : c \notin Connected /\ c \notin fin =>
    sent[c] = 0 /\ stream[c] = <<>> /\ got[c] = <<>>

(* Bytes and replies are their connection's own; a slot that is given to a  *)
(* connection has nothing left of the one before.                           *)
Owned ==
  /\ \A c \in Conn : stream[c] \in Seq(PieceOf(c)) /\ got[c] \in Seq(Seq(PieceOf(c)))
  /\ \A fd \in Fd : file[fd] # NULL => wbuffer[fd] \in Seq(PieceOf(file[fd]))

Answered(c) == FlattenSeq(got[c])

Flow ==
  /\ \A c \in Conn : Answered(c) \in Seq(Piece)
  /\ \A c \in Connected :
       Answered(c) \o Pending(c) \o stream[c] = [i \in 1 .. sent[c] |-> <<c, i>>]

IInv == TypeOK /\ Owned /\ (up => Places /\ EventsTrue /\ Untouched /\ Flow)

------------------------------------------------------------------------------
EventRecord == [fd : Fd \cup {listenfd}, event : {"IN", "OUT"}, conn : Conn \cup {NULL}]

(* The listener's descriptor is not a client's.                             *)
LEMMA ListenerApart == listenfd \notin Fd /\ Fd \subseteq Nat
BY DEF listenfd, Fd

(* What is buffered for a connection is the reply of the descriptor that is *)
(* registered for writing, if there is one.                                 *)
PendingTrue ==
  \A c \in Conn :
    /\ \A fd \in Fd : file[fd] = c /\ interest[fd] = "OUT" => Pending(c) = wbuffer[fd]
    /\ (\A fd \in Fd : file[fd] = c => interest[fd] # "OUT") => Pending(c) = <<>>

(* Pending is well defined, because no two descriptors share a connection.  *)
LEMMA PendingFacts == Places => PendingTrue
<1>1. SUFFICES ASSUME Places, NEW c \in Conn
               PROVE  /\ \A fd \in Fd : file[fd] = c /\ interest[fd] = "OUT" => Pending(c) = wbuffer[fd]
                      /\ (\A fd \in Fd : file[fd] = c => interest[fd] # "OUT") => Pending(c) = <<>>
  BY DEF PendingTrue
<1>2. c # NULL
  BY ConstantAssumption
<1>3. ASSUME NEW fd \in Fd, file[fd] = c, interest[fd] = "OUT"
      PROVE  Pending(c) = wbuffer[fd]
  <2>1. Answering(c) = {fd}
    BY <1>1, <1>2, <1>3 DEF Answering, Places
  <2>2. (CHOOSE g \in Answering(c) : TRUE) = fd
    BY <2>1
  <2>3. QED
    BY <2>1, <2>2 DEF Pending
<1>4. ASSUME \A fd \in Fd : file[fd] = c => interest[fd] # "OUT"
      PROVE  Pending(c) = <<>>
  BY <1>4 DEF Pending, Answering
<1>5. QED
  BY <1>3, <1>4

(* A connection whose descriptor is not touched has the same reply pending. *)
LEMMA PendingSame ==
  ASSUME Places, Places', NEW c \in Conn,
         \A fd \in Fd : (file[fd] = c /\ interest[fd] = "OUT")
                          <=> (file'[fd] = c /\ interest'[fd] = "OUT"),
         \A fd \in Fd : file[fd] = c /\ interest[fd] = "OUT" => wbuffer'[fd] = wbuffer[fd]
  PROVE  Pending(c)' = Pending(c)
<1>1. PendingTrue
  BY PendingFacts
<1>2. PendingTrue'
  BY PendingFacts, PTL
<1>3. CASE \E fd \in Fd : file[fd] = c /\ interest[fd] = "OUT"
  <2>1. PICK fd \in Fd : file[fd] = c /\ interest[fd] = "OUT"
    BY <1>3
  <2>2. Pending(c) = wbuffer[fd]
    BY <1>1, <2>1 DEF PendingTrue
  <2>3. Pending(c)' = wbuffer'[fd]
    BY <1>2, <2>1 DEF PendingTrue
  <2>4. QED
    BY <2>1, <2>2, <2>3
<1>4. CASE ~\E fd \in Fd : file[fd] = c /\ interest[fd] = "OUT"
  <2>1. Pending(c) = <<>>
    BY <1>1, <1>4 DEF PendingTrue
  <2>2. Pending(c)' = <<>>
    BY <1>2, <1>4 DEF PendingTrue
  <2>3. QED
    BY <2>1, <2>2
<1>5. QED
  BY <1>3, <1>4

(* A pending reply is made of pieces.                                       *)
LEMMA PendingType ==
  ASSUME TypeOK, Places, NEW c \in Conn
  PROVE  Pending(c) \in Seq(Piece)
<1>1. PendingTrue
  BY PendingFacts
<1>2. CASE \E fd \in Fd : file[fd] = c /\ interest[fd] = "OUT"
  <2>1. PICK fd \in Fd : file[fd] = c /\ interest[fd] = "OUT"
    BY <1>2
  <2>2. Pending(c) = wbuffer[fd]
    BY <1>1, <2>1 DEF PendingTrue
  <2>3. QED
    BY <2>2 DEF TypeOK, Message
<1>3. CASE ~\E fd \in Fd : file[fd] = c /\ interest[fd] = "OUT"
  <2>1. Pending(c) = <<>>
    BY <1>1, <1>3 DEF PendingTrue
  <2>2. QED
    BY <2>1
<1>4. QED
  BY <1>2, <1>3

(* Whom the server knows.                                                   *)
LEMMA ConnectedIs ==
  ASSUME NEW c \in Conn
  PROVE  c \in Connected <=> c \in ToSet(backlog) \/ \E fd \in Fd : file[fd] = c
<1>1. c # NULL
  BY ConstantAssumption
<1>2. QED
  BY <1>1 DEF Connected

(* The server knows only connections.                                       *)
LEMMA ConnectedType ==
  ASSUME TypeOK
  PROVE  Connected \subseteq Conn
<1>1. ToSet(backlog) \subseteq Conn
  BY DEF TypeOK, ToSet
<1>2. {file[fd] : fd \in {g \in Fd : file[g] # NULL}} \subseteq Conn
  BY DEF TypeOK
<1>3. QED
  BY <1>1, <1>2 DEF Connected

------------------------------------------------------------------------------
(* The invariant holds when the server starts.                              *)
LEMMA InitIInv == Init => IInv
<1>1. SUFFICES ASSUME Init
               PROVE  IInv
  OBVIOUS
<1>2. TypeOK
  <2>1. <<>> \in Message
    BY ConstantAssumption DEF Message
  <2>2. \A c \in Conn : 0 <= MaxSend[c]
    BY ConstantAssumption
  <2>3. <<>> \in Seq(Conn) /\ <<>> \in Seq(Piece) /\ <<>> \in Seq(Message) /\ <<>> \in Seq(EventRecord)
    OBVIOUS
  <2>4. QED
    BY <1>1, <2>1, <2>2, <2>3 DEF Init, TypeOK, EventRecord
<1>3. Owned
  BY <1>1 DEF Init, Owned
<1>4. Places
  <2>1. IsInjective(backlog) /\ ToSet(backlog) = {}
    BY <1>1 DEF Init, IsInjective, ToSet
  <2>2. QED
    BY <1>1, <2>1 DEF Init, Places
<1>5. EventsTrue
  <2>1. 1 .. Len(events) = {}
    BY <1>1 DEF Init
  <2>2. QED
    BY <2>1 DEF EventsTrue
<1>6. Untouched
  BY <1>1 DEF Init, Untouched
<1>7. Flow
  <2>1. ASSUME NEW c \in Conn
        PROVE  Answered(c) = <<>>
    BY <1>1 DEF Init, Answered, FlattenSeq
  <2>2. ASSUME NEW c \in Connected
        PROVE  FALSE
    BY <1>1 DEF Init, Connected, ToSet
  <2>3. \A c \in Conn : Answered(c) \in Seq(Piece)
    BY <2>1, <<>> \in Seq(Piece)
  <2>4. QED
    BY <2>2, <2>3 DEF Flow
<1>8. QED
  BY <1>2, <1>3, <1>4, <1>5, <1>6, <1>7 DEF IInv

------------------------------------------------------------------------------
(* A client connects.                                                       *)
LEMMA ConnectKeeps ==
  ASSUME IInv, up, NEW c \in Conn, Connect(c)
  PROVE  IInv'
<1>1. /\ TypeOK /\ Owned /\ Places /\ EventsTrue /\ Untouched /\ Flow
  BY DEF IInv
<1>2. backlog' = Append(backlog, c) /\ c \notin ToSet(backlog) /\ \A fd \in Fd : file[fd] # c
  BY ConnectedIs DEF Connect, Fresh
<1>3. UNCHANGED <<file, interest, stream, fin, rst, sent, got, events, wbuffer, up>>
  BY DEF Connect, clients
<1>4. /\ backlog' \in Seq(Conn) /\ Len(backlog') = Len(backlog) + 1
      /\ ToSet(backlog') = ToSet(backlog) \cup {c}
      /\ IsInjective(backlog')
  BY <1>1, <1>2, AppendFacts DEF TypeOK, Places
<1>5. TypeOK'
  BY <1>1, <1>3, <1>4 DEF TypeOK
<1>6. Owned'
  BY <1>1, <1>3 DEF Owned
<1>7. Places'
  BY <1>1, <1>2, <1>3, <1>4 DEF Places
<1>8. EventsTrue'
  <2>1. backlog' # <<>>
    BY <1>1, <1>4, Len(<<>>) = 0 DEF TypeOK
  <2>2. \A fd \in Fd : Readable(fd)' <=> Readable(fd)
    BY <1>3 DEF Readable
  <2>3. QED
    BY <1>1, <1>3, <2>1, <2>2 DEF EventsTrue
<1>9. Connected' = Connected \cup {c}
  BY <1>3, <1>4 DEF Connected
<1>10. Untouched'
  BY <1>1, <1>3, <1>9 DEF Untouched
<1>11. \A d \in Conn : Pending(d)' = Pending(d) /\ Answered(d)' = Answered(d)
  BY <1>3 DEF Pending, Answering, Answered
<1>12. Flow'
  <2>1. Answered(c) \o Pending(c) \o stream[c] = [i \in 1 .. sent[c] |-> <<c, i>>]
    <3>1. c \notin Connected /\ c \notin fin /\ sent[c] = 0
      BY DEF Connect, Fresh
    <3>2. stream[c] = <<>> /\ got[c] = <<>>
      BY <1>1, <3>1 DEF Untouched
    <3>3. Answered(c) = <<>>
      BY <3>2 DEF Answered, FlattenSeq
    <3>4. PendingTrue
      BY <1>1, PendingFacts
    <3>5. Pending(c) = <<>>
      BY <1>2, <3>4 DEF PendingTrue
    <3>6. [i \in 1 .. 0 |-> <<c, i>>] = <<>>
      OBVIOUS
    <3>7. QED
      BY <3>1, <3>2, <3>3, <3>5, <3>6
  <2>2. \A d \in Connected' : d \in Conn /\ (d \in Connected \/ d = c)
    BY <1>1, <1>9, ConnectedType
  <2>3. QED
    BY <1>1, <1>3, <1>11, <2>1, <2>2 DEF Flow
<1>13. QED
  BY <1>5, <1>6, <1>7, <1>8, <1>10, <1>12 DEF IInv

(* What is appended to the unread part is appended to the whole.            *)
LEMMA ConcatAppend ==
  ASSUME NEW T, NEW a \in Seq(T), NEW b \in Seq(T), NEW s \in Seq(T), NEW x \in T
  PROVE  a \o b \o Append(s, x) = Append(a \o b \o s, x)
<1> DEFINE ab == a \o b
<1>1. ab \in Seq(T)
  OBVIOUS
<1> HIDE DEF ab
<1>2. ab \o Append(s, x) = Append(ab \o s, x)
  BY <1>1
<1>3. QED
  BY <1>2 DEF ab

(* A client sends one piece more.                                           *)
LEMMA SendKeeps ==
  ASSUME IInv, up, NEW c \in Conn, Send(c)
  PROVE  IInv'
<1> DEFINE n == sent[c]
           x == <<c, n + 1>>
<1>1. /\ TypeOK /\ Owned /\ Places /\ EventsTrue /\ Untouched /\ Flow
  BY DEF IInv
<1>2. c \in Connected /\ n < MaxSend[c] /\ n \in Nat /\ MaxSend[c] \in Nat
  BY <1>1, ConstantAssumption DEF Send, TypeOK
<1>3. /\ sent' = [sent EXCEPT ![c] = n + 1]
      /\ stream' = [stream EXCEPT ![c] = Append(stream[c], x)]
      /\ UNCHANGED <<backlog, file, interest, fin, rst, got, events, wbuffer, up>>
  BY DEF Send
<1>4. x \in PieceOf(c) /\ x \in Piece
  BY <1>2 DEF PieceOf, Piece
<1> HIDE DEF x
<1>5. /\ stream[c] \in Seq(PieceOf(c)) /\ stream[c] \in Seq(Piece) /\ stream \in [Conn -> Seq(Piece)]
      /\ sent \in [Conn -> Nat]
  BY <1>1 DEF Owned, TypeOK
<1>6. /\ Append(stream[c], x) \in Seq(PieceOf(c)) /\ Append(stream[c], x) \in Seq(Piece)
      /\ Append(stream[c], x) # <<>>
  BY <1>4, <1>5
<1>7. stream'[c] = Append(stream[c], x) /\ \A d \in Conn : d # c => stream'[d] = stream[d]
  BY <1>3, <1>5
<1>8. sent'[c] = n + 1 /\ \A d \in Conn : d # c => sent'[d] = sent[d]
  BY <1>3, <1>5
<1>9. TypeOK'
  <2>1. stream' \in [Conn -> Seq(Piece)]
    BY <1>3, <1>5, <1>6
  <2>2. sent' \in [Conn -> Nat] /\ \A d \in Conn : sent'[d] <= MaxSend[d]
    <3>1. n + 1 \in Nat /\ n + 1 <= MaxSend[c]
      BY <1>2
    <3>2. QED
      BY <1>1, <1>3, <1>5, <1>8, <3>1 DEF TypeOK
  <2>3. QED
    BY <1>1, <1>3, <2>1, <2>2 DEF TypeOK
<1>10. Owned'
  BY <1>1, <1>3, <1>6, <1>7 DEF Owned
<1>11. Places'
  BY <1>1, <1>3 DEF Places
<1>12. EventsTrue'
  <2>1. ASSUME NEW fd \in Fd, Readable(fd)
        PROVE  Readable(fd)'
    BY <1>3, <1>6, <1>7, <2>1, <1>1 DEF Readable, Places, TypeOK
  <2>2. QED
    BY <1>1, <1>3, <2>1 DEF EventsTrue
<1>13. Connected' = Connected
  BY <1>3 DEF Connected
<1>14. Untouched'
  BY <1>1, <1>2, <1>3, <1>7, <1>8, <1>13 DEF Untouched
<1>15. \A d \in Conn : Pending(d)' = Pending(d) /\ Answered(d)' = Answered(d)
  BY <1>3 DEF Pending, Answering, Answered
<1>16. Flow'
  <2>1. Answered(c) \o Pending(c) \o stream'[c] = [i \in 1 .. n + 1 |-> <<c, i>>]
    <3>1. Answered(c) \in Seq(Piece) /\ Pending(c) \in Seq(Piece)
      BY <1>1, PendingType DEF Flow
    <3>2. Answered(c) \o Pending(c) \o stream'[c] = Append(Answered(c) \o Pending(c) \o stream[c], x)
      BY <1>4, <1>5, <1>7, <3>1, ConcatAppend
    <3>3. Answered(c) \o Pending(c) \o stream[c] = [i \in 1 .. n |-> <<c, i>>]
      BY <1>1, <1>2 DEF Flow
    <3>4. Append([i \in 1 .. n |-> <<c, i>>], x) = [i \in 1 .. n + 1 |-> <<c, i>>]
      BY <1>2 DEF x
    <3>5. QED
      BY <3>2, <3>3, <3>4
  <2>2. \A d \in Connected : d \in Conn
    BY <1>1, ConnectedType
  <2>3. QED
    BY <1>1, <1>7, <1>8, <1>13, <1>15, <2>1, <2>2, ZenonT(60) DEF Flow
<1>17. QED
  BY <1>9, <1>10, <1>11, <1>12, <1>14, <1>16 DEF IInv

(* A client closes.                                                         *)
LEMMA DisconnectKeeps ==
  ASSUME IInv, up, NEW c \in Conn, Disconnect(c)
  PROVE  IInv'
<1>1. /\ TypeOK /\ Owned /\ Places /\ EventsTrue /\ Untouched /\ Flow
  BY DEF IInv
<1>2. /\ fin' = fin \cup {c}
      /\ UNCHANGED <<backlog, file, interest, stream, rst, sent, got, events, wbuffer, up>>
  BY DEF Disconnect, clients
<1>3. TypeOK' /\ Owned' /\ Places'
  BY <1>1, <1>2 DEF TypeOK, Owned, Places
<1>4. EventsTrue'
  <2>1. \A fd \in Fd : Readable(fd) => Readable(fd)'
    BY <1>2 DEF Readable
  <2>2. QED
    BY <1>1, <1>2, <2>1 DEF EventsTrue
<1>5. Connected' = Connected
  BY <1>2 DEF Connected
<1>6. Untouched'
  BY <1>1, <1>2, <1>5 DEF Untouched
<1>7. Flow'
  <2>1. \A d \in Conn : Pending(d)' = Pending(d) /\ Answered(d)' = Answered(d)
    BY <1>2 DEF Pending, Answering, Answered
  <2>2. \A d \in Connected : d \in Conn
    BY <1>1, ConnectedType
  <2>3. QED
    BY <1>1, <1>2, <1>5, <2>1, <2>2 DEF Flow
<1>8. QED
  BY <1>3, <1>4, <1>6, <1>7 DEF IInv

------------------------------------------------------------------------------
(* epoll_wait: finitely many descriptors are ready, and each is reported    *)
(* once.                                                                    *)
LEMMA ReadyFacts ==
  ASSUME TypeOK, Places
  PROVE  /\ IsFiniteSet(Ready) /\ Ready \subseteq EventRecord
         /\ \A e \in Ready : e.fd \in Fd =>
              file[e.fd] = e.conn /\ interest[e.fd] = e.event /\ (e.event = "IN" => Readable(e.fd))
         /\ \A e \in Ready : e.fd = listenfd => backlog # <<>>
         /\ \A d, e \in Ready : d.fd = e.fd => d = e
<1> DEFINE R == {g \in Fd : Readable(g) \/ interest[g] = "OUT"}
           report == [fd \in R |-> [fd |-> fd, event |-> interest[fd], conn |-> file[fd]]]
           A == {report[fd] : fd \in R}
           B == {[fd |-> listenfd, event |-> "IN", conn |-> NULL] : c \in ToSet(backlog)}
<1>1. Ready = A \cup B
  BY DEF Ready
<1>2. IsFiniteSet(Fd)
  BY ConstantAssumption, FS_Interval, 1 \in Int, NumFds \in Int DEF Fd
<1>3. IsFiniteSet(A)
  <2>1. IsFiniteSet(R)
    BY <1>2, FS_Subset, R \subseteq Fd
  <2>2. report \in Surjection(R, A)
    BY DEF Surjection
  <2>3. QED
    BY <2>1, <2>2, FS_Surjection
<1>4. IsFiniteSet(B)
  <2>1. B \subseteq {[fd |-> listenfd, event |-> "IN", conn |-> NULL]}
    OBVIOUS
  <2>2. IsFiniteSet({[fd |-> listenfd, event |-> "IN", conn |-> NULL]})
    BY FS_Singleton
  <2>3. QED
    BY <2>1, <2>2, FS_Subset
<1>5. ASSUME NEW e \in A
      PROVE  /\ e \in EventRecord /\ e.fd \in Fd
             /\ file[e.fd] = e.conn /\ interest[e.fd] = e.event
             /\ e.event = "IN" => Readable(e.fd)
             /\ e = [fd |-> e.fd, event |-> interest[e.fd], conn |-> file[e.fd]]
  <2>1. PICK fd \in R : e = [fd |-> fd, event |-> interest[fd], conn |-> file[fd]]
    OBVIOUS
  <2>2. fd \in Fd /\ interest[fd] \in {"IN", "OUT"} /\ file[fd] \in Conn \cup {NULL}
    BY <2>1 DEF TypeOK, Readable
  <2>3. interest[fd] = "IN" => Readable(fd)
    BY <2>1
  <2>4. e.fd = fd /\ e.event = interest[fd] /\ e.conn = file[fd]
    BY <2>1
  <2>5. e \in EventRecord
    BY <2>1, <2>2 DEF EventRecord
  <2>6. QED
    BY <2>1, <2>2, <2>3, <2>4, <2>5
<1>6. ASSUME NEW e \in B
      PROVE  /\ e \in EventRecord /\ e.fd = listenfd /\ backlog # <<>>
             /\ e = [fd |-> listenfd, event |-> "IN", conn |-> NULL]
  <2>1. e = [fd |-> listenfd, event |-> "IN", conn |-> NULL] /\ ToSet(backlog) # {}
    OBVIOUS
  <2>2. backlog # <<>>
    BY <2>1 DEF ToSet
  <2>3. e \in EventRecord
    BY <2>1 DEF EventRecord
  <2>4. QED
    BY <2>1, <2>2, <2>3
<1> HIDE DEF A, B
<1>7. IsFiniteSet(Ready)
  BY <1>1, <1>3, <1>4, FS_Union
<1>8. ASSUME NEW d \in Ready, NEW e \in Ready, d.fd = e.fd
      PROVE  d = e
  BY <1>1, <1>5, <1>6, <1>8, ListenerApart
<1>9. QED
  BY <1>1, <1>5, <1>6, <1>7, <1>8, ListenerApart

(* epoll_wait fills the array.                                              *)
LEMMA EpollWaitKeeps ==
  ASSUME IInv, epoll_wait
  PROVE  IInv'
<1>1. up /\ TypeOK /\ Owned /\ Places /\ EventsTrue /\ Untouched /\ Flow
  BY DEF IInv, epoll_wait
<1>2. /\ events' \in SetToSeqs(Ready)
      /\ UNCHANGED <<backlog, file, interest, stream, fin, rst, sent, got, wbuffer, up>>
  BY DEF epoll_wait, kernel, clients
<1> DEFINE n == Cardinality(Ready)
<1>3. n \in Nat
  BY <1>1, ReadyFacts, FS_CardinalityType
<1>4. /\ events' \in [1 .. n -> Ready]
      /\ \A i, j \in 1 .. n : i # j => events'[i] # events'[j]
  BY <1>2 DEF SetToSeqs
<1> HIDE DEF n
<1>5. events' \in Seq(EventRecord) /\ Len(events') = n
  <2>1. events' \in Seq(Ready) /\ Len(events') = n
    BY <1>3, <1>4
  <2>2. Ready \subseteq EventRecord
    BY <1>1, ReadyFacts
  <2>3. QED
    BY <2>1, <2>2
<1>6. TypeOK'
  BY <1>1, <1>2, <1>5 DEF TypeOK, EventRecord
<1>7. EventsTrue'
  <2>1. \A fd \in Fd : Readable(fd)' <=> Readable(fd)
    BY <1>2 DEF Readable
  <2>2. \A i \in 1 .. n : events'[i] \in Ready
    BY <1>4
  <2>3. QED
    BY <1>1, <1>2, <1>4, <1>5, <2>1, <2>2, ReadyFacts DEF EventsTrue
<1>8. Owned' /\ Places'
  BY <1>1, <1>2 DEF Owned, Places
<1>9. Connected' = Connected
  BY <1>2 DEF Connected
<1>10. Untouched'
  BY <1>1, <1>2, <1>9 DEF Untouched
<1>11. Flow'
  <2>1. \A d \in Conn : Pending(d)' = Pending(d) /\ Answered(d)' = Answered(d)
    BY <1>2 DEF Pending, Answering, Answered
  <2>2. QED
    BY <1>1, <1>2, <1>9, <2>1, ConnectedType DEF Flow
<1>12. QED
  BY <1>6, <1>7, <1>8, <1>10, <1>11 DEF IInv

(* The event that is taken: its descriptor has no other event left, and     *)
(* what the event says is so.                                               *)
LEMMA DispatchFacts ==
  ASSUME TypeOK, Places, EventsTrue, NEW fd, NEW ev, Dispatch(fd, ev)
  PROVE  /\ up /\ events # <<>>
         /\ events' \in Seq(EventRecord)
         /\ \A i \in 1 .. Len(events') :
              i + 1 \in 1 .. Len(events) /\ events'[i] = events[i + 1] /\ events'[i].fd # fd
         /\ fd \in Fd => interest[fd] = ev /\ file[fd] \in Conn /\ (ev = "IN" => Readable(fd))
         /\ fd = listenfd => backlog # <<>>
         /\ ev \in {"IN", "OUT"}
<1>1. up /\ events # <<>> /\ Head(events).fd = fd /\ Head(events).event = ev /\ events' = Tail(events)
  BY DEF Dispatch, Event
<1>2. events \in Seq(EventRecord)
  BY DEF TypeOK, EventRecord
<1>3. Len(events) \in Nat /\ 1 \in 1 .. Len(events) /\ Head(events) = events[1]
  BY <1>1, <1>2
<1>4. events' \in Seq(EventRecord) /\ Len(events') = Len(events) - 1
  BY <1>1, <1>2
<1>5. \A i \in 1 .. Len(events') : i + 1 \in 1 .. Len(events) /\ events'[i] = events[i + 1] /\ i + 1 # 1
  BY <1>1, <1>2, <1>3, <1>4
<1>6. \A i \in 1 .. Len(events') : events'[i].fd # fd
  BY <1>1, <1>3, <1>5 DEF EventsTrue
<1>7. ev \in {"IN", "OUT"}
  <2>1. events[1] \in EventRecord
    BY <1>2, <1>3
  <2>2. events[1].event \in {"IN", "OUT"}
    BY <2>1 DEF EventRecord
  <2>3. QED
    BY <1>1, <1>3, <2>2
<1>8. ASSUME fd \in Fd
      PROVE  interest[fd] = ev /\ file[fd] \in Conn /\ (ev = "IN" => Readable(fd))
  <2>1. interest[fd] = ev /\ (ev = "IN" => Readable(fd))
    BY <1>1, <1>3, <1>8 DEF EventsTrue
  <2>2. file[fd] # NULL
    BY <1>7, <1>8, <2>1 DEF Places
  <2>3. QED
    BY <1>8, <2>1, <2>2 DEF TypeOK
<1>9. fd = listenfd => backlog # <<>>
  BY <1>1, <1>3 DEF EventsTrue
<1>10. QED
  BY <1>1, <1>4, <1>5, <1>6, <1>7, <1>8, <1>9

(* A callback that leaves the other registered descriptors as they are      *)
(* leaves their events true.                                                *)
LEMMA EventsKept ==
  ASSUME TypeOK, Places, EventsTrue, NEW fd, NEW ev, Dispatch(fd, ev),
         \A g \in Fd : g # fd /\ interest[g] # "none" =>
           /\ file'[g] = file[g] /\ interest'[g] = interest[g]
           /\ Readable(g) => Readable(g)',
         fd = listenfd \/ backlog' = backlog
  PROVE  EventsTrue'
<1>1. \A i \in 1 .. Len(events') :
        i + 1 \in 1 .. Len(events) /\ events'[i] = events[i + 1] /\ events'[i].fd # fd
  BY DispatchFacts
<1>2. ASSUME NEW i \in 1 .. Len(events'), events'[i].fd \in Fd
      PROVE  (/\ file[events[i].fd] = events[i].conn
              /\ interest[events[i].fd] = events[i].event
              /\ events[i].event = "IN" => Readable(events[i].fd))'
  <2>1. events'[i] = events[i + 1] /\ i + 1 \in 1 .. Len(events) /\ events'[i].fd # fd
    BY <1>1
  <2> DEFINE e == events'[i]
  <2>2. /\ e.fd \in Fd /\ e.fd # fd
        /\ file[e.fd] = e.conn /\ interest[e.fd] = e.event /\ (e.event = "IN" => Readable(e.fd))
    BY <1>2, <2>1 DEF EventsTrue
  <2>3. e.event \in {"IN", "OUT"}
    <3>1. events \in Seq(EventRecord)
      BY DEF TypeOK, EventRecord
    <3>2. events[i + 1] \in EventRecord
      BY <2>1, <3>1
    <3>3. QED
      BY <2>1, <3>2 DEF EventRecord
  <2>4. e.fd \in Fd /\ e.fd # fd /\ interest[e.fd] # "none"
    BY <2>2, <2>3
  <2> HIDE DEF e
  <2>5. /\ file'[e.fd] = file[e.fd] /\ interest'[e.fd] = interest[e.fd]
        /\ Readable(e.fd) => interest'[e.fd] = "IN" /\ (stream'[file'[e.fd]] # <<>> \/ file'[e.fd] \in fin')
    BY <2>4 DEF Readable
  <2>6. QED
    BY <2>2, <2>5 DEF e, Readable
<1>3. \A i \in 1 .. Len(events') : events'[i].fd = listenfd => backlog' # <<>>
  BY <1>1 DEF EventsTrue
<1>4. \A i, j \in 1 .. Len(events') : events'[i].fd = events'[j].fd => i = j
  <2>1. SUFFICES ASSUME NEW i \in 1 .. Len(events'), NEW j \in 1 .. Len(events'),
                        events'[i].fd = events'[j].fd
                 PROVE  i = j
    OBVIOUS
  <2>2. i + 1 = j + 1
    BY <1>1, <2>1 DEF EventsTrue
  <2>3. QED
    BY <2>2
<1>5. QED
  BY <1>2, <1>3, <1>4 DEF EventsTrue

------------------------------------------------------------------------------
(* accept_cb.                                                               *)
LEMMA AcceptKeeps ==
  ASSUME IInv, accept_cb
  PROVE  IInv'
<1>1. Dispatch(listenfd, "IN") /\ UNCHANGED <<stream, fin, rst, sent, got, up>> /\ up
  BY DEF accept_cb, clients, Dispatch
<1>2. TypeOK /\ Owned /\ Places /\ EventsTrue /\ Untouched /\ Flow
  BY <1>1 DEF IInv
<1>3. events' \in Seq(EventRecord) /\ backlog # <<>>
  BY <1>1, <1>2, DispatchFacts
<1>4. CASE FreeFds = {}
  <2>1. UNCHANGED <<file, wbuffer, interest, backlog>>
    BY <1>4 DEF accept_cb
  <2>2. TypeOK' /\ Owned' /\ Places'
    BY <1>1, <1>2, <1>3, <2>1 DEF TypeOK, EventRecord, Owned, Places
  <2>3. EventsTrue'
    <3>1. \A g \in Fd : Readable(g) => Readable(g)'
      BY <1>1, <2>1 DEF Readable
    <3>2. QED
      BY <1>1, <1>2, <2>1, <3>1, EventsKept
  <2>4. Connected' = Connected
    BY <2>1 DEF Connected
  <2>5. Untouched'
    BY <1>1, <1>2, <2>4 DEF Untouched
  <2>6. \A d \in Conn : Pending(d)' = Pending(d) /\ Answered(d)' = Answered(d)
    BY <1>1, <2>1 DEF Pending, Answering, Answered
  <2>7. Flow'
    BY <1>1, <1>2, <2>4, <2>6, ConnectedType DEF Flow
  <2>8. QED
    BY <2>2, <2>3, <2>5, <2>7 DEF IInv
<1>5. CASE FreeFds # {}
  <2> DEFINE fd == CHOOSE f \in FreeFds : \A g \in FreeFds : f <= g
             b == Head(backlog)
  <2>1. fd \in FreeFds
    <3>1. FreeFds \in SUBSET Nat
      BY ListenerApart DEF FreeFds
    <3>2. \E f \in FreeFds : \A g \in FreeFds : f <= g
      BY <1>5, <3>1, MinFacts
    <3>3. QED
      BY <3>2
  <2>2. /\ file' = [file EXCEPT ![fd] = b]
        /\ wbuffer' = [wbuffer EXCEPT ![fd] = <<>>]
        /\ interest' = [interest EXCEPT ![fd] = "IN"]
        /\ backlog' = Tail(backlog)
    BY <1>5 DEF accept_cb, event_register
  <2> HIDE DEF fd
  <2>3. fd \in Fd /\ file[fd] = NULL /\ interest[fd] = "none"
    BY <1>2, <2>1 DEF FreeFds, Places
  <2>4. /\ backlog' \in Seq(Conn) /\ b \in Conn
        /\ ToSet(backlog) = {b} \cup ToSet(backlog')
        /\ IsInjective(backlog') /\ b \notin ToSet(backlog')
    BY <1>2, <1>3, <2>2, TailFacts DEF TypeOK, Places
  <2>5. b # NULL
    BY <2>4, ConstantAssumption
  <2> HIDE DEF b
  <2>6. /\ file'[fd] = b /\ interest'[fd] = "IN" /\ wbuffer'[fd] = <<>>
        /\ \A g \in Fd : g # fd => file'[g] = file[g] /\ interest'[g] = interest[g] /\ wbuffer'[g] = wbuffer[g]
    BY <1>2, <2>2, <2>3 DEF TypeOK
  <2>7. TypeOK'
    <3>1. <<>> \in Message
      BY ConstantAssumption DEF Message
    <3>2. file' \in [Fd -> Conn \cup {NULL}] /\ interest' \in [Fd -> {"none", "IN", "OUT"}]
      BY <1>2, <2>2, <2>4 DEF TypeOK
    <3>3. wbuffer' \in [Fd -> Message]
      BY <1>2, <2>2, <3>1 DEF TypeOK
    <3>4. QED
      BY <1>1, <1>2, <1>3, <2>4, <3>2, <3>3 DEF TypeOK, EventRecord
  <2>8. Owned'
    <3>1. <<>> \in Seq(PieceOf(b))
      OBVIOUS
    <3>2. QED
      BY <1>1, <1>2, <2>6, <3>1 DEF Owned
  <2>9. Places'
    <3>1. \A g \in Fd : file[g] # b /\ file[g] \notin ToSet(backlog')
      BY <1>2, <2>4 DEF Places
    <3>2. \A g \in Fd : file'[g] \notin ToSet(backlog')
      BY <2>4, <2>6, <3>1
    <3>3. \A f, g \in Fd : file'[f] = file'[g] /\ file'[f] # NULL => f = g
      BY <1>2, <2>3, <2>6, <3>1 DEF Places
    <3>4. \A g \in Fd : interest'[g] = "none" <=> file'[g] = NULL
      BY <1>2, <2>5, <2>6 DEF Places
    <3>5. QED
      BY <2>4, <3>2, <3>3, <3>4 DEF Places
  <2>10. EventsTrue'
    <3>1. ASSUME NEW g \in Fd, interest[g] # "none"
          PROVE  /\ file'[g] = file[g] /\ interest'[g] = interest[g]
                 /\ Readable(g) => Readable(g)'
      BY <1>1, <2>3, <2>6, <3>1 DEF Readable
    <3>2. QED
      BY <1>1, <1>2, <3>1, EventsKept
  <2>11. Connected' = Connected
    BY <2>3, <2>4, <2>5, <2>6 DEF Connected
  <2>12. Untouched'
    BY <1>1, <1>2, <2>11 DEF Untouched
  <2>13. ASSUME NEW d \in Conn
         PROVE  Pending(d)' = Pending(d) /\ Answered(d)' = Answered(d)
    <3>1. d # NULL
      BY ConstantAssumption
    <3>2. Pending(d)' = Pending(d)
      BY <1>2, <2>3, <2>6, <2>9, <3>1, PendingSame
    <3>3. QED
      BY <1>1, <3>2 DEF Answered
  <2>14. Flow'
    BY <1>1, <1>2, <2>11, <2>13, ConnectedType DEF Flow
  <2>15. QED
    BY <2>7, <2>8, <2>9, <2>10, <2>12, <2>14 DEF IInv
<1>6. QED
  BY <1>4, <1>5

------------------------------------------------------------------------------
(* recv takes what is there, as much as fits.                               *)
LEMMA RecvFacts ==
  ASSUME NEW T, NEW s \in Seq(T), NEW n \in Nat \ {0}, NEW msg,
         msg = SubSeq(s, 1, IF Len(s) < n THEN Len(s) ELSE n)
  PROVE  /\ msg \in Seq(T) /\ Len(msg) <= n /\ (msg = <<>> <=> s = <<>>)
         /\ SubSeq(s, Len(msg) + 1, Len(s)) \in Seq(T)
         /\ msg \o SubSeq(s, Len(msg) + 1, Len(s)) = s
<1> DEFINE k == IF Len(s) < n THEN Len(s) ELSE n
<1>1. Len(s) \in Nat /\ k \in 0 .. Len(s) /\ k <= n /\ (k = 0 <=> Len(s) = 0)
  OBVIOUS
<1>2. msg = SubSeq(s, 1, k)
  OBVIOUS
<1> HIDE DEF k
<1>3. msg \in Seq(T) /\ Len(msg) = k /\ \A i \in 1 .. k : msg[i] = s[i]
  BY <1>1, <1>2
<1> DEFINE r == SubSeq(s, k + 1, Len(s))
<1>4. r \in Seq(T) /\ Len(r) = Len(s) - k /\ \A i \in 1 .. Len(s) - k : r[i] = s[k + i]
  BY <1>1
<1>5. msg = <<>> <=> s = <<>>
  BY <1>1, <1>3
<1> HIDE DEF r
<1>6. msg \o r = s
  <2>1. msg \o r \in Seq(T) /\ Len(msg \o r) = Len(s)
    BY <1>1, <1>3, <1>4
  <2>2. ASSUME NEW i \in 1 .. Len(s)
        PROVE  (msg \o r)[i] = s[i]
    <3>1. (msg \o r)[i] = IF i <= k THEN msg[i] ELSE r[i - k]
      BY <1>1, <1>3, <1>4
    <3>2. CASE i <= k
      BY <1>1, <1>3, <3>1, <3>2
    <3>3. CASE ~(i <= k)
      BY <1>1, <1>4, <3>1, <3>3, i - k \in 1 .. Len(s) - k, k + (i - k) = i
    <3>4. QED
      BY <3>2, <3>3
  <2> DEFINE w == msg \o r
  <2>3. w \in Seq(T) /\ Len(w) = Len(s) /\ \A i \in 1 .. Len(w) : w[i] = s[i]
    BY <2>1, <2>2
  <2> HIDE DEF w
  <2>4. w = s
    BY <2>3, SeqEqual
  <2>5. QED
    BY <2>4 DEF w
<1>7. QED
  BY <1>1, <1>3, <1>4, <1>5, <1>6 DEF r

(* The reply takes the place of the bytes it answers.                       *)
LEMMA ConcatMoves ==
  ASSUME NEW T, NEW a \in Seq(T), NEW m \in Seq(T), NEW r \in Seq(T)
  PROVE  /\ a \o <<>> \o (m \o r) = a \o m \o r
         /\ (a \o m) \o <<>> \o r = a \o m \o r
         /\ a \o m \in Seq(T)
<1>1. a \o <<>> = a /\ (a \o m) \o <<>> = a \o m /\ a \o m \in Seq(T)
  OBVIOUS
<1>2. a \o (m \o r) = (a \o m) \o r
  OBVIOUS
<1>3. QED
  BY <1>1, <1>2

(* recv_cb with a message: it is answered, or fails the assertion.          *)
LEMMA RecvMessageKeeps ==
  ASSUME IInv, NEW fd \in Fd, recv_cb(fd), NEW c, c = file[fd], c # NULL, recv(c) # <<>>
  PROVE  IInv'
<1> DEFINE msg == recv(c)
           rest == SubSeq(stream[c], Len(msg) + 1, Len(stream[c]))
<1>1. Dispatch(fd, "IN") /\ UNCHANGED <<backlog, fin, rst, sent, got>> /\ up
  BY DEF recv_cb, clients, Dispatch
<1>2. TypeOK /\ Owned /\ Places /\ EventsTrue /\ Untouched /\ Flow
  BY <1>1 DEF IInv
<1>3. events' \in Seq(EventRecord) /\ c \in Conn /\ interest[fd] = "IN"
  BY <1>1, <1>2, DispatchFacts
<1>4. /\ stream' = [stream EXCEPT ![c] = rest]
      /\ kvs_request(fd, msg)
      /\ interest' = [interest EXCEPT ![fd] = "OUT"]
      /\ UNCHANGED file
  BY DEF recv_cb, set_event
<1>5. stream[c] \in Seq(PieceOf(c)) /\ BUFFER_LENGTH \in Nat \ {0}
  BY <1>2, <1>3, ConstantAssumption DEF Owned
<1>6. /\ msg \in Seq(PieceOf(c)) /\ Len(msg) <= BUFFER_LENGTH
      /\ rest \in Seq(PieceOf(c)) /\ msg \o rest = stream[c]
  BY <1>5, RecvFacts, ZenonT(60) DEF recv
<1>7. PieceOf(c) \subseteq Piece
  BY <1>3 DEF Piece
<1>8. msg \in Message /\ rest \in Seq(Piece) /\ msg \in Seq(Piece)
  BY <1>6, <1>7, SeqMonotonic DEF Message
<1> HIDE DEF msg, rest
<1>9. stream'[c] = rest /\ \A d \in Conn : d # c => stream'[d] = stream[d]
  BY <1>2, <1>3, <1>4 DEF TypeOK
<1>10. interest'[fd] = "OUT" /\ \A g \in Fd : g # fd => interest'[g] = interest[g]
  BY <1>2, <1>4 DEF TypeOK
<1>11. /\ wbuffer' \in [Fd -> Message] /\ up' \in BOOLEAN
       /\ \A g \in Fd : g # fd => wbuffer'[g] = wbuffer[g]
       /\ wbuffer'[fd] = msg \/ (wbuffer'[fd] = wbuffer[fd] /\ up' = FALSE)
  BY <1>1, <1>2, <1>4, <1>8 DEF TypeOK, kvs_request
<1>12. TypeOK'
  <2>1. stream' \in [Conn -> Seq(Piece)] /\ interest' \in [Fd -> {"none", "IN", "OUT"}]
    BY <1>2, <1>4, <1>8 DEF TypeOK
  <2>2. QED
    BY <1>1, <1>2, <1>3, <1>4, <1>11, <2>1 DEF TypeOK, EventRecord
<1>13. Owned'
  <2>1. \A d \in Conn : stream'[d] \in Seq(PieceOf(d)) /\ got'[d] \in Seq(Seq(PieceOf(d)))
    BY <1>1, <1>2, <1>6, <1>9 DEF Owned
  <2>2. ASSUME NEW g \in Fd, file'[g] # NULL
        PROVE  wbuffer'[g] \in Seq(PieceOf(file'[g]))
    <3>1. file'[g] = file[g] /\ wbuffer[g] \in Seq(PieceOf(file[g]))
      BY <1>2, <1>4, <2>2 DEF Owned
    <3>2. CASE g = fd
      BY <1>6, <1>11, <3>1, <3>2
    <3>3. CASE g # fd
      BY <1>11, <3>1, <3>3
    <3>4. QED
      BY <3>2, <3>3
  <2>3. QED
    BY <2>1, <2>2 DEF Owned
<1>14. SUFFICES ASSUME up'
                PROVE  Places' /\ EventsTrue' /\ Untouched' /\ Flow'
  BY <1>12, <1>13 DEF IInv
<1>15. wbuffer'[fd] = msg
  BY <1>11, <1>14
<1>16. Places'
  BY <1>1, <1>2, <1>3, <1>4, <1>10 DEF Places
<1>17. EventsTrue'
  <2>1. ASSUME NEW g \in Fd, g # fd, interest[g] # "none"
        PROVE  /\ file'[g] = file[g] /\ interest'[g] = interest[g]
               /\ Readable(g) => Readable(g)'
    <3>1. file[g] \in Conn /\ file[g] # c
      BY <1>2, <2>1 DEF Places, TypeOK
    <3>2. QED
      BY <1>1, <1>4, <1>9, <1>10, <2>1, <3>1 DEF Readable
  <2>2. QED
    BY <1>1, <1>2, <2>1, EventsKept
<1>18. Connected' = Connected /\ c \in Connected
  BY <1>1, <1>3, <1>4, ConnectedIs DEF Connected
<1>19. Untouched'
  BY <1>1, <1>2, <1>9, <1>18 DEF Untouched
<1>20. Flow'
  <2>1. \A d \in Conn : Answered(d)' = Answered(d) /\ Answered(d) \in Seq(Piece)
    BY <1>1, <1>2 DEF Answered, Flow
  <2>2. Pending(c) = <<>> /\ Pending(c)' = msg
    <3>1. PendingTrue /\ PendingTrue'
      BY <1>2, <1>16, PendingFacts, PTL
    <3>2. \A g \in Fd : file[g] = c => g = fd
      BY <1>2, <1>3 DEF Places
    <3>3. QED
      BY <1>3, <1>4, <1>10, <1>15, <3>1, <3>2 DEF PendingTrue
  <2>3. ASSUME NEW d \in Conn, d # c
        PROVE  Pending(d)' = Pending(d)
    <3>1. file[fd] # d /\ file'[fd] # d
      BY <1>4, <2>3
    <3>2. QED
      BY <1>2, <1>4, <1>10, <1>11, <1>16, <3>1, PendingSame
  <2>4. Answered(c) \o <<>> \o (msg \o rest) = Answered(c) \o msg \o rest
    BY <1>3, <1>8, <2>1, ConcatMoves
  <2>5. Answered(c)' \o Pending(c)' \o stream'[c] = [i \in 1 .. sent'[c] |-> <<c, i>>]
    <3>1. Answered(c) \o Pending(c) \o stream[c] = [i \in 1 .. sent[c] |-> <<c, i>>]
      BY <1>2, <1>18 DEF Flow
    <3>2. QED
      BY <1>1, <1>3, <1>6, <1>9, <2>1, <2>2, <2>4, <3>1
  <2>6. QED
    BY <1>1, <1>2, <1>9, <1>18, <2>1, <2>3, <2>5, ConnectedType DEF Flow
<1>21. QED
  BY <1>16, <1>17, <1>19, <1>20

(* recv_cb at the end of the stream: the client has closed.                 *)
LEMMA RecvEndKeeps ==
  ASSUME IInv, NEW fd \in Fd, recv_cb(fd), NEW c, c = file[fd], c = NULL \/ recv(c) = <<>>
  PROVE  IInv'
<1>1. Dispatch(fd, "IN") /\ UNCHANGED <<backlog, fin, rst, sent, got>> /\ up
  BY DEF recv_cb, clients, Dispatch
<1>2. TypeOK /\ Owned /\ Places /\ EventsTrue /\ Untouched /\ Flow
  BY <1>1 DEF IInv
<1>3. events' \in Seq(EventRecord) /\ c \in Conn /\ Readable(fd) /\ c # NULL
  BY <1>1, <1>2, DispatchFacts, ConstantAssumption
<1>4. /\ file' = [file EXCEPT ![fd] = NULL]
      /\ interest' = [interest EXCEPT ![fd] = "none"]
      /\ UNCHANGED <<stream, wbuffer, up>>
  BY DEF recv_cb, close
<1>5. c \in fin
  <2>1. stream[c] \in Seq(PieceOf(c)) /\ BUFFER_LENGTH \in Nat \ {0}
    BY <1>2, <1>3, ConstantAssumption DEF Owned
  <2>2. recv(c) = <<>>
    BY <1>3
  <2>3. stream[c] = <<>>
    BY <2>1, <2>2, RecvFacts DEF recv
  <2>4. QED
    BY <1>3, <2>3 DEF Readable
<1>6. /\ file'[fd] = NULL /\ interest'[fd] = "none"
      /\ \A g \in Fd : g # fd => file'[g] = file[g] /\ interest'[g] = interest[g]
  BY <1>2, <1>4 DEF TypeOK
<1>7. TypeOK'
  <2>1. file' \in [Fd -> Conn \cup {NULL}] /\ interest' \in [Fd -> {"none", "IN", "OUT"}]
    BY <1>2, <1>4 DEF TypeOK
  <2>2. QED
    BY <1>1, <1>2, <1>3, <1>4, <2>1 DEF TypeOK, EventRecord
<1>8. Owned'
  BY <1>1, <1>2, <1>4, <1>6 DEF Owned
<1>9. Places'
  <2>1. NULL \notin ToSet(backlog)
    BY <1>2, ConstantAssumption DEF TypeOK, ToSet
  <2>2. \A g \in Fd : file'[g] \notin ToSet(backlog')
    BY <1>1, <1>2, <1>6, <2>1 DEF Places
  <2>3. \A f, g \in Fd : file'[f] = file'[g] /\ file'[f] # NULL => f = g
    BY <1>2, <1>6 DEF Places
  <2>4. \A g \in Fd : interest'[g] = "none" <=> file'[g] = NULL
    BY <1>2, <1>6 DEF Places
  <2>5. QED
    BY <1>1, <1>2, <2>2, <2>3, <2>4 DEF Places
<1>10. EventsTrue'
  <2>1. ASSUME NEW g \in Fd, g # fd
        PROVE  /\ file'[g] = file[g] /\ interest'[g] = interest[g]
               /\ Readable(g) => Readable(g)'
    BY <1>1, <1>4, <1>6, <2>1 DEF Readable
  <2>2. QED
    BY <1>1, <1>2, <2>1, EventsKept
<1>11. Connected' \subseteq Connected /\ Connected \ {c} \subseteq Connected'
  BY <1>1, <1>6 DEF Connected
<1>12. c \notin Connected'
  <2>1. c \notin ToSet(backlog')
    BY <1>1, <1>2 DEF Places
  <2>2. \A g \in Fd : file'[g] # c
    BY <1>2, <1>3, <1>6 DEF Places
  <2>3. QED
    BY <2>1, <2>2 DEF Connected
<1>13. Untouched'
  BY <1>1, <1>2, <1>4, <1>5, <1>11 DEF Untouched
<1>14. Flow'
  <2>1. \A d \in Conn : Answered(d)' = Answered(d)
    BY <1>1 DEF Answered
  <2>2. ASSUME NEW d \in Conn, d # c
        PROVE  Pending(d)' = Pending(d)
    <3>1. file[fd] # d /\ file'[fd] # d
      BY <1>6, <2>2, ConstantAssumption
    <3>2. QED
      BY <1>2, <1>4, <1>6, <1>9, <3>1, PendingSame
  <2>3. QED
    BY <1>1, <1>2, <1>4, <1>11, <1>12, <2>1, <2>2, ConnectedType DEF Flow
<1>15. QED
  BY <1>7, <1>8, <1>9, <1>10, <1>13, <1>14 DEF IInv

------------------------------------------------------------------------------
(* send_cb: the pending reply becomes one that was sent.                    *)
LEMMA SendReplyKeeps ==
  ASSUME IInv, NEW fd \in Fd, send_cb(fd), NEW c, c = file[fd], c \notin rst
  PROVE  IInv'
<1> DEFINE w == wbuffer[fd]
<1>1. Dispatch(fd, "OUT") /\ UNCHANGED <<backlog, file, stream, fin, sent, wbuffer>> /\ up
  BY DEF send_cb, Dispatch
<1>2. TypeOK /\ Owned /\ Places /\ EventsTrue /\ Untouched /\ Flow
  BY <1>1 DEF IInv
<1>3. events' \in Seq(EventRecord) /\ c \in Conn /\ interest[fd] = "OUT" /\ c # NULL
  BY <1>1, <1>2, DispatchFacts, ConstantAssumption
<1>4. /\ got' = [got EXCEPT ![c] = Append(got[c], w)]
      /\ rst' \in {rst, rst \cup ({c} \cap fin)}
      /\ interest' = [interest EXCEPT ![fd] = "IN"]
      /\ UNCHANGED up
  BY DEF send_cb, set_event
<1>5. w \in Seq(PieceOf(c)) /\ w \in Message /\ w \in Seq(Piece)
  BY <1>2, <1>3 DEF Owned, TypeOK, Message
<1>6. got[c] \in Seq(Seq(PieceOf(c))) /\ got[c] \in Seq(Message)
  BY <1>2, <1>3 DEF Owned, TypeOK
<1> HIDE DEF w
<1>7. Append(got[c], w) \in Seq(Seq(PieceOf(c))) /\ Append(got[c], w) \in Seq(Message)
  BY <1>5, <1>6
<1>8. got'[c] = Append(got[c], w) /\ \A d \in Conn : d # c => got'[d] = got[d]
  BY <1>2, <1>3, <1>4 DEF TypeOK
<1>9. interest'[fd] = "IN" /\ \A g \in Fd : g # fd => interest'[g] = interest[g]
  BY <1>2, <1>4 DEF TypeOK
<1>10. TypeOK'
  <2>1. got' \in [Conn -> Seq(Message)] /\ interest' \in [Fd -> {"none", "IN", "OUT"}]
    BY <1>2, <1>4, <1>7 DEF TypeOK
  <2>2. rst' \subseteq Conn
    BY <1>2, <1>3, <1>4 DEF TypeOK
  <2>3. QED
    BY <1>1, <1>2, <1>3, <1>4, <2>1, <2>2 DEF TypeOK, EventRecord
<1>11. Owned'
  BY <1>1, <1>2, <1>7, <1>8 DEF Owned
<1>12. Places'
  BY <1>1, <1>2, <1>3, <1>9 DEF Places
<1>13. EventsTrue'
  <2>1. ASSUME NEW g \in Fd, g # fd
        PROVE  /\ file'[g] = file[g] /\ interest'[g] = interest[g]
               /\ Readable(g) => Readable(g)'
    BY <1>1, <1>9, <2>1 DEF Readable
  <2>2. QED
    BY <1>1, <1>2, <2>1, EventsKept
<1>14. Connected' = Connected /\ c \in Connected
  BY <1>1, <1>3, ConnectedIs DEF Connected
<1>15. Untouched'
  BY <1>1, <1>2, <1>8, <1>14 DEF Untouched
<1>16. Flow'
  <2>1. /\ Answered(c)' = Answered(c) \o w
        /\ \A d \in Conn : d # c => Answered(d)' = Answered(d)
    BY <1>5, <1>6, <1>8, FlattenAppend DEF Answered
  <2>2. Pending(c) = w /\ Pending(c)' = <<>>
    <3>1. PendingTrue /\ PendingTrue'
      BY <1>2, <1>12, PendingFacts, PTL
    <3>2. \A g \in Fd : file'[g] = c => g = fd
      BY <1>1, <1>2, <1>3 DEF Places
    <3>3. QED
      BY <1>3, <1>9, <3>1, <3>2 DEF PendingTrue, w
  <2>3. ASSUME NEW d \in Conn, d # c
        PROVE  Pending(d)' = Pending(d)
    <3>1. file[fd] # d /\ file'[fd] # d
      BY <1>1, <2>3
    <3>2. QED
      BY <1>1, <1>2, <1>9, <1>12, <3>1, PendingSame
  <2>4. Answered(c) \in Seq(Piece) /\ stream[c] \in Seq(Piece)
    BY <1>2, <1>3 DEF Flow, TypeOK
  <2>5. /\ (Answered(c) \o w) \o <<>> \o stream[c] = Answered(c) \o w \o stream[c]
        /\ Answered(c) \o w \in Seq(Piece)
    BY <1>5, <2>4, ConcatMoves
  <2>6. Answered(c)' \o Pending(c)' \o stream'[c] = [i \in 1 .. sent'[c] |-> <<c, i>>]
    <3>1. Answered(c) \o Pending(c) \o stream[c] = [i \in 1 .. sent[c] |-> <<c, i>>]
      BY <1>2, <1>14 DEF Flow
    <3>2. QED
      BY <1>1, <2>1, <2>2, <2>5, <3>1
  <2>7. QED
    BY <1>1, <1>2, <1>14, <2>1, <2>3, <2>5, <2>6, ConnectedType DEF Flow
<1>17. QED
  BY <1>10, <1>11, <1>12, <1>13, <1>15, <1>16 DEF IInv

(* send_cb on a connection that was reset: the process ends.                *)
LEMMA SendDiesKeeps ==
  ASSUME IInv, NEW fd \in Fd, send_cb(fd), file[fd] \in rst
  PROVE  IInv'
<1>1. Dispatch(fd, "OUT") /\ UNCHANGED <<backlog, file, stream, fin, sent, wbuffer>> /\ up
  BY DEF send_cb, Dispatch
<1>2. up' = FALSE /\ UNCHANGED <<got, rst, interest>>
  BY DEF send_cb
<1>3. TypeOK /\ Owned /\ Places /\ EventsTrue
  BY <1>1 DEF IInv
<1>4. events' \in Seq(EventRecord)
  BY <1>1, <1>3, DispatchFacts
<1>5. TypeOK' /\ Owned'
  BY <1>1, <1>2, <1>3, <1>4 DEF TypeOK, EventRecord, Owned
<1>6. QED
  BY <1>2, <1>5 DEF IInv

(* Steps that change nothing.                                               *)
LEMMA StutterKeeps ==
  ASSUME IInv, UNCHANGED vars
  PROVE  IInv'
<1>1. UNCHANGED <<backlog, file, interest, stream, fin, rst, sent, got, events, wbuffer, up>>
  BY DEF vars
<1>2. TypeOK' <=> TypeOK
  BY <1>1 DEF TypeOK
<1>3. Owned' <=> Owned
  BY <1>1 DEF Owned
<1>4. Places' <=> Places
  BY <1>1 DEF Places
<1>5. EventsTrue' <=> EventsTrue
  BY <1>1 DEF EventsTrue, Readable
<1>6. Connected' = Connected
  BY <1>1 DEF Connected
<1>7. Untouched' <=> Untouched
  BY <1>1, <1>6 DEF Untouched
<1>8. Flow' <=> Flow
  BY <1>1, <1>6 DEF Flow, Answered, Pending, Answering
<1>9. QED
  BY <1>1, <1>2, <1>3, <1>4, <1>5, <1>7, <1>8 DEF IInv

(* Every step keeps the invariant.                                          *)
LEMMA NextKeeps == IInv /\ [Next]_vars => IInv'
<1>1. SUFFICES ASSUME IInv, [Next]_vars
               PROVE  IInv'
  OBVIOUS
<1>2. CASE epoll_wait
  BY <1>1, <1>2, EpollWaitKeeps
<1>3. CASE accept_cb
  BY <1>1, <1>3, AcceptKeeps
<1>4. ASSUME NEW fd \in Fd, recv_cb(fd)
      PROVE  IInv'
  <2>1. CASE file[fd] # NULL /\ recv(file[fd]) # <<>>
    BY <1>1, <1>4, <2>1, RecvMessageKeeps
  <2>2. CASE file[fd] = NULL \/ recv(file[fd]) = <<>>
    BY <1>1, <1>4, <2>2, RecvEndKeeps
  <2>3. QED
    BY <2>1, <2>2
<1>5. ASSUME NEW fd \in Fd, send_cb(fd)
      PROVE  IInv'
  <2>1. CASE file[fd] \in rst
    BY <1>1, <1>5, <2>1, SendDiesKeeps
  <2>2. CASE file[fd] \notin rst
    BY <1>1, <1>5, <2>2, SendReplyKeeps
  <2>3. QED
    BY <2>1, <2>2
<1>6. ASSUME up, NEW c \in Conn, Connect(c) \/ Send(c) \/ Disconnect(c)
      PROVE  IInv'
  BY <1>1, <1>6, ConnectKeeps, SendKeeps, DisconnectKeeps
<1>7. CASE Down \/ Idle \/ UNCHANGED vars
  <2>1. UNCHANGED vars
    BY <1>7 DEF Down, Idle
  <2>2. QED
    BY <1>1, <2>1, StutterKeeps
<1>8. QED
  BY <1>1, <1>2, <1>3, <1>4, <1>5, <1>6, <1>7 DEF Next, ServerStep, ClientStep

------------------------------------------------------------------------------
(* Whatever clients send, and whenever they connect and disconnect, also    *)
(* between epoll_wait and the callback, an event is handled for the         *)
(* connection it was raised for, by the callback that is registered then.   *)
THEOREM EventsAreFresh == Spec => []EventsFresh
<1>1. IInv => EventsFresh
  BY DEF IInv, EventsTrue, EventsFresh
<1>2. QED
  BY InitIInv, NextKeeps, <1>1, PTL DEF Spec

(* While the server runs, every piece an open connection was sent is in     *)
(* order in the replies sent, the reply being sent, or the bytes unread,    *)
(* and replies reach their own connections.                                 *)
THEOREM NothingIsLost == Spec => []NothingLost
<1>1. IInv => NothingLost
  <2>1. SUFFICES ASSUME IInv
                 PROVE  NothingLost
    OBVIOUS
  <2>2. TypeOK /\ Owned
    BY <2>1 DEF IInv
  <2>3. \A c \in Conn : \A p \in PieceOf(c) : p[1] = c
    BY DEF PieceOf
  <2>4. OwnReplies
    <3>1. ASSUME NEW c \in Conn, NEW i \in 1 .. Len(got[c]), NEW j \in 1 .. Len(got[c][i])
          PROVE  got[c][i][j][1] = c
      <4>1. got[c][i] \in Seq(PieceOf(c))
        BY <2>2 DEF Owned
      <4>2. got[c][i][j] \in PieceOf(c)
        BY <4>1
      <4>3. QED
        BY <2>3, <4>2
    <3>2. ASSUME NEW c \in Conn, NEW fd \in Answering(c), NEW j \in 1 .. Len(wbuffer[fd])
          PROVE  wbuffer[fd][j][1] = c
      <4>1. fd \in Fd /\ file[fd] = c /\ c # NULL
        BY ConstantAssumption DEF Answering
      <4>2. wbuffer[fd] \in Seq(PieceOf(c))
        BY <2>2, <4>1 DEF Owned
      <4>3. wbuffer[fd][j] \in PieceOf(c)
        BY <4>2
      <4>4. QED
        BY <2>3, <4>3
    <3>3. QED
      BY <3>1, <3>2 DEF OwnReplies
  <2>5. QED
    BY <2>1, <2>2, <2>4 DEF IInv, Flow, NothingLost, Answered
<1>2. QED
  BY InitIInv, NextKeeps, <1>1, PTL DEF Spec
==============================================================================
