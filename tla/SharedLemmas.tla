------------------------------ MODULE SharedLemmas ------------------------------
(***************************************************************************)
(* What the proofs about several components cite: the remainders behind    *)
(* the wrapping sequence numbers of both senders, what moving an item does *)
(* to the accounts of a bounded queue, for the sender's and the            *)
(* receiver's, and the datagram formats: for every byte size, what is      *)
(* written comes back, and a part of it is refused.                        *)
(***************************************************************************)
EXTENDS Integers, Sequences, FiniteSets, Wire,
        SequenceTheorems, FiniteSetTheorems, WellFoundedInduction, TLAPS

-----------------------------------------------------------------------------
(* Remainders. *)

\* The remainder modulo m is the only number below m that differs by a multiple.
LEMMA RemainderIsUnique ==
  ASSUME NEW m \in Nat \ {0}, NEW q \in Int, NEW r \in 0 .. m - 1
  PROVE  (m * q + r) % m = r
OBVIOUS

\* A multiple leaves no remainder.
LEMMA MultipleHasNone ==
  ASSUME NEW m \in Nat \ {0}, NEW q \in Int
  PROVE  (m * q) % m = 0
OBVIOUS

\* Counting on from a remainder is counting on from the number: the wrapped
\* sequence number follows the count of packets.
LEMMA WrappedSuccessor ==
  ASSUME NEW m \in Nat \ {0}, NEW a \in Nat
  PROVE  ((a % m) + 1) % m = (a + 1) % m
<1> DEFINE q == a \div m
           r == a % m
<1>1. q \in Int /\ r \in 0 .. m - 1 /\ a = m * q + r
  OBVIOUS
<1> HIDE DEF q, r
<1>2. CASE r + 1 < m
  <2>1. r + 1 \in 0 .. m - 1 /\ a + 1 = m * q + (r + 1) /\ r + 1 = m * 0 + (r + 1)
    BY <1>1, <1>2
  <2>2. (m * q + (r + 1)) % m = r + 1 /\ (m * 0 + (r + 1)) % m = r + 1
    BY <1>1, <2>1, RemainderIsUnique
  <2> QED
    BY <2>1, <2>2 DEF r
<1>3. CASE r + 1 = m
  <2>1. a + 1 = m * (q + 1) /\ r + 1 = m * 1 /\ q + 1 \in Int
    BY <1>1, <1>3
  <2>2. (m * (q + 1)) % m = 0 /\ (m * 1) % m = 0
    BY <2>1, MultipleHasNone
  <2> QED
    BY <2>1, <2>2 DEF r
<1> QED
  BY <1>1, <1>2, <1>3

\* A positive factor can be cancelled.
LEMMA FactorCancels ==
  ASSUME NEW m \in Nat \ {0}, NEW a \in Int, NEW b \in Int, m * a = m * b
  PROVE  a = b
<1>1. m * (a - b) = 0
  OBVIOUS
<1> QED
  BY <1>1

\* One multiple further.
LEMMA NextMultiple ==
  ASSUME NEW m \in Nat \ {0}, NEW a \in Nat, a % m = 0
  PROVE  (a + m) % m = 0 /\ (a + m) \div m = (a \div m) + 1
<1> DEFINE q == a \div m
<1>1. q \in Int /\ a = m * q
  OBVIOUS
<1> HIDE DEF q
<1>2. a + m = m * (q + 1)
  BY <1>1
<1>3. (a + m) % m = 0
  <2>1. q + 1 \in Int
    BY <1>1
  <2>2. (m * (q + 1)) % m = 0
    BY <2>1, MultipleHasNone
  <2> QED
    BY <1>2, <2>2
<1>4. a + m = m * ((a + m) \div m) /\ (a + m) \div m \in Int
  BY <1>3
<1>5. (a + m) \div m = q + 1
  <2>1. m * ((a + m) \div m) = m * (q + 1) /\ q + 1 \in Int
    BY <1>1, <1>2, <1>4
  <2> QED
    BY <1>4, <2>1, FactorCancels
<1> QED
  BY <1>3, <1>5 DEF q

-----------------------------------------------------------------------------
(* Sequences used as queues. *)

Elements(s) == {s[i] : i \in 1 .. Len(s)}

\* What the queue operations do to types and lengths.
LEMMA QueueLengths ==
  ASSUME NEW S, NEW s \in Seq(S)
  PROVE  /\ Len(s) \in Nat
         /\ \A e \in S : Append(s, e) \in Seq(S) /\ Len(Append(s, e)) = Len(s) + 1
         /\ s # <<>> => /\ Head(s) \in S /\ Tail(s) \in Seq(S)
                        /\ Len(s) > 0 /\ Len(Tail(s)) = Len(s) - 1
<1>1. Len(s) \in Nat
  BY LenProperties
<1>2. \A e \in S : Append(s, e) \in Seq(S) /\ Len(Append(s, e)) = Len(s) + 1
  BY AppendProperties
<1>3. ASSUME s # <<>>
      PROVE  /\ Head(s) \in S /\ Tail(s) \in Seq(S)
             /\ Len(s) > 0 /\ Len(Tail(s)) = Len(s) - 1
  BY <1>3, HeadTailProperties, EmptySeq
<1> QED BY <1>1, <1>2, <1>3

\* Appending adds the one element.
LEMMA ElementsOfAppend ==
  ASSUME NEW S, NEW s \in Seq(S), NEW e \in S
  PROVE  Elements(Append(s, e)) = Elements(s) \cup {e}
<1>1. /\ Len(s) \in Nat /\ Len(Append(s, e)) = Len(s) + 1
      /\ \A i \in 1 .. Len(s) : Append(s, e)[i] = s[i]
      /\ Append(s, e)[Len(s) + 1] = e
  BY AppendProperties, LenProperties
<1>2. 1 .. Len(s) + 1 = (1 .. Len(s)) \cup {Len(s) + 1}
  BY <1>1
<1>3. Elements(Append(s, e)) = {Append(s, e)[i] : i \in (1 .. Len(s)) \cup {Len(s) + 1}}
  BY <1>1, <1>2 DEF Elements
<1> QED BY <1>1, <1>3 DEF Elements

\* A queue holds its head and the elements of its tail, one place further on.
LEMMA ElementsOfTail ==
  ASSUME NEW S, NEW s \in Seq(S), s # <<>>
  PROVE  /\ Elements(s) = {Head(s)} \cup Elements(Tail(s))
         /\ Head(s) = s[1]
         /\ \A i \in 1 .. Len(Tail(s)) : i + 1 \in 1 .. Len(s) /\ Tail(s)[i] = s[i + 1]
<1>1. /\ Len(s) \in Nat /\ Len(s) > 0 /\ Len(Tail(s)) = Len(s) - 1
      /\ Head(s) = s[1]
      /\ \A i \in 1 .. Len(Tail(s)) : Tail(s)[i] = s[i + 1]
  BY HeadTailProperties, EmptySeq, LenProperties
<1>2. \A i \in 1 .. Len(Tail(s)) : i + 1 \in 1 .. Len(s)
  BY <1>1
<1>3. \A j \in 1 .. Len(s) : j # 1 => j - 1 \in 1 .. Len(Tail(s)) /\ Tail(s)[j - 1] = s[j]
  <2> SUFFICES ASSUME NEW j \in 1 .. Len(s), j # 1
               PROVE  j - 1 \in 1 .. Len(Tail(s)) /\ Tail(s)[j - 1] = s[j]
    OBVIOUS
  <2>1. j - 1 \in 1 .. Len(Tail(s)) /\ (j - 1) + 1 = j
    BY <1>1
  <2> QED BY <1>1, <2>1
<1>4. 1 \in 1 .. Len(s)
  BY <1>1
<1>5. Elements(s) \subseteq {Head(s)} \cup Elements(Tail(s))
  BY <1>1, <1>3 DEF Elements
<1>6. {Head(s)} \cup Elements(Tail(s)) \subseteq Elements(s)
  BY <1>1, <1>2, <1>4 DEF Elements
<1> QED BY <1>1, <1>2, <1>5, <1>6

\* The accounts of a queue q: of the n items offered so far, each is in the
\* queue, among the c items of T that the consumer has, or in the set d of the
\* lost ones, and no item is queued twice or is queued and lost.
Accounts(q, T, c, d, n) ==
  /\ Elements(q) \cup T \cup d = 1 .. n
  /\ Elements(q) \cap d = {}
  /\ \A i, j \in 1 .. Len(q) : q[i] = q[j] => i = j
  /\ IsFiniteSet(d)
  /\ Len(q) + c + Cardinality(d) = n

\* The next item is lost at once.
LEMMA AccountsRefuse ==
  ASSUME NEW S, NEW q \in Seq(S), NEW T, NEW c \in Nat, NEW d, NEW n \in Nat,
         Accounts(q, T, c, d, n)
  PROVE  Accounts(q, T, c, d \cup {n + 1}, n + 1)
<1>1. n + 1 \notin 1 .. n /\ 1 .. n + 1 = (1 .. n) \cup {n + 1}
  OBVIOUS
<1>2. n + 1 \notin d /\ n + 1 \notin Elements(q)
  BY <1>1 DEF Accounts
<1>3. /\ IsFiniteSet(d \cup {n + 1}) /\ Cardinality(d) \in Nat
      /\ Cardinality(d \cup {n + 1}) = Cardinality(d) + 1
  BY <1>2, FS_AddElement, FS_CardinalityType DEF Accounts
<1>4. Len(q) + c + Cardinality(d \cup {n + 1}) = n + 1
  BY <1>3, QueueLengths DEF Accounts
<1> QED BY <1>1, <1>2, <1>3, <1>4 DEF Accounts

\* The next item is queued.
LEMMA AccountsAccept ==
  ASSUME NEW S, NEW q \in Seq(S), NEW T, NEW c \in Nat, NEW d, NEW n \in Nat,
         n + 1 \in S, Accounts(q, T, c, d, n)
  PROVE  Accounts(Append(q, n + 1), T, c, d, n + 1)
<1> DEFINE p == Append(q, n + 1)
<1>1. n + 1 \notin 1 .. n /\ 1 .. n + 1 = (1 .. n) \cup {n + 1}
  OBVIOUS
<1>2. n + 1 \notin d /\ n + 1 \notin Elements(q)
  BY <1>1 DEF Accounts
<1>3. Elements(p) = Elements(q) \cup {n + 1}
  BY ElementsOfAppend
<1>4. /\ Len(q) \in Nat /\ Len(p) = Len(q) + 1
      /\ \A i \in 1 .. Len(q) : p[i] = q[i] /\ q[i] # n + 1
      /\ p[Len(q) + 1] = n + 1
  BY <1>2, AppendProperties, LenProperties DEF Elements
<1>5. \A i, j \in 1 .. Len(p) : p[i] = p[j] => i = j
  <2> HIDE DEF p
  <2> SUFFICES ASSUME NEW i \in 1 .. Len(p), NEW j \in 1 .. Len(p), p[i] = p[j]
               PROVE  i = j
    OBVIOUS
  <2>1. (i \in 1 .. Len(q) \/ i = Len(q) + 1) /\ (j \in 1 .. Len(q) \/ j = Len(q) + 1)
    BY <1>4
  <2> QED BY <1>4, <2>1 DEF Accounts
<1>6. Cardinality(d) \in Nat
  BY FS_CardinalityType DEF Accounts
<1>7. Len(p) + c + Cardinality(d) = n + 1
  BY <1>4, <1>6 DEF Accounts
<1> HIDE DEF p
<1>8. Accounts(p, T, c, d, n + 1)
  BY <1>1, <1>2, <1>3, <1>5, <1>7 DEF Accounts
<1> QED BY <1>8 DEF p

\* The oldest item leaves the queue: it is in nobody's account, its successors
\* are where they were, and it was not lost before.
LEMMA HeadLeaves ==
  ASSUME NEW S, NEW q \in Seq(S), q # <<>>, NEW T, NEW c \in Nat, NEW d, NEW n \in Nat,
         Accounts(q, T, c, d, n)
  PROVE  /\ Head(q) \notin Elements(Tail(q)) /\ Head(q) \notin d
         /\ \A i, j \in 1 .. Len(Tail(q)) : Tail(q)[i] = Tail(q)[j] => i = j
         /\ Elements(q) = {Head(q)} \cup Elements(Tail(q))
         /\ Len(q) \in Nat /\ Len(Tail(q)) = Len(q) - 1
<1>1. /\ Elements(q) = {Head(q)} \cup Elements(Tail(q)) /\ Head(q) = q[1]
      /\ \A i \in 1 .. Len(Tail(q)) : i + 1 \in 1 .. Len(q) /\ Tail(q)[i] = q[i + 1]
      /\ Len(q) \in Nat /\ Len(q) > 0 /\ Len(Tail(q)) = Len(q) - 1
  BY ElementsOfTail, QueueLengths
<1>2. \A i, j \in 1 .. Len(Tail(q)) : Tail(q)[i] = Tail(q)[j] => i = j
  <2> SUFFICES ASSUME NEW i \in 1 .. Len(Tail(q)), NEW j \in 1 .. Len(Tail(q)),
                      Tail(q)[i] = Tail(q)[j]
               PROVE  i = j
    OBVIOUS
  <2>1. q[i + 1] = q[j + 1] /\ i + 1 \in 1 .. Len(q) /\ j + 1 \in 1 .. Len(q)
    BY <1>1
  <2>2. i + 1 = j + 1
    BY <2>1 DEF Accounts
  <2> QED BY <2>2
<1>3. Head(q) \notin Elements(Tail(q))
  <2> SUFFICES ASSUME NEW i \in 1 .. Len(Tail(q)), Tail(q)[i] = q[1] PROVE FALSE
    BY <1>1 DEF Elements
  <2>1. i + 1 = 1
    <3>1. 1 \in 1 .. Len(q) /\ i + 1 \in 1 .. Len(q) /\ q[i + 1] = q[1]
      BY <1>1
    <3> QED BY <3>1 DEF Accounts
  <2> QED BY <2>1
<1> QED BY <1>1, <1>2, <1>3 DEF Accounts

\* The oldest item is thrown away.
LEMMA AccountsDiscard ==
  ASSUME NEW S, NEW q \in Seq(S), q # <<>>, NEW T, NEW c \in Nat, NEW d, NEW n \in Nat,
         Accounts(q, T, c, d, n)
  PROVE  Accounts(Tail(q), T, c, d \cup {Head(q)}, n)
<1>1. /\ Head(q) \notin Elements(Tail(q)) /\ Head(q) \notin d
      /\ \A i, j \in 1 .. Len(Tail(q)) : Tail(q)[i] = Tail(q)[j] => i = j
      /\ Elements(q) = {Head(q)} \cup Elements(Tail(q))
      /\ Len(q) \in Nat /\ Len(Tail(q)) = Len(q) - 1
  BY HeadLeaves
<1>2. /\ IsFiniteSet(d \cup {Head(q)}) /\ Cardinality(d) \in Nat
      /\ Cardinality(d \cup {Head(q)}) = Cardinality(d) + 1
  BY <1>1, FS_AddElement, FS_CardinalityType DEF Accounts
<1>3. Len(Tail(q)) + c + Cardinality(d \cup {Head(q)}) = n
  BY <1>1, <1>2 DEF Accounts
<1> QED BY <1>1, <1>2, <1>3 DEF Accounts

\* The oldest item goes to the consumer.
LEMMA AccountsTake ==
  ASSUME NEW S, NEW q \in Seq(S), q # <<>>, NEW T, NEW c \in Nat, NEW d, NEW n \in Nat,
         Accounts(q, T, c, d, n)
  PROVE  Accounts(Tail(q), T \cup {Head(q)}, c + 1, d, n)
<1>1. /\ Head(q) \notin Elements(Tail(q)) /\ Head(q) \notin d
      /\ \A i, j \in 1 .. Len(Tail(q)) : Tail(q)[i] = Tail(q)[j] => i = j
      /\ Elements(q) = {Head(q)} \cup Elements(Tail(q))
      /\ Len(q) \in Nat /\ Len(Tail(q)) = Len(q) - 1
  BY HeadLeaves
<1>2. Cardinality(d) \in Nat
  BY FS_CardinalityType DEF Accounts
<1>3. Len(Tail(q)) + (c + 1) + Cardinality(d) = n
  BY <1>1, <1>2 DEF Accounts
<1> QED BY <1>1, <1>3 DEF Accounts

\* Moving the first element of one sequence to the end of another leaves their
\* concatenation as it is.
LEMMA MoveHead ==
  ASSUME NEW S, NEW s \in Seq(S), NEW t \in Seq(S), t # <<>>
  PROVE  Append(s, Head(t)) \o Tail(t) = s \o t
<1>1. Head(t) \in S /\ Tail(t) \in Seq(S) /\ <<Head(t)>> \in Seq(S)
  BY QueueLengths
<1>2. Append(s, Head(t)) = s \o <<Head(t)>>
  BY <1>1, AppendIsConcat
<1>3. <<Head(t)>> \o Tail(t) = t
  BY <1>1, HeadTailProperties
<1> QED BY <1>1, <1>2, <1>3, ConcatAssociative

-----------------------------------------------------------------------------
(* Induction, and sequences by position. *)

\* A set of numbers that has 0 and with each number the next has them all.
LEMMA SetInduction ==
  ASSUME NEW S, 0 \in S, \A n \in Nat : n \in S => n + 1 \in S
  PROVE  \A n \in Nat : n \in S
<1> DEFINE R == OpToRel(<, Nat)
           T == {n \in Nat : n \notin S}
<1>1. SUFFICES ASSUME T # {} PROVE FALSE
  OBVIOUS
<1>2. IsWellFoundedOn(R, Nat)
  BY NatLessThanWellFounded
<1>3. PICK x \in T : \A y \in T : ~(<<y, x>> \in R)
  <2> HIDE DEF R, T
  <2> QED BY <1>1, <1>2, WFMin, T \subseteq Nat DEF T
<1>4. x \in Nat /\ x # 0 /\ x - 1 \in Nat /\ x - 1 \notin S
  <2>1. x \in Nat /\ x # 0 /\ x \notin S
    OBVIOUS
  <2>2. x - 1 \in Nat /\ (x - 1) + 1 = x
    BY <2>1
  <2> QED BY <2>1, <2>2
<1>5. <<x - 1, x>> \in R
  BY <1>4 DEF OpToRel
<1> QED BY <1>3, <1>4, <1>5

\* s is a sequence of n elements, whatever they are.
HasLen(s, n) == n \in Nat /\ s = [i \in 1 .. n |-> s[i]]

\* The library's sequences.
LEMMA LenToSeq ==
  ASSUME NEW S, NEW s, NEW n, HasLen(s, n), \A i \in 1 .. n : s[i] \in S
  PROVE  s \in Seq(S) /\ Len(s) = n
BY DEF HasLen

\* And back.
LEMMA SeqToLen ==
  ASSUME NEW S, NEW s \in Seq(S)
  PROVE  HasLen(s, Len(s))
BY DEF HasLen

\* r is the m elements of s and then the n elements of t.
Joins(r, s, m, t, n) ==
  /\ HasLen(r, m + n)
  /\ \A i \in 1 .. m : r[i] = s[i]
  /\ \A i \in 1 .. n : r[m + i] = t[i]

\* A concatenation, by position.
LEMMA ConcatAt ==
  ASSUME NEW s, NEW t, NEW m, NEW n, HasLen(s, m), HasLen(t, n)
  PROVE  Joins(s \o t, s, m, t, n)
<1> DEFINE S == {s[i] : i \in 1 .. m} \cup {t[i] : i \in 1 .. n}
<1>0. m \in Nat /\ n \in Nat
  BY DEF HasLen
<1>a. (\A i \in 1 .. m : s[i] \in S) /\ \A i \in 1 .. n : t[i] \in S
  OBVIOUS
<1> HIDE DEF S
<1>1. s \in Seq(S) /\ t \in Seq(S) /\ Len(s) = m /\ Len(t) = n
  BY <1>a, LenToSeq
<1>2. s \in Seq(S) /\ t \in Seq(S)
  BY <1>1
<1>3. /\ s \o t \in Seq(S) /\ Len(s \o t) = Len(s) + Len(t)
      /\ \A i \in 1 .. Len(s) + Len(t) :
           (s \o t)[i] = IF i <= Len(s) THEN s[i] ELSE t[i - Len(s)]
  BY <1>2, ConcatProperties
<1>4. /\ s \o t \in Seq(S) /\ Len(s \o t) = m + n
      /\ \A i \in 1 .. m + n : (s \o t)[i] = IF i <= m THEN s[i] ELSE t[i - m]
  BY <1>1, <1>3
<1>5. HasLen(s \o t, m + n)
  <2>1. HasLen(s \o t, Len(s \o t))
    BY <1>3, SeqToLen
  <2> QED BY <1>4, <2>1
<1>6. ASSUME NEW i \in 1 .. m PROVE (s \o t)[i] = s[i]
  BY <1>0, <1>4
<1>7. ASSUME NEW i \in 1 .. n PROVE (s \o t)[m + i] = t[i]
  <2>1. m + i \in 1 .. m + n /\ ~(m + i <= m) /\ (m + i) - m = i
    BY <1>0
  <2> QED BY <1>4, <2>1
<1> QED BY <1>5, <1>6, <1>7 DEF Joins

\* A part of a sequence, by position.
LEMMA PartAt ==
  ASSUME NEW s, NEW n, HasLen(s, n), NEW a \in 1 .. n + 1, NEW b \in a - 1 .. n
  PROVE  /\ HasLen(SubSeq(s, a, b), b - a + 1)
         /\ \A i \in 1 .. b - a + 1 : SubSeq(s, a, b)[i] = s[a + i - 1]
<1> DEFINE S == {s[i] : i \in a .. b}
<1>0. n \in Nat /\ a \in Int /\ b \in Int /\ b - a + 1 \in Nat
  BY DEF HasLen
<1>1. \A i \in a .. b : s[i] \in S
  OBVIOUS
<1> HIDE DEF S
<1>2. /\ SubSeq(s, a, b) \in Seq(S)
      /\ Len(SubSeq(s, a, b)) = IF a <= b THEN b - a + 1 ELSE 0
      /\ \A i \in 1 .. b - a + 1 : SubSeq(s, a, b)[i] = s[a + i - 1]
  BY <1>0, <1>1, SubSeqProperties
<1>3. Len(SubSeq(s, a, b)) = b - a + 1
  BY <1>0, <1>2
<1>4. SubSeq(s, a, b) = [i \in 1 .. b - a + 1 |-> SubSeq(s, a, b)[i]]
  BY <1>2, <1>3
<1> QED BY <1>0, <1>2, <1>4 DEF HasLen

-----------------------------------------------------------------------------
(* Lists of fields, and the cursor that moves over them. *)

\* A list of fields: known widths, no name twice.
IsFormat(fields) ==
  /\ Len(fields) \in Nat
  /\ \A i \in 1 .. Len(fields) : fields[i][2] \in {2, 4, 8}
  /\ \A i, k \in 1 .. Len(fields) : fields[i][1] = fields[k][1] => i = k

\* Where the cursor is after each field.
LEMMA CursorFacts ==
  ASSUME NEW fields, IsFormat(fields)
  PROVE  /\ Len(fields) \in Nat /\ \A i \in 1 .. Len(fields) : fields[i][2] \in {2, 4, 8}
         /\ \A i \in 0 .. Len(fields) : Cursor(fields)[i] \in Nat
         /\ Cursor(fields)[0] = 0
         /\ \A i \in 1 .. Len(fields) :
              Cursor(fields)[i] = Cursor(fields)[i - 1] + fields[i][2]
<1> DEFINE Adds(c, n) == c[0] = 0 /\ \A i \in 1 .. n : c[i] = c[i - 1] + fields[i][2]
           Reached(n) == \E c \in [0 .. n -> Nat] : Adds(c, n)
           S == {n \in Nat : n <= Len(fields) => Reached(n)}
<1>0. /\ Len(fields) \in Nat /\ \A i \in 1 .. Len(fields) : fields[i][2] \in Nat
      /\ \A i \in 1 .. Len(fields) : fields[i][2] \in {2, 4, 8}
  BY DEF IsFormat
<1>1. Reached(0)
  <2>1. [i \in 0 .. 0 |-> 0] \in [0 .. 0 -> Nat] /\ Adds([i \in 0 .. 0 |-> 0], 0)
    OBVIOUS
  <2> QED BY <2>1
<1>2. ASSUME NEW n \in Nat, Reached(n), n + 1 <= Len(fields) PROVE Reached(n + 1)
  <2>1. PICK c \in [0 .. n -> Nat] : Adds(c, n)
    BY <1>2
  <2> DEFINE d == [i \in 0 .. n + 1 |-> IF i = n + 1 THEN c[n] + fields[n + 1][2] ELSE c[i]]
  <2>2. n + 1 \in 1 .. Len(fields) /\ c[n] \in Nat
    BY <1>0, <1>2
  <2>3. d \in [0 .. n + 1 -> Nat]
    BY <1>0, <2>2
  <2>4. Adds(d, n + 1)
    <3>1. d[0] = 0
      BY <2>1
    <3>2. ASSUME NEW i \in 1 .. n + 1 PROVE d[i] = d[i - 1] + fields[i][2]
      <4>1. CASE i = n + 1
        BY <4>1
      <4>2. CASE i # n + 1
        <5>1. i \in 1 .. n /\ i - 1 \in 0 .. n /\ i - 1 # n + 1 /\ i \in 0 .. n + 1
          BY <4>2
        <5> QED BY <2>1, <4>2, <5>1
      <4> QED BY <4>1, <4>2
    <3> QED BY <3>1, <3>2
  <2> QED BY <2>3, <2>4
<1>3. Reached(Len(fields))
  <2> HIDE DEF Reached
  <2>1. 0 \in S /\ \A n \in Nat : n \in S => n + 1 \in S
    BY <1>0, <1>1, <1>2
  <2> HIDE DEF S
  <2>2. \A n \in Nat : n \in S
    BY <2>1, SetInduction
  <2> QED BY <1>0, <2>2 DEF S
<1>4. PICK c \in [0 .. Len(fields) -> Nat] : Adds(c, Len(fields))
  BY <1>3
<1> DEFINE after == CHOOSE f : f = [i \in 0 .. Len(fields) |->
                                      IF i = 0 THEN 0 ELSE f[i - 1] + fields[i][2]]
<1>5. c = [i \in 0 .. Len(fields) |-> IF i = 0 THEN 0 ELSE c[i - 1] + fields[i][2]]
  BY <1>0, <1>4
<1>6. after = [i \in 0 .. Len(fields) |-> IF i = 0 THEN 0 ELSE after[i - 1] + fields[i][2]]
  BY <1>5
<1>7. Cursor(fields) = after
  BY DEF Cursor
<1> HIDE DEF after, Adds
<1>8. after[0] = 0 /\ \A i \in 1 .. Len(fields) : after[i] = after[i - 1] + fields[i][2]
  BY <1>0, <1>6
<1>9. \A n \in 0 .. Len(fields) : after[n] \in Nat
  <2> DEFINE U == {n \in Nat : n <= Len(fields) => after[n] \in Nat}
  <2>1. 0 \in U
    BY <1>8
  <2>2. ASSUME NEW n \in Nat, n \in U PROVE n + 1 \in U
    <3>1. ASSUME n + 1 <= Len(fields) PROVE after[n + 1] \in Nat
      <4>1. n + 1 \in 1 .. Len(fields) /\ (n + 1) - 1 = n /\ after[n] \in Nat
        BY <1>0, <2>2, <3>1
      <4> QED BY <1>0, <1>8, <4>1
    <3> QED BY <3>1
  <2> HIDE DEF U
  <2>3. \A n \in Nat : n \in U
    BY <2>1, <2>2, SetInduction
  <2> QED BY <1>0, <2>3 DEF U
<1> QED BY <1>0, <1>7, <1>8, <1>9

\* The cursor only moves forward.
LEMMA CursorMonotone ==
  ASSUME NEW fields, IsFormat(fields),
         NEW i \in 0 .. Len(fields), NEW k \in i .. Len(fields)
  PROVE  Cursor(fields)[i] <= Cursor(fields)[k]
<1> DEFINE at == Cursor(fields)
           S == {n \in Nat : i + n <= Len(fields) => at[i] <= at[i + n]}
<1>0. /\ Len(fields) \in Nat /\ i \in Nat /\ k \in Nat
      /\ \A m \in 1 .. Len(fields) : fields[m][2] \in {2, 4, 8}
      /\ \A m \in 0 .. Len(fields) : at[m] \in Nat
      /\ \A m \in 1 .. Len(fields) : at[m] = at[m - 1] + fields[m][2]
  <2>1. Len(fields) \in Nat
    BY DEF IsFormat
  <2> QED BY <2>1, CursorFacts
<1> HIDE DEF at
<1>1. 0 \in S
  BY <1>0
<1>2. ASSUME NEW n \in Nat, n \in S PROVE n + 1 \in S
  <2>1. ASSUME i + (n + 1) <= Len(fields) PROVE at[i] <= at[i + (n + 1)]
    <3>1. /\ i + n + 1 \in 1 .. Len(fields) /\ i + (n + 1) = i + n + 1
          /\ (i + n + 1) - 1 = i + n /\ i + n \in 0 .. Len(fields)
      BY <1>0, <2>1
    <3>2. at[i] <= at[i + n]
      BY <1>2, <3>1
    <3>3. at[i + n + 1] = at[i + n] + fields[i + n + 1][2]
      BY <1>0, <3>1
    <3>4. at[i] \in Nat /\ at[i + n] \in Nat
      BY <1>0, <3>1
    <3>6. fields[i + n + 1][2] \in {2, 4, 8}
      BY <1>0, <3>1
    <3>5. at[i] <= at[i + n + 1]
      BY <3>2, <3>3, <3>4, <3>6
    <3> QED BY <3>1, <3>5
  <2> QED BY <2>1
<1> HIDE DEF S
<1>3. \A n \in Nat : n \in S
  BY <1>1, <1>2, SetInduction
<1>4. k - i \in Nat /\ i + (k - i) = k
  BY <1>0
<1>5. k - i \in S
  BY <1>3, <1>4
<1>6. at[i] <= at[k]
  BY <1>0, <1>4, <1>5 DEF S
<1> QED BY <1>6 DEF at

\* A byte belongs to one field.
LEMMA FieldOfByte ==
  ASSUME NEW fields, IsFormat(fields), NEW i \in 1 .. Len(fields),
         NEW j \in Int, Cursor(fields)[i - 1] < j, j <= Cursor(fields)[i]
  PROVE  (CHOOSE m \in 1 .. Len(fields) :
            Cursor(fields)[m - 1] < j /\ j <= Cursor(fields)[m]) = i
<1> DEFINE at == Cursor(fields)
<1>1. ASSUME NEW m \in 1 .. Len(fields), at[m - 1] < j, j <= at[m] PROVE m = i
  <2>1. Len(fields) \in Nat /\ \A n \in 0 .. Len(fields) : at[n] \in Nat
    BY CursorFacts
  <2>2. /\ m \in 0 .. Len(fields) /\ m - 1 \in 0 .. Len(fields)
        /\ i \in 0 .. Len(fields) /\ i - 1 \in 0 .. Len(fields)
    BY <2>1
  <2>3. ~(m < i)
    <3> SUFFICES ASSUME m < i PROVE FALSE
      OBVIOUS
    <3>1. i - 1 \in m .. Len(fields)
      BY <2>1, <2>2
    <3>2. at[m] <= at[i - 1]
      BY <2>2, <3>1, CursorMonotone
    <3> QED BY <1>1, <2>1, <2>2, <3>2
  <2>4. ~(i < m)
    <3> SUFFICES ASSUME i < m PROVE FALSE
      OBVIOUS
    <3>1. m - 1 \in i .. Len(fields)
      BY <2>1, <2>2
    <3>2. at[i] <= at[m - 1]
      BY <2>2, <3>1, CursorMonotone
    <3> QED BY <1>1, <2>1, <2>2, <3>2
  <2> QED BY <2>1, <2>3, <2>4
<1> QED BY <1>1

-----------------------------------------------------------------------------
(* Integers on the wire. *)

\* A number is its two halves.
LEMMA Halves ==
  ASSUME NEW m \in Nat \ {0}, NEW v \in Nat, v \div m < m
  PROVE  /\ v % m \in 0 .. m - 1 /\ v \div m \in 0 .. m - 1
         /\ v = (v % m) + (v \div m) * m
OBVIOUS

\* The sizes are what they are meant to be.
LEMMA Sizes == /\ Byte \in Nat \ {0} /\ Byte2 \in Nat \ {0} /\ Byte4 \in Nat \ {0}
               /\ Byte2 = Byte * Byte /\ Byte4 = Byte2 * Byte2
               /\ Byte2 >= 225 /\ Byte4 >= 50625
<1>1. Byte \in Nat \ {0}
  BY ByteAssumption
<1>2. Byte2 \in Nat \ {0} /\ Byte2 >= 225
  <2>1. Byte * Byte >= 15 * 15
    BY ByteAssumption
  <2> QED BY <1>1, <2>1 DEF Byte2
<1>3. Byte4 \in Nat \ {0} /\ Byte4 >= 50625
  <2> HIDE DEF Byte2
  <2>1. Byte2 * Byte2 >= 225 * 225
    BY <1>2
  <2> QED BY <1>2, <2>1 DEF Byte4
<1> QED BY <1>1, <1>2, <1>3 DEF Byte2, Byte4

\* A number below m * m has a quotient below m.
LEMMA BelowSquare ==
  ASSUME NEW m \in Nat \ {0}, NEW v \in Nat, v < m * m
  PROVE  v \div m < m
<1> DEFINE q == v \div m
<1> SUFFICES ASSUME q >= m PROVE FALSE
  OBVIOUS
<1>1. q \in Nat /\ q * m <= v
  OBVIOUS
<1> HIDE DEF q
<1>2. m * m <= q * m
  BY <1>1
<1>3. m * m \in Int /\ q * m \in Int
  BY <1>1
<1> QED BY <1>1, <1>2, <1>3

\* What fits an unsigned integer of each width.
LEMMA HalfFits ==
  /\ \A v \in 0 .. Byte2 - 1 : Fits(v, 2)
  /\ \A v \in 0 .. Byte4 - 1 : Fits(v, 4)
  /\ \A v \in 0 .. Byte4 * Byte4 - 1 : Fits(v, 8)
<1>1. ASSUME NEW v \in 0 .. Byte2 - 1 PROVE Fits(v, 2)
  <2>1. v \in Nat /\ v < Byte * Byte
    BY Sizes
  <2>2. v \div Byte < Byte
    BY <2>1, Sizes, BelowSquare
  <2> QED BY <2>1, <2>2 DEF Fits
<1>2. ASSUME NEW v \in 0 .. Byte4 - 1 PROVE Fits(v, 4)
  <2>1. v \in Nat /\ v < Byte2 * Byte2
    BY Sizes
  <2>2. v \div Byte2 < Byte2
    BY <2>1, Sizes, BelowSquare
  <2> QED BY <2>1, <2>2 DEF Fits
<1>3. ASSUME NEW v \in 0 .. Byte4 * Byte4 - 1 PROVE Fits(v, 8)
  <2>1. v \in Nat /\ v < Byte4 * Byte4
    BY Sizes
  <2>2. v \div Byte4 < Byte4
    BY <2>1, Sizes, BelowSquare
  <2> QED BY <2>1, <2>2 DEF Fits
<1> QED BY <1>1, <1>2, <1>3

\* write_u16 and read_u16.
LEMMA U16RoundTrip ==
  ASSUME NEW v, Fits(v, 2), NEW bytes, NEW at \in Nat,
         \A k \in 1 .. 2 : bytes[at + k] = WriteU16(v)[k]
  PROVE  ReadU16(bytes, at) = v
<1>1. v \in Nat /\ v \div Byte < Byte /\ Byte \in Nat \ {0}
  BY Sizes DEF Fits
<1>2. /\ v % Byte \in 0 .. Byte - 1 /\ v \div Byte \in 0 .. Byte - 1
      /\ v = (v % Byte) + (v \div Byte) * Byte
  BY <1>1, Halves
<1>3. (v \div Byte) % Byte = v \div Byte
  <2> DEFINE q == v \div Byte
  <2>1. q \in 0 .. Byte - 1
    BY <1>2
  <2> HIDE DEF q
  <2>2. q % Byte = q
    BY <1>1, <2>1
  <2> QED BY <2>2 DEF q
<1>4. bytes[at + 1] = v % Byte /\ bytes[at + 2] = v \div Byte
  <2>1. WriteU16(v)[1] = v % Byte /\ WriteU16(v)[2] = v \div Byte
    BY <1>3 DEF WriteU16
  <2> QED BY <2>1
<1> QED BY <1>2, <1>4 DEF ReadU16

\* The two bytes of write_u16.
LEMMA U16Bytes == ASSUME NEW v PROVE HasLen(WriteU16(v), 2)
BY DEF WriteU16, HasLen

\* The bytes of write_u32: the lower half, then the upper.
LEMMA U32Bytes ==
  ASSUME NEW v
  PROVE  /\ HasLen(WriteU32(v), 4)
         /\ \A k \in 1 .. 2 : /\ WriteU32(v)[k] = WriteU16(v % Byte2)[k]
                              /\ WriteU32(v)[2 + k] = WriteU16(v \div Byte2)[k]
<1> DEFINE lo == WriteU16(v % Byte2)
           hi == WriteU16(v \div Byte2)
<1>1. HasLen(lo, 2) /\ HasLen(hi, 2)
  BY U16Bytes
<1>2. WriteU32(v) = lo \o hi
  BY DEF WriteU32
<1> HIDE DEF lo, hi
<1>3. /\ HasLen(lo \o hi, 2 + 2)
      /\ \A i \in 1 .. 2 : (lo \o hi)[i] = lo[i]
      /\ \A i \in 1 .. 2 : (lo \o hi)[2 + i] = hi[i]
  <2>1. Joins(lo \o hi, lo, 2, hi, 2)
    BY <1>1, ConcatAt
  <2> QED BY <2>1 DEF Joins
<1>4. HasLen(lo \o hi, 4)
  BY <1>3, 2 + 2 = 4
<1> QED BY <1>2, <1>3, <1>4 DEF lo, hi

\* write_u32 and read_u32.
LEMMA U32RoundTrip ==
  ASSUME NEW v, Fits(v, 4), NEW bytes, NEW at \in Nat,
         \A k \in 1 .. 4 : bytes[at + k] = WriteU32(v)[k]
  PROVE  ReadU32(bytes, at) = v
<1>1. v \in Nat /\ v \div Byte2 < Byte2 /\ Byte2 \in Nat \ {0}
  BY Sizes DEF Fits
<1>2. /\ v % Byte2 \in 0 .. Byte2 - 1 /\ v \div Byte2 \in 0 .. Byte2 - 1
      /\ v = (v % Byte2) + (v \div Byte2) * Byte2
  BY <1>1, Halves
<1>3. ASSUME NEW k \in 1 .. 2
      PROVE  /\ bytes[at + k] = WriteU16(v % Byte2)[k]
             /\ bytes[(at + 2) + k] = WriteU16(v \div Byte2)[k]
  <2>1. /\ k \in 1 .. 4 /\ 2 + k \in 1 .. 4 /\ v \in Int
        /\ at + (2 + k) = (at + 2) + k
    BY <1>1
  <2>2. /\ WriteU32(v)[k] = WriteU16(v % Byte2)[k]
        /\ WriteU32(v)[2 + k] = WriteU16(v \div Byte2)[k]
    BY <2>1, U32Bytes
  <2> QED BY <2>1, <2>2
<1>4. ReadU16(bytes, at) = v % Byte2
  BY <1>2, <1>3, HalfFits, U16RoundTrip
<1>5. ReadU16(bytes, at + 2) = v \div Byte2
  BY <1>2, <1>3, at + 2 \in Nat, HalfFits, U16RoundTrip
<1> QED BY <1>2, <1>4, <1>5 DEF ReadU32

\* The bytes of write_u64: the lower half, then the upper.
LEMMA U64Bytes ==
  ASSUME NEW v
  PROVE  /\ HasLen(WriteU64(v), 8)
         /\ \A k \in 1 .. 4 : /\ WriteU64(v)[k] = WriteU32(v % Byte4)[k]
                              /\ WriteU64(v)[4 + k] = WriteU32(v \div Byte4)[k]
<1> DEFINE lo == WriteU32(v % Byte4)
           hi == WriteU32(v \div Byte4)
<1>1. HasLen(lo, 4) /\ HasLen(hi, 4)
  BY U32Bytes
<1>2. WriteU64(v) = lo \o hi
  BY DEF WriteU64
<1> HIDE DEF lo, hi
<1>3. /\ HasLen(lo \o hi, 4 + 4)
      /\ \A i \in 1 .. 4 : (lo \o hi)[i] = lo[i]
      /\ \A i \in 1 .. 4 : (lo \o hi)[4 + i] = hi[i]
  <2>1. Joins(lo \o hi, lo, 4, hi, 4)
    BY <1>1, ConcatAt
  <2> QED BY <2>1 DEF Joins
<1>4. HasLen(lo \o hi, 8)
  BY <1>3, 4 + 4 = 8
<1> QED BY <1>2, <1>3, <1>4 DEF lo, hi

\* write_u64 and read_u64.
LEMMA U64RoundTrip ==
  ASSUME NEW v, Fits(v, 8), NEW bytes, NEW at \in Nat,
         \A k \in 1 .. 8 : bytes[at + k] = WriteU64(v)[k]
  PROVE  ReadU64(bytes, at) = v
<1>1. v \in Nat /\ v \div Byte4 < Byte4 /\ Byte4 \in Nat \ {0}
  BY Sizes DEF Fits
<1>2. /\ v % Byte4 \in 0 .. Byte4 - 1 /\ v \div Byte4 \in 0 .. Byte4 - 1
      /\ v = (v % Byte4) + (v \div Byte4) * Byte4
  BY <1>1, Halves
<1>3. ASSUME NEW k \in 1 .. 4
      PROVE  /\ bytes[at + k] = WriteU32(v % Byte4)[k]
             /\ bytes[(at + 4) + k] = WriteU32(v \div Byte4)[k]
  <2>1. /\ k \in 1 .. 8 /\ 4 + k \in 1 .. 8 /\ v \in Int
        /\ at + (4 + k) = (at + 4) + k
    BY <1>1
  <2>2. /\ WriteU64(v)[k] = WriteU32(v % Byte4)[k]
        /\ WriteU64(v)[4 + k] = WriteU32(v \div Byte4)[k]
    BY <2>1, U64Bytes
  <2> QED BY <2>1, <2>2
<1>4. ReadU32(bytes, at) = v % Byte4
  BY <1>2, <1>3, HalfFits, U32RoundTrip
<1>5. ReadU32(bytes, at + 4) = v \div Byte4
  BY <1>2, <1>3, at + 4 \in Nat, HalfFits, U32RoundTrip
<1> QED BY <1>2, <1>4, <1>5 DEF ReadU64

\* The value stands in the bytes from the cursor on.
Stands(v, width, bytes, at) ==
  \A k \in 1 .. width : bytes[at + k] = WriteUint(v, width)[k]

\* A field of any width.
LEMMA UintRoundTrip ==
  ASSUME NEW width \in {2, 4, 8}, NEW v, Fits(v, width),
         NEW bytes, NEW at \in Nat, Stands(v, width, bytes, at)
  PROVE  ReadUint(bytes, at, width) = v
<1>1. CASE width = 2
  <2>1. /\ Fits(v, 2) /\ WriteUint(v, width) = WriteU16(v)
        /\ ReadUint(bytes, at, width) = ReadU16(bytes, at)
    BY <1>1 DEF WriteUint, ReadUint
  <2> QED BY <1>1, <2>1, U16RoundTrip DEF Stands
<1>2. CASE width = 4
  <2>1. /\ Fits(v, 4) /\ WriteUint(v, width) = WriteU32(v)
        /\ ReadUint(bytes, at, width) = ReadU32(bytes, at)
    BY <1>2 DEF WriteUint, ReadUint
  <2> QED BY <1>2, <2>1, U32RoundTrip DEF Stands
<1>3. CASE width = 8
  <2>1. /\ Fits(v, 8) /\ WriteUint(v, width) = WriteU64(v)
        /\ ReadUint(bytes, at, width) = ReadU64(bytes, at)
    BY <1>3 DEF WriteUint, ReadUint
  <2> QED BY <1>3, <2>1, U64RoundTrip DEF Stands
<1> QED BY <1>1, <1>2, <1>3

\* The fields stand behind the four bytes of the magic number.
FieldsStand(fields, r, bytes) ==
  \A j \in 1 .. Cursor(fields)[Len(fields)] : bytes[4 + j] = WriteFields(fields, r)[j]

\* Whatever the list of fields, what from_bytes reads behind the magic number is
\* what to_bytes wrote there, if every value fits its field.
LEMMA FieldsRoundTrip ==
  ASSUME NEW fields, IsFormat(fields), NEW r, FieldsFit(fields, r),
         NEW bytes, FieldsStand(fields, r, bytes)
  PROVE  ReadFields(fields, bytes) = [name \in Names(fields) |-> r[name]]
<1> DEFINE at == Cursor(fields)
<1>0. /\ Len(fields) \in Nat
      /\ \A m \in 1 .. Len(fields) : fields[m][2] \in {2, 4, 8}
      /\ \A m \in 0 .. Len(fields) : at[m] \in Nat
      /\ \A m \in 1 .. Len(fields) : at[m] = at[m - 1] + fields[m][2]
  BY CursorFacts
<1>1. ASSUME NEW i \in 1 .. Len(fields)
      PROVE  ReadUint(bytes, 4 + at[i - 1], fields[i][2]) = r[fields[i][1]]
  <2> DEFINE width == fields[i][2]
             v == r[fields[i][1]]
  <2>1. /\ width \in {2, 4, 8} /\ at[i - 1] \in Nat /\ at[i] = at[i - 1] + width
        /\ at[i] \in Nat /\ at[Len(fields)] \in Nat
    BY <1>0
  <2>2. at[i] <= at[Len(fields)]
    <3>1. i \in 0 .. Len(fields) /\ Len(fields) \in i .. Len(fields)
      BY <1>0
    <3> QED BY <3>1, CursorMonotone
  <2>3. ASSUME NEW k \in 1 .. width PROVE bytes[(4 + at[i - 1]) + k] = WriteUint(v, width)[k]
    <3> DEFINE j == at[i - 1] + k
    <3>1. /\ j \in 1 .. at[Len(fields)] /\ j \in Int /\ at[i - 1] < j /\ j <= at[i]
          /\ 4 + j = (4 + at[i - 1]) + k /\ j - at[i - 1] = k
      <4> HIDE DEF at, width, v
      <4>1. width \in Nat /\ k \in Nat /\ 1 <= k /\ k <= width
        BY <2>1
      <4> QED BY SMTT(30), <2>1, <2>2, <4>1
    <3>2. (CHOOSE m \in 1 .. Len(fields) : at[m - 1] < j /\ j <= at[m]) = i
      <4> HIDE DEF j
      <4> QED BY <3>1, FieldOfByte
    <3>3. WriteFields(fields, r)[j] = WriteUint(v, width)[k]
      <4> HIDE DEF at, j
      <4>1. WriteFields(fields, r)[j] =
              LET m == CHOOSE m \in 1 .. Len(fields) : at[m - 1] < j /\ j <= at[m]
              IN WriteUint(r[fields[m][1]], fields[m][2])[j - at[m - 1]]
        BY <3>1 DEF WriteFields, at
      <4> QED BY <3>1, <3>2, <4>1
    <3>4. bytes[4 + j] = WriteFields(fields, r)[j]
      <4> HIDE DEF j
      <4> QED BY <3>1 DEF FieldsStand
    <3> HIDE DEF j
    <3> QED BY <3>1, <3>3, <3>4
  <2>4. Fits(v, width) /\ 4 + at[i - 1] \in Nat
    BY <2>1 DEF FieldsFit
  <2> HIDE DEF width, v, at
  <2>5. ReadUint(bytes, 4 + at[i - 1], width) = v
    <3>1. Stands(v, width, bytes, 4 + at[i - 1])
      BY <2>3 DEF Stands
    <3> QED BY <2>1, <2>4, <3>1, UintRoundTrip
  <2> QED BY <2>5 DEF width, v
<1>2. ASSUME NEW i \in 1 .. Len(fields)
      PROVE  (CHOOSE m \in 1 .. Len(fields) : fields[m][1] = fields[i][1]) = i
  BY DEF IsFormat
<1> HIDE DEF at
<1>3. ASSUME NEW name \in Names(fields)
      PROVE  ReadFields(fields, bytes)[name] = r[name]
  <2>1. PICK i \in 1 .. Len(fields) : name = fields[i][1]
    BY DEF Names
  <2>2. ReadFields(fields, bytes)[name] =
          LET m == CHOOSE m \in 1 .. Len(fields) : fields[m][1] = name
          IN ReadUint(bytes, 4 + at[m - 1], fields[m][2])
    BY DEF ReadFields, Names, at
  <2>3. (CHOOSE m \in 1 .. Len(fields) : fields[m][1] = name) = i
    BY <1>2, <2>1
  <2> QED BY <1>1, <2>1, <2>2, <2>3
<1>4. ReadFields(fields, bytes) = [name \in Names(fields) |-> ReadFields(fields, bytes)[name]]
  BY DEF ReadFields, Names
<1> QED BY <1>3, <1>4

-----------------------------------------------------------------------------
(* Audio packets. *)

\* The header is a format, and reader and writer agree on it.
LEMMA HeaderFormat ==
  /\ HeaderRead = HeaderWritten /\ IsFormat(HeaderWritten) /\ Len(HeaderWritten) = 12
  /\ Names(HeaderWritten) =
       {"version", "header_size", "stream_id", "sequence", "flags", "sample_rate",
        "channels", "sample_format", "frames", "reserved", "sample_position",
        "send_time_ns"}
  /\ Cursor(HeaderWritten)[12] = 48
<1>1. HeaderRead = HeaderWritten
  BY DEF HeaderRead, HeaderWritten
<1>2. Len(HeaderWritten) = 12
  BY DEF HeaderWritten
<1>3. \A i \in 1 .. 12 : HeaderWritten[i][2] \in {2, 4, 8}
  BY DEF HeaderWritten
<1>4. \A i, k \in 1 .. 12 : HeaderWritten[i][1] = HeaderWritten[k][1] => i = k
  BY DEF HeaderWritten
<1>5. IsFormat(HeaderWritten)
  BY <1>2, <1>3, <1>4 DEF IsFormat
<1>6. Names(HeaderWritten) =
       {"version", "header_size", "stream_id", "sequence", "flags", "sample_rate",
        "channels", "sample_format", "frames", "reserved", "sample_position",
        "send_time_ns"}
  BY <1>2 DEF Names, HeaderWritten
<1> DEFINE at == Cursor(HeaderWritten)
<1>7. /\ at[0] = 0
      /\ \A i \in 1 .. 12 : at[i] = at[i - 1] + HeaderWritten[i][2]
  BY <1>2, <1>5, CursorFacts
<1> HIDE DEF at
<1>8. at[12] = 48
  <2>1. /\ HeaderWritten[1][2] = 2 /\ HeaderWritten[2][2] = 2 /\ HeaderWritten[3][2] = 8
        /\ HeaderWritten[4][2] = 4 /\ HeaderWritten[5][2] = 4 /\ HeaderWritten[6][2] = 4
        /\ HeaderWritten[7][2] = 2 /\ HeaderWritten[8][2] = 2 /\ HeaderWritten[9][2] = 2
        /\ HeaderWritten[10][2] = 2 /\ HeaderWritten[11][2] = 8 /\ HeaderWritten[12][2] = 8
    BY DEF HeaderWritten
  <2>2. at[1] = 2 /\ at[2] = 4 /\ at[3] = 12 /\ at[4] = 16
    BY <1>7, <2>1
  <2>3. at[5] = 20 /\ at[6] = 24 /\ at[7] = 26 /\ at[8] = 28
    BY <1>7, <2>1, <2>2
  <2>4. at[9] = 30 /\ at[10] = 32 /\ at[11] = 40 /\ at[12] = 48
    BY <1>7, <2>1, <2>3
  <2> QED BY <2>4
<1> QED BY <1>1, <1>2, <1>5, <1>6, <1>8 DEF at

\* A header as from_bytes accepts it, its numbers of the types of their fields.
IsHeader(header) ==
  /\ header = [name \in Names(HeaderWritten) |-> header[name]]
  /\ FieldsFit(HeaderWritten, header)
  /\ header.version = VERSION /\ header.header_size = HEADER_SIZE
  /\ header.sample_rate = SAMPLE_RATE /\ header.channels = CHANNELS
  /\ header.sample_format = SAMPLE_FORMAT_S16LE

\* A packet has a number of frames.
LEMMA FramesIsNat == ASSUME NEW h, IsHeader(h) PROVE h.frames \in Nat
<1>1. HeaderWritten[9] = <<"frames", 2>> /\ 9 \in 1 .. Len(HeaderWritten)
  BY HeaderFormat DEF HeaderWritten
<1>2. Fits(h[HeaderWritten[9][1]], HeaderWritten[9][2])
  <2>1. FieldsFit(HeaderWritten, h)
    BY DEF IsHeader
  <2> QED BY <1>1, <2>1 DEF FieldsFit
<1>3. Fits(h["frames"], 2)
  BY <1>1, <1>2
<1> QED BY <1>3 DEF Fits

\* The header that from_bytes reads is the header that was written.
LEMMA HeaderRoundTrip ==
  ASSUME NEW header, IsHeader(header), NEW bytes,
         \A j \in 1 .. 48 : bytes[4 + j] = WriteFields(HeaderWritten, header)[j]
  PROVE  ReadFields(HeaderRead, bytes) = header
<1>1. FieldsStand(HeaderWritten, header, bytes)
  BY HeaderFormat DEF FieldsStand
<1>2. IsFormat(HeaderWritten) /\ FieldsFit(HeaderWritten, header)
  BY HeaderFormat DEF IsHeader
<1>3. ReadFields(HeaderWritten, bytes) = [name \in Names(HeaderWritten) |-> header[name]]
  BY <1>1, <1>2, FieldsRoundTrip
<1> QED BY <1>3, HeaderFormat DEF IsHeader

\* The samples come back, sign included.
LEMMA Int16RoundTrip ==
  ASSUME NEW x \in Int16, NEW bytes, NEW at \in Nat,
         \A k \in 1 .. 2 : bytes[at + k] = WriteInt16(x)[k]
  PROVE  ReadInt16(bytes, at) = x
<1>1. Byte2 \in Nat \ {0} /\ Byte2 \div 2 \in Nat /\ Byte2 \div 2 <= Byte2
  BY Sizes
<1>2. /\ x % Byte2 \in 0 .. Byte2 - 1
      /\ x % Byte2 = IF x >= 0 THEN x ELSE x + Byte2
  BY <1>1 DEF Int16
<1>3. ReadU16(bytes, at) = x % Byte2
  BY <1>2, HalfFits, U16RoundTrip DEF WriteInt16
<1> QED BY <1>1, <1>2, <1>3 DEF ReadInt16, Int16

\* The bytes of a format.
LEMMA FieldsLen ==
  ASSUME NEW fields, IsFormat(fields), NEW r
  PROVE  HasLen(WriteFields(fields, r), Cursor(fields)[Len(fields)])
<1>1. Cursor(fields)[Len(fields)] \in Nat
  <2>1. Len(fields) \in 0 .. Len(fields)
    BY DEF IsFormat
  <2> QED BY <2>1, CursorFacts
<1> DEFINE n == Cursor(fields)[Len(fields)]
<1>2. WriteFields(fields, r) = [j \in 1 .. n |-> WriteFields(fields, r)[j]]
  BY DEF WriteFields
<1> QED BY <1>1, <1>2 DEF HasLen

\* Where things are in a packet: magic number, header, two bytes a sample.
IsPacket(bytes, header, payload, n) ==
  /\ HasLen(bytes, 52 + 2 * n)
  /\ \A k \in 1 .. 4 : bytes[k] = MAGIC[k]
  /\ \A j \in 1 .. 48 : bytes[4 + j] = WriteFields(HeaderWritten, header)[j]
  /\ \A i \in 1 .. n, k \in 1 .. 2 :
       bytes[(52 + 2 * (i - 1)) + k] = WriteInt16(payload[i])[k]

\* That is how write_stereo_f32_packet_bytes lays a packet out.
LEMMA PacketLayout ==
  ASSUME NEW header, NEW payload, NEW n, HasLen(payload, n)
  PROVE  IsPacket(PacketBytes(header, payload), header, payload, n)
<1> DEFINE head == WriteFields(HeaderWritten, header)
           body == [j \in 1 .. 2 * Len(payload) |->
                      WriteInt16(payload[(j + 1) \div 2])[2 - (j % 2)]]
<1>1. n \in Nat /\ Len(payload) = n
  BY DEF HasLen
<1>2. HasLen(MAGIC, 4)
  BY DEF MAGIC, Letters, HasLen
<1>3. HasLen(head, 48)
  BY HeaderFormat, FieldsLen
<1>4. HasLen(body, 2 * n)
  BY <1>1 DEF HasLen
<1>5. ASSUME NEW i \in 1 .. n, NEW k \in 1 .. 2
      PROVE  2 * (i - 1) + k \in 1 .. 2 * n /\ body[2 * (i - 1) + k] = WriteInt16(payload[i])[k]
  <2> DEFINE j == 2 * (i - 1) + k
  <2>1. j \in 1 .. 2 * n /\ (j + 1) \div 2 = i /\ 2 - (j % 2) = k
    BY <1>1
  <2> HIDE DEF j
  <2>2. body[j] = WriteInt16(payload[(j + 1) \div 2])[2 - (j % 2)]
    BY <1>1, <2>1
  <2> QED BY <2>1, <2>2 DEF j
<1>6. PacketBytes(header, payload) = (MAGIC \o head) \o body
  BY DEF PacketBytes
<1> HIDE DEF head, body
<1>7. /\ HasLen(MAGIC \o head, 4 + 48)
      /\ \A k \in 1 .. 4 : (MAGIC \o head)[k] = MAGIC[k]
      /\ \A j \in 1 .. 48 : (MAGIC \o head)[4 + j] = head[j]
  <2>1. Joins(MAGIC \o head, MAGIC, 4, head, 48)
    BY <1>2, <1>3, ConcatAt
  <2> QED BY <2>1 DEF Joins
<1> DEFINE front == MAGIC \o head
<1>8. HasLen(front, 52)
  BY <1>7, 4 + 48 = 52
<1> HIDE DEF front
<1>9. /\ HasLen(front \o body, 52 + 2 * n)
      /\ \A k \in 1 .. 52 : (front \o body)[k] = front[k]
      /\ \A j \in 1 .. 2 * n : (front \o body)[52 + j] = body[j]
  <2>1. Joins(front \o body, front, 52, body, 2 * n)
    BY <1>4, <1>8, ConcatAt
  <2> QED BY <2>1 DEF Joins
<1>10. \A k \in 1 .. 4 : (front \o body)[k] = MAGIC[k]
  <2>1. \A k \in 1 .. 4 : front[k] = MAGIC[k]
    BY <1>7 DEF front
  <2>2. ASSUME NEW k \in 1 .. 4 PROVE (front \o body)[k] = front[k]
    BY <1>9, k \in 1 .. 52
  <2> QED BY <2>1, <2>2
<1>11. ASSUME NEW j \in 1 .. 48 PROVE (front \o body)[4 + j] = head[j]
  <2>1. 4 + j \in 1 .. 52
    OBVIOUS
  <2>2. (front \o body)[4 + j] = front[4 + j]
    BY <1>9, <2>1
  <2> QED BY <1>7, <2>2 DEF front
<1>12. ASSUME NEW i \in 1 .. n, NEW k \in 1 .. 2
       PROVE  (front \o body)[(52 + 2 * (i - 1)) + k] = WriteInt16(payload[i])[k]
  <2>1. (52 + 2 * (i - 1)) + k = 52 + (2 * (i - 1) + k)
    BY <1>1
  <2> QED BY <1>5, <1>9, <2>1
<1> QED BY <1>6, <1>9, <1>10, <1>11, <1>12, ZenonT(30) DEF IsPacket, front, head

\* Two sequences of a length are equal when their elements are.
LEMMA SameElements ==
  ASSUME NEW s, NEW t, NEW n, HasLen(s, n), HasLen(t, n), \A i \in 1 .. n : s[i] = t[i]
  PROVE  s = t
BY DEF HasLen

\* The first n elements.
LEMMA FrontAt ==
  ASSUME NEW s, NEW m, HasLen(s, m), NEW n \in 0 .. m
  PROVE  HasLen(SubSeq(s, 1, n), n) /\ \A i \in 1 .. n : SubSeq(s, 1, n)[i] = s[i]
<1>1. m \in Nat /\ 1 \in 1 .. m + 1 /\ n \in 1 - 1 .. m /\ n - 1 + 1 = n
  BY DEF HasLen
<1>2. /\ HasLen(SubSeq(s, 1, n), n - 1 + 1)
      /\ \A i \in 1 .. n - 1 + 1 : SubSeq(s, 1, n)[i] = s[1 + i - 1]
  BY <1>1, PartAt
<1>3. ASSUME NEW i \in 1 .. n PROVE SubSeq(s, 1, n)[i] = s[i]
  BY <1>1, <1>2, 1 + i - 1 = i
<1> QED BY <1>1, <1>2, <1>3

\* from_bytes after write_stereo_f32_packet_bytes: the whole packet gives back
\* header and samples, a part of it is refused (packet.rs:85-160).
THEOREM PacketComesBack ==
  ASSUME NEW h, IsHeader(h),
         NEW payload, HasLen(payload, 2 * h.frames),
         \A i \in 1 .. 2 * h.frames : payload[i] \in Int16,
         NEW n \in 0 .. 52 + 4 * h.frames
  PROVE  PacketFromBytes(SubSeq(PacketBytes(h, payload), 1, n)) =
           IF n = 52 + 4 * h.frames THEN Ok([header |-> h, payload |-> payload]) ELSE Err
<1> DEFINE frames == h.frames
           full == PacketBytes(h, payload)
           bytes == SubSeq(full, 1, n)
<1>1. frames \in Nat /\ 52 + 2 * (2 * frames) = 52 + 4 * frames /\ n \in Nat
  <2>1. frames \in Nat
    BY FramesIsNat
  <2> HIDE DEF frames
  <2> QED BY <2>1
<1>2. /\ HasLen(full, 52 + 2 * (2 * frames))
      /\ \A k \in 1 .. 4 : full[k] = MAGIC[k]
      /\ \A j \in 1 .. 48 : full[4 + j] = WriteFields(HeaderWritten, h)[j]
      /\ \A i \in 1 .. 2 * frames, k \in 1 .. 2 :
           full[(52 + 2 * (i - 1)) + k] = WriteInt16(payload[i])[k]
  <2>1. IsPacket(full, h, payload, 2 * frames)
    BY PacketLayout
  <2> HIDE DEF full, frames
  <2> QED BY <2>1 DEF IsPacket
<1>3. h.version = 1 /\ h.header_size = 52 /\ h.sample_rate = 48000 /\ h.channels = 2
      /\ h.sample_format = 1 /\ h.frames = frames
  BY DEF IsHeader, VERSION, HEADER_SIZE, SAMPLE_RATE, CHANNELS, SAMPLE_FORMAT_S16LE
<1> HIDE DEF full, frames
<1>4. HasLen(bytes, n) /\ \A i \in 1 .. n : bytes[i] = full[i]
  <2>1. HasLen(full, 52 + 4 * frames) /\ n \in 0 .. 52 + 4 * frames
    BY <1>1, <1>2 DEF frames
  <2> QED BY <2>1, FrontAt
<1> HIDE DEF bytes
<1>5. Len(bytes) = n
  BY <1>4 DEF HasLen
<1>6. CASE n < 52
  BY <1>1, <1>5, <1>6 DEF PacketFromBytes, HEADER_SIZE, bytes, full, frames
<1>7. CASE ~(n < 52)
  <2>1. ReadFields(HeaderRead, bytes) = h
    <3>1. ASSUME NEW j \in 1 .. 48 PROVE bytes[4 + j] = WriteFields(HeaderWritten, h)[j]
      <4>1. 4 + j \in 1 .. n
        BY <1>1, <1>7
      <4> QED BY <1>2, <1>4, <4>1
    <3> QED BY <3>1, HeaderRoundTrip
  <2>2. SubSeq(bytes, 1, 4) = MAGIC
    <3>1. HasLen(MAGIC, 4)
      BY DEF MAGIC, Letters, HasLen
    <3>2. 4 \in 0 .. n
      BY <1>1, <1>7
    <3>3. HasLen(SubSeq(bytes, 1, 4), 4) /\ \A i \in 1 .. 4 : SubSeq(bytes, 1, 4)[i] = bytes[i]
      BY <1>4, <3>2, FrontAt
    <3>4. ASSUME NEW i \in 1 .. 4 PROVE SubSeq(bytes, 1, 4)[i] = MAGIC[i]
      <4>1. i \in 1 .. n
        BY <1>1, <1>7
      <4> QED BY <1>2, <1>4, <3>3, <4>1
    <3> QED BY <3>1, <3>3, <3>4, SameElements
  <2>3. PayloadFits(h, bytes) <=> n = 52 + 4 * frames
    BY <1>1, <1>3, <1>5 DEF PayloadFits, HEADER_SIZE
  <2> DEFINE samples == [i \in 1 .. (Len(bytes) - 52) \div 2 |->
                           ReadInt16(bytes, 52 + 2 * (i - 1))]
  <2>4. PacketFromBytes(bytes) =
          IF PayloadFits(h, bytes) THEN Ok([header |-> h, payload |-> samples]) ELSE Err
    <3>1. ~(Len(bytes) < 52)
      BY <1>5, <1>7
    <3> HIDE DEF Ok, Err, PayloadFits, ReadFields, ReadInt16
    <3> QED BY <1>3, <2>1, <2>2, <3>1
          DEF PacketFromBytes, HEADER_SIZE, VERSION, SAMPLE_RATE, CHANNELS, SAMPLE_FORMAT_S16LE
  <2>5. CASE n = 52 + 4 * frames
    <3>1. (Len(bytes) - 52) \div 2 = 2 * frames
      BY <1>1, <1>5, <2>5
    <3>2. ASSUME NEW i \in 1 .. 2 * frames PROVE ReadInt16(bytes, 52 + 2 * (i - 1)) = payload[i]
      <4> DEFINE at == 52 + 2 * (i - 1)
      <4>1. at \in Nat /\ \A k \in 1 .. 2 : at + k \in 1 .. n
        BY <1>1, <2>5
      <4>2. \A k \in 1 .. 2 : full[at + k] = WriteInt16(payload[i])[k]
        BY <1>2
      <4> HIDE DEF at
      <4>3. \A k \in 1 .. 2 : bytes[at + k] = WriteInt16(payload[i])[k]
        BY <1>4, <4>1, <4>2
      <4>4. payload[i] \in Int16
        BY DEF frames
      <4>5. ReadInt16(bytes, at) = payload[i]
        BY <4>1, <4>3, <4>4, Int16RoundTrip
      <4> QED BY <4>5 DEF at
    <3>3. samples = payload
      <4>1. payload = [i \in 1 .. 2 * frames |-> payload[i]]
        BY DEF HasLen, frames
      <4> QED BY <3>1, <3>2, <4>1
    <3> HIDE DEF samples
    <3>4. PacketFromBytes(bytes) = Ok([header |-> h, payload |-> payload])
      BY <2>3, <2>4, <2>5, <3>3
    <3> QED BY <2>5, <3>4 DEF bytes, full, frames
  <2>6. CASE n # 52 + 4 * frames
    <3> HIDE DEF samples
    <3>1. PacketFromBytes(bytes) = Err
      BY <2>3, <2>4, <2>6
    <3> QED BY <2>6, <3>1 DEF bytes, full, frames
  <2> QED BY <2>5, <2>6
<1> QED BY <1>1, <1>6, <1>7

-----------------------------------------------------------------------------
(* What the reader accepts, the writer writes. *)

\* Two halves give back a number, and it gives them back.
LEMMA HalvesJoined ==
  ASSUME NEW m \in Nat \ {0}, NEW lo \in 0 .. m - 1, NEW hi \in 0 .. m - 1
  PROVE  /\ lo + hi * m \in 0 .. m * m - 1
         /\ (lo + hi * m) % m = lo /\ (lo + hi * m) \div m = hi
<1>1. hi * m \in Nat /\ m * m \in Nat /\ hi * m <= (m - 1) * m /\ (m - 1) * m = m * m - m
  OBVIOUS
<1> DEFINE v == lo + hi * m
           q == v \div m
           r == v % m
<1>2. v \in Nat /\ q \in Nat /\ r \in 0 .. m - 1 /\ v = q * m + r
  BY <1>1
<1>3. v = hi * m + lo
  BY <1>1
<1> HIDE DEF v, q, r
<1>4. q = hi
  <2>1. ~(q < hi)
    <3> SUFFICES ASSUME q < hi PROVE FALSE
      OBVIOUS
    <3>1. q + 1 <= hi /\ (q + 1) * m <= hi * m /\ (q + 1) * m = q * m + m
      BY <1>2
    <3>2. q * m \in Int
      BY <1>2
    <3> QED BY <1>1, <1>2, <1>3, <3>1, <3>2
  <2>2. ~(hi < q)
    <3> SUFFICES ASSUME hi < q PROVE FALSE
      OBVIOUS
    <3>1. hi + 1 <= q /\ (hi + 1) * m <= q * m /\ (hi + 1) * m = hi * m + m
      BY <1>2
    <3>2. q * m \in Int
      BY <1>2
    <3> QED BY <1>1, <1>2, <1>3, <3>1, <3>2
  <2> QED BY <1>2, <2>1, <2>2
<1>5. r = lo
  BY <1>1, <1>2, <1>3, <1>4
<1>6. v \in 0 .. m * m - 1
  BY <1>1, <1>2, <1>3
<1> QED BY <1>4, <1>5, <1>6 DEF v, q, r

\* Bytes from the cursor on.
AreBytes(bytes, at, n) == \A k \in 1 .. n : bytes[at + k] \in 0 .. Byte - 1

\* read_u16 and write_u16 back.
LEMMA U16Back ==
  ASSUME NEW bytes, NEW at \in Nat, AreBytes(bytes, at, 2)
  PROVE  /\ ReadU16(bytes, at) \in 0 .. Byte2 - 1
         /\ \A k \in 1 .. 2 : WriteU16(ReadU16(bytes, at))[k] = bytes[at + k]
<1> DEFINE lo == bytes[at + 1]
           hi == bytes[at + 2]
<1>1. lo \in 0 .. Byte - 1 /\ hi \in 0 .. Byte - 1
  BY DEF AreBytes
<1>2. ReadU16(bytes, at) = lo + hi * Byte
  BY DEF ReadU16
<1> HIDE DEF lo, hi
<1>3. /\ lo + hi * Byte \in 0 .. Byte * Byte - 1
      /\ (lo + hi * Byte) % Byte = lo /\ (lo + hi * Byte) \div Byte = hi
  BY <1>1, Sizes, HalvesJoined
<1>4. hi % Byte = hi
  BY <1>1, Sizes
<1>5. WriteU16(lo + hi * Byte) = <<lo, hi>>
  BY <1>3, <1>4 DEF WriteU16
<1>6. \A k \in 1 .. 2 : <<lo, hi>>[k] = bytes[at + k]
  BY DEF lo, hi
<1> QED BY <1>2, <1>3, <1>5, <1>6, Sizes

\* read_u32 and write_u32 back.
LEMMA U32Back ==
  ASSUME NEW bytes, NEW at \in Nat, AreBytes(bytes, at, 4)
  PROVE  /\ ReadU32(bytes, at) \in 0 .. Byte4 - 1
         /\ \A k \in 1 .. 4 : WriteU32(ReadU32(bytes, at))[k] = bytes[at + k]
<1> DEFINE lo == ReadU16(bytes, at)
           hi == ReadU16(bytes, at + 2)
           v == lo + hi * Byte2
<1>1. AreBytes(bytes, at, 2) /\ AreBytes(bytes, at + 2, 2) /\ at + 2 \in Nat
  <2>1. ASSUME NEW k \in 1 .. 2
        PROVE  bytes[at + k] \in 0 .. Byte - 1 /\ bytes[(at + 2) + k] \in 0 .. Byte - 1
    <3>1. k \in 1 .. 4 /\ k + 2 \in 1 .. 4 /\ at + (k + 2) = (at + 2) + k
      OBVIOUS
    <3> QED BY <3>1 DEF AreBytes
  <2> QED BY <2>1 DEF AreBytes
<1>2. /\ lo \in 0 .. Byte2 - 1 /\ hi \in 0 .. Byte2 - 1
      /\ \A k \in 1 .. 2 : /\ WriteU16(lo)[k] = bytes[at + k]
                           /\ WriteU16(hi)[k] = bytes[(at + 2) + k]
  BY <1>1, U16Back
<1>3. ReadU32(bytes, at) = v
  BY DEF ReadU32
<1> HIDE DEF lo, hi
<1>4. v \in 0 .. Byte2 * Byte2 - 1 /\ v % Byte2 = lo /\ v \div Byte2 = hi
  <2>1. Byte2 \in Nat \ {0} /\ lo \in 0 .. Byte2 - 1 /\ hi \in 0 .. Byte2 - 1
    BY <1>2, Sizes
  <2> QED BY <2>1, HalvesJoined
<1> HIDE DEF v
<1>5. \A k \in 1 .. 2 : WriteU32(v)[k] = WriteU16(lo)[k] /\ WriteU32(v)[2 + k] = WriteU16(hi)[k]
  BY <1>4, U32Bytes
<1>6. ASSUME NEW k \in 1 .. 4 PROVE WriteU32(v)[k] = bytes[at + k]
  <2>1. CASE k <= 2
    BY <1>2, <1>5, <2>1
  <2>2. CASE k > 2
    <3>1. k - 2 \in 1 .. 2 /\ 2 + (k - 2) = k /\ (at + 2) + (k - 2) = at + k
      BY <2>2
    <3> QED BY <1>2, <1>5, <3>1
  <2> QED BY <2>1, <2>2
<1> QED BY <1>3, <1>4, <1>6, Sizes

\* read_u64 and write_u64 back.
LEMMA U64Back ==
  ASSUME NEW bytes, NEW at \in Nat, AreBytes(bytes, at, 8)
  PROVE  /\ ReadU64(bytes, at) \in 0 .. Byte4 * Byte4 - 1
         /\ \A k \in 1 .. 8 : WriteU64(ReadU64(bytes, at))[k] = bytes[at + k]
<1> DEFINE lo == ReadU32(bytes, at)
           hi == ReadU32(bytes, at + 4)
           v == lo + hi * Byte4
<1>1. AreBytes(bytes, at, 4) /\ AreBytes(bytes, at + 4, 4) /\ at + 4 \in Nat
  <2>1. ASSUME NEW k \in 1 .. 4
        PROVE  bytes[at + k] \in 0 .. Byte - 1 /\ bytes[(at + 4) + k] \in 0 .. Byte - 1
    <3>1. k \in 1 .. 8 /\ k + 4 \in 1 .. 8 /\ at + (k + 4) = (at + 4) + k
      OBVIOUS
    <3> QED BY <3>1 DEF AreBytes
  <2> QED BY <2>1 DEF AreBytes
<1>2. /\ lo \in 0 .. Byte4 - 1 /\ hi \in 0 .. Byte4 - 1
      /\ \A k \in 1 .. 4 : /\ WriteU32(lo)[k] = bytes[at + k]
                           /\ WriteU32(hi)[k] = bytes[(at + 4) + k]
  BY <1>1, U32Back
<1>3. ReadU64(bytes, at) = v
  BY DEF ReadU64
<1> HIDE DEF lo, hi
<1>4. v \in 0 .. Byte4 * Byte4 - 1 /\ v % Byte4 = lo /\ v \div Byte4 = hi
  <2>1. Byte4 \in Nat \ {0} /\ lo \in 0 .. Byte4 - 1 /\ hi \in 0 .. Byte4 - 1
    BY <1>2, Sizes
  <2> QED BY <2>1, HalvesJoined
<1> HIDE DEF v
<1>5. \A k \in 1 .. 4 : WriteU64(v)[k] = WriteU32(lo)[k] /\ WriteU64(v)[4 + k] = WriteU32(hi)[k]
  BY <1>4, U64Bytes
<1>6. ASSUME NEW k \in 1 .. 8 PROVE WriteU64(v)[k] = bytes[at + k]
  <2>1. CASE k <= 4
    BY <1>2, <1>5, <2>1
  <2>2. CASE k > 4
    <3>1. k - 4 \in 1 .. 4 /\ 4 + (k - 4) = k /\ (at + 4) + (k - 4) = at + k
      BY <2>2
    <3> QED BY <1>2, <1>5, <3>1
  <2> QED BY <2>1, <2>2
<1> QED BY <1>3, <1>4, <1>6, Sizes

\* A field of any width and back.
LEMMA UintBack ==
  ASSUME NEW width \in {2, 4, 8}, NEW bytes, NEW at \in Nat, AreBytes(bytes, at, width)
  PROVE  /\ Stands(ReadUint(bytes, at, width), width, bytes, at)
         /\ Fits(ReadUint(bytes, at, width), width)
<1>1. CASE width = 2
  <2>1. \A v : WriteUint(v, width) = WriteU16(v)
    BY <1>1 DEF WriteUint
  <2>2. ReadUint(bytes, at, width) = ReadU16(bytes, at)
    BY <1>1 DEF ReadUint
  <2> QED BY <1>1, <2>1, <2>2, U16Back, HalfFits DEF Stands
<1>2. CASE width = 4
  <2>1. \A v : WriteUint(v, width) = WriteU32(v)
    BY <1>2 DEF WriteUint
  <2>2. ReadUint(bytes, at, width) = ReadU32(bytes, at)
    BY <1>2 DEF ReadUint
  <2> QED BY <1>2, <2>1, <2>2, U32Back, HalfFits DEF Stands
<1>3. CASE width = 8
  <2>1. \A v : WriteUint(v, width) = WriteU64(v)
    BY <1>3 DEF WriteUint
  <2>2. ReadUint(bytes, at, width) = ReadU64(bytes, at)
    BY <1>3 DEF ReadUint
  <2> QED BY <1>3, <2>1, <2>2, U64Back, HalfFits DEF Stands
<1> QED BY <1>1, <1>2, <1>3

\* The samples back.
LEMMA Int16Back ==
  ASSUME NEW bytes, NEW at \in Nat, AreBytes(bytes, at, 2)
  PROVE  \A k \in 1 .. 2 : WriteInt16(ReadInt16(bytes, at))[k] = bytes[at + k]
<1> DEFINE u == ReadU16(bytes, at)
<1>1. u \in 0 .. Byte2 - 1 /\ \A k \in 1 .. 2 : WriteU16(u)[k] = bytes[at + k]
  BY U16Back
<1> HIDE DEF u
<1>2. Byte2 \in Nat \ {0}
  BY Sizes
<1>3. u % Byte2 = u /\ (u - Byte2) % Byte2 = u
  BY <1>1, <1>2
<1>4. ReadInt16(bytes, at) % Byte2 = u
  BY <1>3 DEF ReadInt16, u
<1> QED BY <1>1, <1>4 DEF WriteInt16

\* Every byte belongs to a field.
LEMMA FieldExists ==
  ASSUME NEW fields, IsFormat(fields), NEW j \in 1 .. Cursor(fields)[Len(fields)]
  PROVE  \E i \in 1 .. Len(fields) : Cursor(fields)[i - 1] < j /\ j <= Cursor(fields)[i]
<1> DEFINE at == Cursor(fields)
           S == {n \in Nat : (n <= Len(fields) /\ j <= at[n]) =>
                   \E i \in 1 .. Len(fields) : at[i - 1] < j /\ j <= at[i]}
<1>0. /\ Len(fields) \in Nat /\ at[0] = 0 /\ \A m \in 0 .. Len(fields) : at[m] \in Nat
  BY CursorFacts
<1> HIDE DEF at
<1>1. 0 \in S
  BY <1>0
<1>2. ASSUME NEW n \in Nat, n \in S PROVE n + 1 \in S
  <2> SUFFICES ASSUME n + 1 <= Len(fields), j <= at[n + 1]
               PROVE  \E i \in 1 .. Len(fields) : at[i - 1] < j /\ j <= at[i]
    OBVIOUS
  <2>1. n \in 0 .. Len(fields) /\ n + 1 \in 1 .. Len(fields) /\ (n + 1) - 1 = n
    BY <1>0
  <2>2. CASE j <= at[n]
    BY <1>2, <2>1, <2>2
  <2>3. CASE ~(j <= at[n])
    <3>1. at[n] \in Nat /\ j \in Int
      BY <1>0, <2>1
    <3>2. at[n] < j
      BY <2>3, <3>1
    <3> QED BY <2>1, <3>2
  <2> QED BY <2>2, <2>3
<1> HIDE DEF S
<1>3. Len(fields) \in S
  BY <1>0, <1>1, <1>2, SetInduction
<1>4. j <= at[Len(fields)] /\ Len(fields) <= Len(fields)
  <2>1. at[Len(fields)] \in Nat
    BY <1>0
  <2> QED BY <1>0, <2>1 DEF at
<1>5. \E i \in 1 .. Len(fields) : at[i - 1] < j /\ j <= at[i]
  BY <1>3, <1>4 DEF S
<1> QED BY <1>5 DEF at

\* A field that was read fits and is written as it stood.
LEMMA FieldBack ==
  ASSUME NEW fields, IsFormat(fields), NEW bytes,
         AreBytes(bytes, 4, Cursor(fields)[Len(fields)]), NEW i \in 1 .. Len(fields)
  PROVE  LET v == ReadFields(fields, bytes)[fields[i][1]]
         IN /\ Stands(v, fields[i][2], bytes, 4 + Cursor(fields)[i - 1])
            /\ Fits(v, fields[i][2])
<1> DEFINE at == Cursor(fields)
           r == ReadFields(fields, bytes)
           width == fields[i][2]
<1>1. /\ width \in {2, 4, 8} /\ at[i - 1] \in Nat /\ at[i] = at[i - 1] + width
      /\ at[i] \in Nat /\ at[Len(fields)] \in Nat /\ Len(fields) \in Nat
  BY CursorFacts
<1>2. at[i] <= at[Len(fields)]
  <2>1. i \in 0 .. Len(fields) /\ Len(fields) \in i .. Len(fields)
    BY <1>1
  <2> QED BY <2>1, CursorMonotone
<1>3. (CHOOSE m \in 1 .. Len(fields) : fields[m][1] = fields[i][1]) = i
  BY DEF IsFormat
<1> HIDE DEF at
<1>4. r[fields[i][1]] = ReadUint(bytes, 4 + at[i - 1], width)
  <2>1. fields[i][1] \in Names(fields)
    BY DEF Names
  <2>2. r[fields[i][1]] =
          LET m == CHOOSE m \in 1 .. Len(fields) : fields[m][1] = fields[i][1]
          IN ReadUint(bytes, 4 + at[m - 1], fields[m][2])
    BY <2>1 DEF ReadFields, at
  <2> QED BY <1>3, <2>2
<1> HIDE DEF r, width
<1>5. AreBytes(bytes, 4 + at[i - 1], width)
  <2>1. ASSUME NEW b \in 1 .. width PROVE bytes[(4 + at[i - 1]) + b] \in 0 .. Byte - 1
    <3>1. width \in Nat
      BY <1>1
    <3>2. at[i - 1] + b \in 1 .. at[Len(fields)] /\ (4 + at[i - 1]) + b = 4 + (at[i - 1] + b)
      BY <1>1, <1>2, <3>1
    <3> QED BY <3>2 DEF AreBytes, at
  <2> QED BY <2>1 DEF AreBytes
<1>6. /\ Stands(ReadUint(bytes, 4 + at[i - 1], width), width, bytes, 4 + at[i - 1])
      /\ Fits(ReadUint(bytes, 4 + at[i - 1], width), width)
  BY <1>1, <1>5, 4 + at[i - 1] \in Nat, UintBack
<1> QED BY <1>4, <1>6 DEF at, r, width

\* Whatever the list of fields, what was read fits, and writing it gives the same
\* bytes.
LEMMA FieldsBack ==
  ASSUME NEW fields, IsFormat(fields), NEW bytes,
         AreBytes(bytes, 4, Cursor(fields)[Len(fields)])
  PROVE  /\ FieldsStand(fields, ReadFields(fields, bytes), bytes)
         /\ FieldsFit(fields, ReadFields(fields, bytes))
<1> DEFINE at == Cursor(fields)
           r == ReadFields(fields, bytes)
<1>1. ASSUME NEW j \in 1 .. at[Len(fields)] PROVE bytes[4 + j] = WriteFields(fields, r)[j]
  <2>1. PICK i \in 1 .. Len(fields) : at[i - 1] < j /\ j <= at[i]
    BY FieldExists
  <2> DEFINE width == fields[i][2]
             k == j - at[i - 1]
  <2>2. /\ width \in {2, 4, 8} /\ at[i - 1] \in Nat /\ at[i] = at[i - 1] + width
        /\ at[i] \in Nat /\ at[Len(fields)] \in Nat
    BY CursorFacts
  <2>3. (CHOOSE m \in 1 .. Len(fields) : at[m - 1] < j /\ j <= at[m]) = i
    <3>1. j \in Int
      BY <2>2
    <3> QED BY <2>1, <3>1, FieldOfByte
  <2>4. Stands(r[fields[i][1]], width, bytes, 4 + at[i - 1])
    BY FieldBack
  <2> HIDE DEF at, r
  <2>5. WriteFields(fields, r)[j] = WriteUint(r[fields[i][1]], width)[k]
    <3>1. WriteFields(fields, r)[j] =
            LET m == CHOOSE m \in 1 .. Len(fields) : at[m - 1] < j /\ j <= at[m]
            IN WriteUint(r[fields[m][1]], fields[m][2])[j - at[m - 1]]
      BY DEF WriteFields, at
    <3> QED BY <2>3, <3>1
  <2> HIDE DEF width
  <2>6. k \in 1 .. width /\ (4 + at[i - 1]) + k = 4 + j
    <3>1. width \in Nat /\ j \in Int
      BY <2>2
    <3> QED BY <2>1, <2>2, <3>1
  <2>7. bytes[(4 + at[i - 1]) + k] = WriteUint(r[fields[i][1]], width)[k]
    <3> HIDE DEF k
    <3> QED BY <2>4, <2>6 DEF Stands
  <2> QED BY <2>5, <2>6, <2>7
<1>2. FieldsFit(fields, r)
  <2> HIDE DEF r
  <2> QED BY FieldBack DEF FieldsFit, r
<1> QED BY <1>1, <1>2 DEF FieldsStand

\* Two datagrams of one layout are one.
LEMMA LayoutIsUnique ==
  ASSUME NEW a, NEW b, NEW header, NEW payload, NEW n \in Nat,
         IsPacket(a, header, payload, n), IsPacket(b, header, payload, n)
  PROVE  a = b
<1>1. ASSUME NEW i \in 1 .. 52 + 2 * n PROVE a[i] = b[i]
  <2>1. CASE i <= 4
    BY <2>1 DEF IsPacket
  <2>2. CASE i > 4 /\ i <= 52
    <3>1. i - 4 \in 1 .. 48 /\ 4 + (i - 4) = i
      BY <2>2
    <3> QED BY <3>1 DEF IsPacket
  <2>3. CASE i > 52
    <3> DEFINE s == (i - 52 + 1) \div 2
               k == i - (52 + 2 * (s - 1))
    <3>1. s \in 1 .. n /\ k \in 1 .. 2 /\ (52 + 2 * (s - 1)) + k = i
      BY <2>3
    <3> HIDE DEF s, k
    <3> QED BY <3>1 DEF IsPacket
  <2> QED BY <2>1, <2>2, <2>3
<1> QED BY <1>1, SameElements DEF IsPacket

\* Nothing but a packet passes for one: what from_bytes accepts is, byte for byte,
\* what write_packet_header and the samples would write for the packet it returns;
\* no two datagrams are the same packet (packet.rs:85-160).
THEOREM OnlyPacketsAreAccepted ==
  ASSUME NEW bytes, NEW n, HasLen(bytes, n), AreBytes(bytes, 0, n),
         PacketFromBytes(bytes).ok
  PROVE  LET p == PacketFromBytes(bytes).value
         IN IsHeader(p.header) /\ bytes = PacketBytes(p.header, p.payload)
<1> DEFINE h == ReadFields(HeaderRead, bytes)
           m == (n - 52) \div 2
           samples == [i \in 1 .. m |-> ReadInt16(bytes, 52 + 2 * (i - 1))]
<1>1. n \in Nat /\ Len(bytes) = n
  BY DEF HasLen
<1>2. /\ ~(n < 52) /\ SubSeq(bytes, 1, 4) = MAGIC
      /\ h.version = VERSION /\ h.header_size = HEADER_SIZE /\ h.sample_rate = SAMPLE_RATE
      /\ h.channels = CHANNELS /\ h.sample_format = SAMPLE_FORMAT_S16LE
      /\ PayloadFits(h, bytes)
      /\ PacketFromBytes(bytes).value = [header |-> h, payload |-> samples]
  <2> HIDE DEF h
  <2> QED BY <1>1 DEF PacketFromBytes, HEADER_SIZE, Err, Ok, h
<1>3. FieldsStand(HeaderWritten, h, bytes) /\ FieldsFit(HeaderWritten, h)
  <2>1. AreBytes(bytes, 4, 48)
    <3>1. ASSUME NEW k \in 1 .. 48 PROVE bytes[4 + k] \in 0 .. Byte - 1
      <4>1. 4 + k \in 1 .. n /\ 0 + (4 + k) = 4 + k
        <5>1. n \in Nat /\ ~(n < 52)
          BY <1>1, <1>2
        <5> QED BY <5>1
      <4> QED BY <4>1 DEF AreBytes
    <3> QED BY <3>1 DEF AreBytes
  <2> QED BY ZenonT(30), <2>1, HeaderFormat, FieldsBack
<1>4. h = [name \in Names(HeaderWritten) |-> h[name]]
  BY HeaderFormat DEF ReadFields
<1> HIDE DEF h
<1>5. IsHeader(h)
  BY <1>2, <1>3, <1>4 DEF IsHeader
<1>6. m \in Nat /\ n = 52 + 2 * m
  <2>1. h.frames \in Nat
    BY <1>5, FramesIsNat
  <2>2. n - 52 = h.frames * 2 * 2
    BY <1>1, <1>2 DEF PayloadFits, HEADER_SIZE, CHANNELS
  <2> DEFINE f == h.frames
  <2>3. f \in Nat /\ n - 52 = f * 2 * 2
    BY <2>1, <2>2
  <2> HIDE DEF f
  <2> QED BY <1>1, <2>3
<1> HIDE DEF m
<1>7. HasLen(samples, m)
  BY <1>6 DEF HasLen
<1>8. IsPacket(bytes, h, samples, m)
  <2>1. HasLen(bytes, 52 + 2 * m)
    BY <1>6
  <2>2. ASSUME NEW k \in 1 .. 4 PROVE bytes[k] = MAGIC[k]
    <3>1. 4 \in 0 .. n
      BY <1>1, <1>2
    <3>2. \A i \in 1 .. 4 : SubSeq(bytes, 1, 4)[i] = bytes[i]
      BY <3>1, FrontAt
    <3> QED BY <1>2, <3>2
  <2>3. \A j \in 1 .. 48 : bytes[4 + j] = WriteFields(HeaderWritten, h)[j]
    BY <1>3, HeaderFormat DEF FieldsStand
  <2>4. ASSUME NEW i \in 1 .. m, NEW k \in 1 .. 2
        PROVE  bytes[(52 + 2 * (i - 1)) + k] = WriteInt16(samples[i])[k]
    <3> DEFINE at == 52 + 2 * (i - 1)
    <3>1. at \in Nat /\ \A b \in 1 .. 2 : at + b \in 1 .. n /\ 0 + (at + b) = at + b
      BY <1>6
    <3>2. samples[i] = ReadInt16(bytes, at)
      OBVIOUS
    <3> HIDE DEF at, samples
    <3>3. AreBytes(bytes, at, 2)
      BY <3>1 DEF AreBytes
    <3>4. WriteInt16(ReadInt16(bytes, at))[k] = bytes[at + k]
      BY <3>1, <3>3, Int16Back
    <3> QED BY <3>2, <3>4 DEF at
  <2> HIDE DEF samples
  <2> QED BY <2>1, <2>2, <2>3, <2>4 DEF IsPacket
<1> HIDE DEF samples
<1>9. IsPacket(PacketBytes(h, samples), h, samples, m)
  BY <1>7, PacketLayout
<1>10. bytes = PacketBytes(h, samples)
  BY <1>6, <1>8, <1>9, LayoutIsUnique
<1>11. /\ [header |-> h, payload |-> samples].header = h
       /\ [header |-> h, payload |-> samples].payload = samples
  OBVIOUS
<1> QED BY <1>2, <1>5, <1>10, <1>11

-----------------------------------------------------------------------------
(* Receiver status. *)

\* The fields of a status, and the reserved word.
StatusNames ==
  {"stream_id", "latest_sequence", "target_ms", "output_sample_rate",
   "reserved", "target_frames", "fixed_delay_frames", "received_packets",
   "steady_underruns", "startup_underruns", "callback_lock_misses", "resyncs",
   "scratch_overflows", "ring_underruns", "ring_missing_frames",
   "packet_queue_drops", "audio_latency_frames", "output_queue_frames",
   "total_buffered_frames", "audio_latency_ms", "output_queue_ms",
   "total_buffered_ms", "effective_ratio", "receiver_time_ns"}

\* A status is a format, and reader and writer agree on it.
LEMMA StatusFormat ==
  /\ StatusRead = StatusWritten /\ IsFormat(StatusWritten) /\ Len(StatusWritten) = 24
  /\ Names(StatusWritten) = StatusNames
  /\ Cursor(StatusWritten)[24] = 160
<1>1. StatusRead = StatusWritten
  BY DEF StatusRead, StatusWritten
<1>2. Len(StatusWritten) = 24
  BY DEF StatusWritten
<1>3. \A i \in 1 .. 24 : StatusWritten[i][2] \in {2, 4, 8}
  BY DEF StatusWritten
<1>4. \A i, k \in 1 .. 24 : StatusWritten[i][1] = StatusWritten[k][1] => i = k
  BY DEF StatusWritten
<1>5. IsFormat(StatusWritten)
  BY <1>2, <1>3, <1>4 DEF IsFormat
<1>6. Names(StatusWritten) = StatusNames
  BY <1>2 DEF Names, StatusNames, StatusWritten
<1> DEFINE at == Cursor(StatusWritten)
<1>7. /\ at[0] = 0
      /\ \A i \in 1 .. 24 : at[i] = at[i - 1] + StatusWritten[i][2]
  BY <1>2, <1>5, CursorFacts
<1> HIDE DEF at
<1>8. at[24] = 160
  <2>1. /\ StatusWritten[1][2] = 8 /\ StatusWritten[2][2] = 4 /\ StatusWritten[3][2] = 4
        /\ StatusWritten[4][2] = 4 /\ StatusWritten[5][2] = 4 /\ StatusWritten[6][2] = 8
        /\ StatusWritten[7][2] = 8 /\ StatusWritten[8][2] = 8 /\ StatusWritten[9][2] = 8
        /\ StatusWritten[10][2] = 8 /\ StatusWritten[11][2] = 8 /\ StatusWritten[12][2] = 8
        /\ StatusWritten[13][2] = 8 /\ StatusWritten[14][2] = 8 /\ StatusWritten[15][2] = 8
        /\ StatusWritten[16][2] = 8 /\ StatusWritten[17][2] = 8 /\ StatusWritten[18][2] = 8
        /\ StatusWritten[19][2] = 8 /\ StatusWritten[20][2] = 4 /\ StatusWritten[21][2] = 4
        /\ StatusWritten[22][2] = 4 /\ StatusWritten[23][2] = 4 /\ StatusWritten[24][2] = 8
    BY DEF StatusWritten
  <2>2. at[1] = 8 /\ at[2] = 12 /\ at[3] = 16 /\ at[4] = 20
    BY <1>7, <2>1
  <2>3. at[5] = 24 /\ at[6] = 32 /\ at[7] = 40 /\ at[8] = 48
    BY <1>7, <2>1, <2>2
  <2>4. at[9] = 56 /\ at[10] = 64 /\ at[11] = 72 /\ at[12] = 80
    BY <1>7, <2>1, <2>3
  <2>5. at[13] = 88 /\ at[14] = 96 /\ at[15] = 104 /\ at[16] = 112
    BY <1>7, <2>1, <2>4
  <2>6. at[17] = 120 /\ at[18] = 128 /\ at[19] = 136 /\ at[20] = 140
    BY <1>7, <2>1, <2>5
  <2>7. at[21] = 144 /\ at[22] = 148 /\ at[23] = 152 /\ at[24] = 160
    BY <1>7, <2>1, <2>6
  <2> QED BY <2>7
<1> QED BY <1>1, <1>2, <1>5, <1>6, <1>8 DEF at

\* Where things are in a status datagram.
IsStatus(bytes, status) ==
  /\ HasLen(bytes, 168)
  /\ \A k \in 1 .. 4 : bytes[k] = STATUS_MAGIC[k]
  /\ \A k \in 1 .. 2 : bytes[4 + k] = WriteU16(3)[k] /\ bytes[6 + k] = WriteU16(168)[k]
  /\ \A j \in 1 .. 160 : bytes[8 + j] = WriteFields(StatusWritten, Padded(status))[j]

\* That is how to_bytes lays a status out.
LEMMA StatusLayout == ASSUME NEW status PROVE IsStatus(StatusBytes(status), status)
<1> DEFINE version == WriteU16(3)
           size == WriteU16(168)
           body == WriteFields(StatusWritten, Padded(status))
           a == STATUS_MAGIC \o version
           b == a \o size
           c == b \o body
<1>1. HasLen(STATUS_MAGIC, 4)
  BY DEF STATUS_MAGIC, Letters, HasLen
<1>2. HasLen(version, 2) /\ HasLen(size, 2)
  BY U16Bytes
<1>3. HasLen(body, 160)
  <2>1. HasLen(body, Cursor(StatusWritten)[Len(StatusWritten)])
    BY StatusFormat, FieldsLen
  <2> HIDE DEF body
  <2> QED BY <2>1, StatusFormat
<1>4. StatusBytes(status) = c
  BY DEF StatusBytes, Padded, STATUS_VERSION, STATUS_SIZE
<1> HIDE DEF version, size, body
<1>5. /\ HasLen(a, 6) /\ (\A i \in 1 .. 4 : a[i] = STATUS_MAGIC[i])
      /\ \A i \in 1 .. 2 : a[4 + i] = version[i]
  <2>1. Joins(a, STATUS_MAGIC, 4, version, 2)
    BY <1>1, <1>2, ConcatAt
  <2> HIDE DEF a
  <2> QED BY <2>1, 4 + 2 = 6 DEF Joins
<1> HIDE DEF a
<1>6. HasLen(b, 8) /\ (\A i \in 1 .. 6 : b[i] = a[i]) /\ \A i \in 1 .. 2 : b[6 + i] = size[i]
  <2>1. Joins(b, a, 6, size, 2)
    BY <1>2, <1>5, ConcatAt
  <2> HIDE DEF b
  <2> QED BY <2>1, 6 + 2 = 8 DEF Joins
<1> HIDE DEF b
<1>7. HasLen(c, 168) /\ (\A i \in 1 .. 8 : c[i] = b[i]) /\ \A i \in 1 .. 160 : c[8 + i] = body[i]
  <2>1. Joins(c, b, 8, body, 160)
    BY <1>3, <1>6, ConcatAt
  <2> HIDE DEF c
  <2> QED BY <2>1, 8 + 160 = 168 DEF Joins
<1> HIDE DEF c
<1>8. ASSUME NEW k \in 1 .. 4 PROVE c[k] = STATUS_MAGIC[k]
  BY <1>5, <1>6, <1>7, k \in 1 .. 6, k \in 1 .. 8
<1>9. ASSUME NEW k \in 1 .. 2 PROVE c[4 + k] = version[k] /\ c[6 + k] = size[k]
  BY <1>5, <1>6, <1>7, 4 + k \in 1 .. 6, 4 + k \in 1 .. 8, 6 + k \in 1 .. 8
<1> QED BY <1>4, <1>7, <1>8, <1>9 DEF IsStatus, version, size, body

\* A status, its numbers of the types of their fields.
IsReceiverStatus(status) ==
  /\ status = [f \in StatusNames \ {"reserved"} |-> status[f]]
  /\ FieldsFit(StatusWritten, Padded(status))

\* from_bytes after to_bytes: the whole datagram gives back every field of the
\* status, a part of it is refused (status.rs:74-125).
THEOREM StatusComesBack ==
  ASSUME NEW status, IsReceiverStatus(status), NEW n \in 0 .. 168
  PROVE  StatusFromBytes(SubSeq(StatusBytes(status), 1, n)) =
           IF n = 168 THEN Ok(status) ELSE Err
<1> DEFINE full == StatusBytes(status)
           bytes == SubSeq(full, 1, n)
           r == Padded(status)
<1>1. IsStatus(full, status)
  BY StatusLayout
<1> HIDE DEF full
<1>2. HasLen(bytes, n) /\ \A i \in 1 .. n : bytes[i] = full[i]
  <2>1. HasLen(full, 168)
    BY <1>1 DEF IsStatus
  <2> QED BY <2>1, FrontAt
<1> HIDE DEF bytes
<1>3. Len(bytes) = n /\ n \in Nat
  BY <1>2 DEF HasLen
<1>4. CASE n # 168
  <2>1. StatusFromBytes(bytes) = Err
    BY <1>3, <1>4 DEF StatusFromBytes, STATUS_SIZE
  <2> QED BY <1>4, <2>1 DEF bytes, full
<1>5. CASE n = 168
  <2>0. \A i \in 1 .. 168 : bytes[i] = full[i]
    BY <1>2, <1>5
  <2>1. SubSeq(bytes, 1, 4) = STATUS_MAGIC
    <3>1. HasLen(STATUS_MAGIC, 4)
      BY DEF STATUS_MAGIC, Letters, HasLen
    <3>2. HasLen(SubSeq(bytes, 1, 4), 4) /\ \A i \in 1 .. 4 : SubSeq(bytes, 1, 4)[i] = bytes[i]
      BY <1>2, <1>5, 4 \in 0 .. 168, FrontAt
    <3>3. ASSUME NEW i \in 1 .. 4 PROVE SubSeq(bytes, 1, 4)[i] = STATUS_MAGIC[i]
      BY <1>1, <2>0, <3>2, i \in 1 .. 168 DEF IsStatus
    <3> QED BY <3>1, <3>2, <3>3, SameElements
  <2>2. ReadU16(bytes, 4) = 3 /\ ReadU16(bytes, 6) = 168
    <3>1. ASSUME NEW k \in 1 .. 2
          PROVE  bytes[4 + k] = WriteU16(3)[k] /\ bytes[6 + k] = WriteU16(168)[k]
      BY <1>1, <2>0, 4 + k \in 1 .. 168, 6 + k \in 1 .. 168 DEF IsStatus
    <3>2. Fits(3, 2) /\ Fits(168, 2)
      <4>1. 3 \in 0 .. Byte2 - 1 /\ 168 \in 0 .. Byte2 - 1
        BY Sizes
      <4> QED BY <4>1, HalfFits
    <3> QED BY <3>1, <3>2, U16RoundTrip
  <2> DEFINE rest == SubSeq(bytes, 5, 168)
  <2>3. ASSUME NEW j \in 1 .. 160 PROVE rest[4 + j] = WriteFields(StatusWritten, r)[j]
    <3>1. 5 \in 1 .. 168 + 1 /\ 168 \in 5 - 1 .. 168 /\ 4 + j \in 1 .. 168 - 5 + 1
      OBVIOUS
    <3>2. rest[4 + j] = bytes[5 + (4 + j) - 1]
      BY <1>2, <1>5, <3>1, PartAt
    <3>3. 5 + (4 + j) - 1 = 8 + j /\ 8 + j \in 1 .. 168
      OBVIOUS
    <3> QED BY <1>1, <2>0, <3>2, <3>3 DEF IsStatus
  <2>4. /\ DOMAIN status = StatusNames \ {"reserved"} /\ "reserved" \in StatusNames
        /\ r = [f \in StatusNames |-> IF f = "reserved" THEN 0 ELSE status[f]]
    <3>1. DOMAIN status = StatusNames \ {"reserved"}
      BY DEF IsReceiverStatus
    <3>2. "reserved" \in StatusNames
      BY DEF StatusNames
    <3>3. DOMAIN status \cup {"reserved"} = StatusNames
      BY <3>1, <3>2
    <3> QED BY <3>1, <3>2, <3>3 DEF Padded
  <2>5. FieldsFit(StatusWritten, r)
    BY DEF IsReceiverStatus
  <2> HIDE DEF r
  <2>6. ReadFields(StatusWritten, rest) = [name \in StatusNames |-> r[name]]
    <3> HIDE DEF rest
    <3>1. FieldsStand(StatusWritten, r, rest)
      BY <2>3, StatusFormat DEF FieldsStand
    <3>2. IsFormat(StatusWritten) /\ Names(StatusWritten) = StatusNames
      BY StatusFormat
    <3> QED BY <2>5, <3>1, <3>2, FieldsRoundTrip
  <2> DEFINE fields == ReadFields(StatusRead, SubSeq(bytes, 5, Len(bytes)))
  <2>7. fields = [name \in StatusNames |-> r[name]]
    BY <1>3, <1>5, <2>6, StatusFormat
  <2>8. StatusFromBytes(bytes) = Ok([f \in DOMAIN fields \ {"reserved"} |-> fields[f]])
    BY <1>3, <1>5, <2>1, <2>2 DEF StatusFromBytes, STATUS_SIZE, STATUS_VERSION
  <2> HIDE DEF fields
  <2>9. [f \in DOMAIN fields \ {"reserved"} |-> fields[f]] = status
    <3>1. DOMAIN fields = StatusNames
      BY <2>7
    <3>2. \A f \in StatusNames \ {"reserved"} : fields[f] = status[f]
      BY <2>4, <2>7
    <3>3. status = [f \in StatusNames \ {"reserved"} |-> status[f]]
      BY DEF IsReceiverStatus
    <3> QED BY <3>1, <3>2, <3>3
  <2> QED BY <1>5, <2>8, <2>9 DEF bytes, full
<1> QED BY <1>4, <1>5
=============================================================================
