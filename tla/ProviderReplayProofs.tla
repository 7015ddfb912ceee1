------------------------- MODULE ProviderReplayProofs -------------------------
(***************************************************************************)
(* Proofs about ProviderReplay: whatever conversation is replayed, what    *)
(* the provider gets is legal.                                             *)
(*                                                                         *)
(* The loop of prepareMessages() keeps more than its output says: at any   *)
(* time, the output followed by an error for each call that is still open  *)
(* is legal (Round).  A result only replaces one of these errors, and any  *)
(* other message comes after all of them.                                  *)
(*                                                                         *)
(* The loop is a recursive function, so its values are reached by          *)
(* induction: in the form of a set that has 0 and with every number the    *)
(* next (Induction), from the well-foundedness of the natural numbers.     *)
(***************************************************************************)
EXTENDS ProviderReplay, WellFoundedInduction, TLAPS

(* A set of natural numbers that is not empty has a least element. *)
LEMMA LeastNumber ==
    ASSUME NEW T \in SUBSET Nat, T # {}
    PROVE  \E x \in T : \A y \in T : x <= y
<1> DEFINE R == OpToRel(<, Nat)
<1>1. IsWellFoundedOn(R, Nat)
  BY NatLessThanWellFounded
<1>2. \A x, y \in Nat : x < y => <<x, y>> \in R
  BY DEF OpToRel
<1> HIDE DEF R
<1>3. PICK x \in T : \A y \in T : ~ (<<y, x>> \in R)
  BY <1>1, WFMin
<1>4. \A y \in T : ~ (y < x) /\ y \in Nat /\ x \in Nat
  BY <1>2, <1>3
<1> QED BY <1>4

LEMMA Induction ==
    ASSUME NEW S, 0 \in S, \A n \in Nat : n \in S => n + 1 \in S
    PROVE  Nat \subseteq S
<1> SUFFICES ASSUME Nat \ S # {} PROVE FALSE
  OBVIOUS
<1>1. PICK x \in Nat \ S : \A y \in Nat \ S : x <= y
  BY LeastNumber
<1>2. x # 0 /\ x - 1 \in Nat /\ x = (x - 1) + 1
  BY <1>1
<1>3. x - 1 \in S
  BY <1>1, <1>2
<1> QED BY <1>1, <1>2, <1>3

-----------------------------------------------------------------------------
(* The rounds of the loop exist: there is a function that satisfies their  *)
(* recursive definition.                                                   *)
Start == [out |-> <<>>, pending |-> <<>>]

AreRounds(after, messages, N) ==
    after = [n \in 0..N |-> IF n = 0 THEN Start ELSE Take(after[n - 1], messages[n])]

LEMMA RoundsExist ==
    ASSUME NEW messages, NEW N \in Nat
    PROVE  \E after : AreRounds(after, messages, N)
<1> DEFINE S == {n \in Nat : \E after : AreRounds(after, messages, n)}
<1>1. 0 \in S
  <2> DEFINE f == [n \in 0..0 |-> Start]
  <2>1. AreRounds(f, messages, 0)
    BY DEF AreRounds
  <2> HIDE DEF f
  <2> QED BY <2>1
<1>2. ASSUME NEW n \in Nat, n \in S PROVE n + 1 \in S
  <2>1. PICK f : AreRounds(f, messages, n)
    BY <1>2
  <2> DEFINE g == [i \in 0..n+1 |-> IF i = n + 1 THEN Take(f[n], messages[n + 1]) ELSE f[i]]
  <2>2. ASSUME NEW i \in 0..n+1
        PROVE  g[i] = IF i = 0 THEN Start ELSE Take(g[i - 1], messages[i])
    <3>1. CASE i = n + 1
      BY <3>1
    <3>2. CASE i # n + 1
      <4>1. i \in 0..n /\ g[i] = f[i]
        BY <3>2
      <4>2. f[i] = IF i = 0 THEN Start ELSE Take(f[i - 1], messages[i])
        BY <2>1, <4>1 DEF AreRounds
      <4>3. i # 0 => g[i - 1] = f[i - 1]
        BY <3>2
      <4> QED BY <4>1, <4>2, <4>3
    <3> QED BY <3>1, <3>2
  <2>3. AreRounds(g, messages, n + 1)
    BY <2>2 DEF AreRounds
  <2> HIDE DEF g
  <2> QED BY <2>3
<1>3. N \in S
  <2> HIDE DEF S
  <2> QED BY <1>1, <1>2, Induction
<1> QED BY <1>3

LEMMA RoundsAre ==
    ASSUME NEW messages, Len(messages) \in Nat
    PROVE  AreRounds(Rounds(messages), messages, Len(messages))
<1>1. PICK f : AreRounds(f, messages, Len(messages))
  BY RoundsExist
<1>2. Rounds(messages) = CHOOSE after : AreRounds(after, messages, Len(messages))
  BY DEF Rounds, AreRounds, Start
<1> QED BY <1>1, <1>2

(* One more message is one more round. *)
LEMMA PreparedEmpty == Prepared(<<>>) = Start
<1>1. AreRounds(Rounds(<<>>), <<>>, 0)
  BY RoundsAre
<1> QED BY <1>1 DEF Prepared, AreRounds

LEMMA PreparedAppend ==
    ASSUME NEW S, NEW messages \in Seq(S), NEW message \in S
    PROVE  Prepared(Append(messages, message)) = Take(Prepared(messages), message)
<1> DEFINE more == Append(messages, message)
           N == Len(messages)
           f == Rounds(messages)
           g == Rounds(more)
<1>1. /\ N \in Nat /\ Len(more) = N + 1 /\ more[N + 1] = message
      /\ \A i \in 1..N : more[i] = messages[i]
  OBVIOUS
<1>2. AreRounds(f, messages, N) /\ AreRounds(g, more, N + 1)
  <2>1. AreRounds(f, messages, N)
    BY <1>1, RoundsAre
  <2>2. Len(more) \in Nat
    BY <1>1
  <2>3. AreRounds(g, more, Len(more))
    <3> HIDE DEF more
    <3> QED BY <2>2, RoundsAre
  <2> QED BY <1>1, <2>1, <2>3
<1> HIDE DEF f, g, N, more
<1>3. ASSUME NEW n \in 0..N
      PROVE  /\ f[n] = IF n = 0 THEN Start ELSE Take(f[n - 1], messages[n])
             /\ g[n] = IF n = 0 THEN Start ELSE Take(g[n - 1], messages[n])
  <2>1. n \in 0..N+1 /\ (n # 0 => more[n] = messages[n])
    BY <1>1
  <2>2. g[n] = IF n = 0 THEN Start ELSE Take(g[n - 1], more[n])
    BY <1>2, <2>1 DEF AreRounds
  <2> QED BY <1>2, <2>1, <2>2 DEF AreRounds
<1>4. g[N + 1] = Take(g[N], message)
  <2>1. N + 1 \in 0..N+1 /\ N + 1 # 0 /\ (N + 1) - 1 = N
    BY <1>1
  <2>2. g[N + 1] = Take(g[(N + 1) - 1], more[N + 1])
    BY <1>2, <2>1 DEF AreRounds
  <2> QED BY <1>1, <2>1, <2>2
<1>5. g[N] = f[N]
  <2> DEFINE T == {n \in Nat : n <= N => g[n] = f[n]}
  <2>1. 0 \in T
    BY <1>1, <1>3
  <2>2. ASSUME NEW n \in Nat, n \in T PROVE n + 1 \in T
    <3>1. CASE n + 1 <= N
      <4>1. n + 1 \in 0..N /\ n + 1 # 0 /\ (n + 1) - 1 = n /\ n <= N
        BY <1>1, <3>1
      <4>2. g[n] = f[n]
        BY <2>2, <4>1
      <4> QED BY <1>3, <4>1, <4>2
    <3>2. CASE ~(n + 1 <= N)
      BY <3>2
    <3> QED BY <3>1, <3>2
  <2>3. N \in T
    <3> HIDE DEF T
    <3> QED BY <1>1, <2>1, <2>2, Induction
  <2> QED BY <1>1, <2>3
<1> QED BY <1>1, <1>4, <1>5 DEF Prepared, f, g, N, more


-----------------------------------------------------------------------------
(* What is put together in a round is well typed.                          *)
LEMMA MissingTyped ==
    ASSUME NEW calls \in Seq(Nat)
    PROVE  /\ MissingResults(calls) \in Seq(Messages)
           /\ Len(MissingResults(calls)) = Len(calls)
           /\ \A k \in 1..Len(calls) : MissingResults(calls)[k] = ToolResult(calls[k], Missing)
<1>1. DOMAIN calls = 1..Len(calls) /\ Len(calls) \in Nat
  OBVIOUS
<1>2. \A k \in 1..Len(calls) : ToolResult(calls[k], Missing) \in Messages
  BY <1>1 DEF ToolResult, Missing, Messages
<1>3. MissingResults(calls) = [k \in 1..Len(calls) |-> ToolResult(calls[k], Missing)]
  BY <1>1 DEF MissingResults
<1>4. MissingResults(calls) \in [1..Len(calls) -> Messages]
  BY <1>2, <1>3
<1>5. MissingResults(calls) \in Seq(Messages)
  BY <1>1, <1>4
<1> QED BY <1>1, <1>3, <1>5

LEMMA NothingMissing == MissingResults(<<>>) = <<>>
<1>1. <<>> \in Seq(Nat) /\ Len(<<>>) = 0
  OBVIOUS
<1>2. MissingResults(<<>>) \in Seq(Messages) /\ Len(MissingResults(<<>>)) = 0
  BY <1>1, MissingTyped
<1> HIDE DEF MissingResults
<1> QED BY <1>2

LEMMA Concatenation ==
    ASSUME NEW S, NEW a \in Seq(S), NEW b \in Seq(S)
    PROVE  /\ a \o b \in Seq(S)
           /\ Len(a \o b) = Len(a) + Len(b)
           /\ \A k \in 1..Len(a) : (a \o b)[k] = a[k]
           /\ \A k \in 1..Len(b) : (a \o b)[Len(a) + k] = b[k]
OBVIOUS

(* What is before and after a place of a sequence. *)
LEMMA SplitSequence ==
    ASSUME NEW S, NEW a \in Seq(S), NEW k \in 1..Len(a)
    PROVE  /\ SubSeq(a, 1, k - 1) \in Seq(S) /\ Len(SubSeq(a, 1, k - 1)) = k - 1
           /\ \A i \in 1..(k - 1) : SubSeq(a, 1, k - 1)[i] = a[i]
           /\ SubSeq(a, k + 1, Len(a)) \in Seq(S)
           /\ Len(SubSeq(a, k + 1, Len(a))) = Len(a) - k
           /\ \A i \in 1..(Len(a) - k) : SubSeq(a, k + 1, Len(a))[i] = a[k + i]
<1>1. Len(a) \in Nat /\ k \in Nat /\ 1 <= k /\ k <= Len(a) /\ \A i \in 1..Len(a) : a[i] \in S
  OBVIOUS
<1>2. /\ SubSeq(a, 1, k - 1) \in Seq(S) /\ Len(SubSeq(a, 1, k - 1)) = k - 1
      /\ \A i \in 1..(k - 1) : SubSeq(a, 1, k - 1)[i] = a[i]
  BY <1>1
<1>3. /\ SubSeq(a, k + 1, Len(a)) \in Seq(S)
      /\ Len(SubSeq(a, k + 1, Len(a))) = Len(a) - k
  BY <1>1
<1>4. \A i \in 1..(Len(a) - k) : SubSeq(a, k + 1, Len(a))[i] = a[k + i]
  BY <1>1
<1> QED BY <1>2, <1>3, <1>4

(* The call a result answers, if it is open. *)
LEMMA OpenCall ==
    ASSUME NEW pending \in Seq(Nat), NEW x
    PROVE  LET k == PlaceOf(x, pending)
           IN  /\ k = 0 => \A i \in 1..Len(pending) : pending[i] # x
               /\ k # 0 => /\ k \in 1..Len(pending) /\ pending[k] = x
                           /\ \A i \in 1..Len(pending) : pending[i] = x => k <= i
<1> DEFINE I == {i \in 1..Len(pending) : pending[i] = x}
           k == PlaceOf(x, pending)
<1>1. k = IF I # {} THEN Min(I) ELSE 0
  BY DEF PlaceOf, SelectInSeq
<1>2. CASE I # {}
  <2>1. I \in SUBSET Nat
    OBVIOUS
  <2>2. \E least \in I : \A i \in I : least <= i
    <3> HIDE DEF I
    <3> QED BY <1>2, <2>1, LeastNumber
  <2>3. Min(I) \in I /\ \A i \in I : Min(I) <= i
    <3> HIDE DEF I
    <3> QED BY <2>2 DEF Min
  <2>4. k \in I /\ \A i \in I : k <= i
    BY <1>1, <1>2, <2>3
  <2>5. k # 0 /\ k \in 1..Len(pending) /\ pending[k] = x
    <3> HIDE DEF k
    <3> QED BY <2>4
  <2>6. \A i \in 1..Len(pending) : pending[i] = x => k <= i
    <3> HIDE DEF k
    <3> QED BY <2>4
  <2> HIDE DEF k
  <2> QED BY <2>5, <2>6 DEF k
<1>3. CASE I = {}
  <2>1. k = 0 /\ \A i \in 1..Len(pending) : pending[i] # x
    BY <1>1, <1>3
  <2> HIDE DEF k
  <2> QED BY <2>1 DEF k
<1> QED BY <1>2, <1>3


-----------------------------------------------------------------------------
(* What makes a conversation legal does not depend on what results report. *)
Alike(a, b) == a = b \/ (IsResult(a) /\ IsResult(b) /\ a.id = b.id)

LEMMA LegalAlike ==
    ASSUME NEW s \in Seq(Messages), NEW t \in Seq(Messages), Len(s) = Len(t),
           \A k \in 1..Len(s) : Alike(s[k], t[k]), Legal(s)
    PROVE  Legal(t)
<1>1. DOMAIN s = 1..Len(s) /\ DOMAIN t = 1..Len(s) /\ Len(s) \in Nat
  OBVIOUS
<1>2. \A k \in 1..Len(s) : /\ IsResult(s[k]) <=> IsResult(t[k])
                           /\ IsResult(t[k]) => s[k].id = t[k].id
                           /\ ~IsResult(t[k]) => s[k] = t[k]
  BY DEF Alike
<1>3. ASSUME NEW k \in DOMAIN t, t[k].role = "assistant"
      PROVE  LET calls == t[k].calls
             IN  /\ k + Len(calls) <= Len(t)
                 /\ \A i \in DOMAIN calls : IsResult(t[k + i])
                 /\ ToSet(calls) = {t[k + i].id : i \in DOMAIN calls}
  <2> DEFINE calls == t[k].calls
  <2>1. s[k] = t[k]
    BY <1>1, <1>2, <1>3 DEF IsResult
  <2>2. /\ k + Len(calls) <= Len(s)
        /\ \A i \in DOMAIN calls : IsResult(s[k + i])
        /\ ToSet(calls) = {s[k + i].id : i \in DOMAIN calls}
    BY <1>1, <1>3, <2>1 DEF Legal
  <2>3. calls \in Seq(Nat) /\ k \in Nat /\ k >= 1
    BY <1>1, <1>3 DEF Messages, User
  <2>4. \A i \in DOMAIN calls : k + i \in 1..Len(s)
    BY <1>1, <2>2, <2>3
  <2>5. \A i \in DOMAIN calls : IsResult(t[k + i]) /\ s[k + i].id = t[k + i].id
    BY <1>2, <2>2, <2>4
  <2>6. {s[k + i].id : i \in DOMAIN calls} = {t[k + i].id : i \in DOMAIN calls}
    BY <2>5
  <2> QED BY <2>2, <2>5, <2>6
<1>4. ASSUME NEW k \in DOMAIN t, IsResult(t[k])
      PROVE  \E h \in 1..(k - 1) : t[h].role = "assistant" /\ k <= h + Len(t[h].calls)
  <2>1. PICK h \in 1..(k - 1) : s[h].role = "assistant" /\ k <= h + Len(s[h].calls)
    BY <1>1, <1>2, <1>4 DEF Legal
  <2>2. h \in 1..Len(s) /\ ~IsResult(s[h])
    BY <1>1, <1>4, <2>1 DEF IsResult
  <2>3. s[h] = t[h]
    BY <1>2, <2>2
  <2> QED BY <2>1, <2>3
<1> QED BY <1>3, <1>4 DEF Legal

(* A message that is no result, with an error for each of its calls, may   *)
(* follow a legal conversation.                                            *)
CallsOf(message) == IF message.role = "assistant" THEN message.calls ELSE <<>>

LEMMA CallsTyped == \A message \in Messages : CallsOf(message) \in Seq(Nat)
BY DEF Messages, CallsOf, User

LEMMA LegalThen ==
    ASSUME NEW s \in Seq(Messages), NEW m \in Messages, ~IsResult(m), Legal(s)
    PROVE  Legal(Append(s, m) \o MissingResults(CallsOf(m)))
<1> DEFINE N == Len(s)
           calls == CallsOf(m)
           missing == MissingResults(calls)
           t == Append(s, m) \o missing
<1>1. /\ calls \in Seq(Nat) /\ missing \in Seq(Messages) /\ Len(missing) = Len(calls)
      /\ \A k \in 1..Len(calls) : missing[k] = ToolResult(calls[k], Missing)
  BY CallsTyped, MissingTyped
<1>2. N \in Nat /\ DOMAIN s = 1..N /\ Len(calls) \in Nat /\ DOMAIN calls = 1..Len(calls)
  BY <1>1
<1> HIDE DEF missing
<1>3. /\ t \in Seq(Messages) /\ Len(t) = N + 1 + Len(calls) /\ DOMAIN t = 1..(N + 1 + Len(calls))
      /\ \A k \in 1..N : t[k] = s[k]
      /\ t[N + 1] = m
      /\ \A k \in 1..Len(calls) : t[N + 1 + k] = missing[k]
  <2> HIDE DEF calls
  <2>1. Append(s, m) \in Seq(Messages) /\ Len(Append(s, m)) = N + 1
    BY <1>2
  <2>2. t \in Seq(Messages) /\ Len(t) = N + 1 + Len(calls)
    BY <1>1, <2>1
  <2>3. \A k \in 1..N : t[k] = s[k]
    BY <1>1, <1>2, <2>1
  <2>4. t[N + 1] = m
    BY <1>1, <1>2, <2>1
  <2>5. \A k \in 1..Len(calls) : t[N + 1 + k] = missing[k]
    BY <1>1, <1>2, <2>1
  <2> QED BY <2>2, <2>3, <2>4, <2>5
<1> HIDE DEF t, calls, N
<1>4. \A k \in 1..Len(calls) : IsResult(t[N + 1 + k]) /\ t[N + 1 + k].id = calls[k]
  <2> TAKE k \in 1..Len(calls)
  <2>1. t[N + 1 + k] = ToolResult(calls[k], Missing)
    BY <1>1, <1>3
  <2>2. ToolResult(calls[k], Missing).role = "toolResult" /\ ToolResult(calls[k], Missing).id = calls[k]
    BY DEF ToolResult
  <2> QED BY <2>1, <2>2 DEF IsResult
<1>5. ASSUME NEW k \in DOMAIN t, t[k].role = "assistant"
      PROVE  /\ k + Len(t[k].calls) <= Len(t)
             /\ \A i \in DOMAIN t[k].calls : IsResult(t[k + i])
             /\ ToSet(t[k].calls) = {t[k + i].id : i \in DOMAIN t[k].calls}
  <2>1. CASE k \in 1..N
    <3> DEFINE c == s[k].calls
    <3>1. t[k] = s[k]
      BY <1>3, <2>1
    <3>2. /\ k + Len(c) <= N /\ \A i \in DOMAIN c : IsResult(s[k + i])
          /\ ToSet(c) = {s[k + i].id : i \in DOMAIN c}
      BY <1>2, <1>5, <2>1, <3>1 DEF Legal, N
    <3>3. c \in Seq(Nat)
      BY <1>2, <1>5, <2>1, <3>1 DEF Messages, User
    <3>4. \A i \in DOMAIN c : k + i \in 1..N
      BY <1>2, <2>1, <3>2, <3>3
    <3>5. \A i \in DOMAIN c : t[k + i] = s[k + i]
      BY <1>3, <3>4
    <3>6. k + Len(c) <= Len(t)
      BY <1>2, <1>3, <2>1, <3>2, <3>3
    <3>7. {s[k + i].id : i \in DOMAIN c} = {t[k + i].id : i \in DOMAIN c}
      BY <3>5
    <3> QED BY <3>1, <3>2, <3>5, <3>6, <3>7
  <2>2. CASE k = N + 1
    <3>1. t[k] = m /\ t[k].calls = calls
      BY <1>3, <1>5, <2>2 DEF CallsOf, calls
    <3>2. ToSet(calls) = {t[k + i].id : i \in DOMAIN calls}
      BY <1>2, <1>4, <2>2 DEF ToSet
    <3>3. k + Len(calls) <= Len(t)
      BY <1>2, <1>3, <2>2
    <3>4. \A i \in DOMAIN calls : IsResult(t[k + i])
      BY <1>2, <1>4, <2>2
    <3> QED BY <3>1, <3>2, <3>3, <3>4
  <2>3. CASE k \notin 1..N /\ k # N + 1
    <3>1. k - (N + 1) \in 1..Len(calls) /\ k = N + 1 + (k - (N + 1))
      BY <1>2, <1>3, <1>5, <2>3
    <3>2. IsResult(t[k])
      BY <1>4, <3>1
    <3> QED BY <1>5, <3>2 DEF IsResult
  <2> QED BY <2>1, <2>2, <2>3
<1>6. ASSUME NEW k \in DOMAIN t, IsResult(t[k])
      PROVE  \E h \in 1..(k - 1) : t[h].role = "assistant" /\ k <= h + Len(t[h].calls)
  <2>1. CASE k \in 1..N
    <3>1. t[k] = s[k]
      BY <1>3, <2>1
    <3>2. PICK h \in 1..(k - 1) : s[h].role = "assistant" /\ k <= h + Len(s[h].calls)
      BY <1>2, <1>6, <2>1, <3>1 DEF Legal
    <3>3. h \in 1..N
      BY <1>2, <2>1, <3>2
    <3> QED BY <1>3, <3>2, <3>3
  <2>2. CASE k = N + 1
    BY <1>3, <1>6, <2>2
  <2>3. CASE k \notin 1..N /\ k # N + 1
    <3>1. N + 1 \in 1..(k - 1) /\ k <= N + 1 + Len(calls)
      BY <1>2, <1>3, <1>6, <2>3
    <3>2. Len(calls) # 0
      BY <1>2, <1>3, <1>6, <2>3
    <3>3. m.role = "assistant" /\ m.calls = calls
      BY <1>2, <3>2 DEF CallsOf, calls
    <3> QED BY <1>3, <3>1, <3>3
  <2> QED BY <2>1, <2>2, <2>3
<1>7. Legal(t)
  BY <1>5, <1>6 DEF Legal
<1> QED BY <1>7 DEF t, calls, missing, N


-----------------------------------------------------------------------------
(* The invariant of the loop: with an error for each open call, the output *)
(* is legal.                                                               *)
Round(p) ==
    /\ p.out \in Seq(Messages)
    /\ p.pending \in Seq(Nat)
    /\ Legal(p.out \o MissingResults(p.pending))

LEMMA StartRound == Round(Start)
<1>1. Start.out = <<>> /\ Start.pending = <<>>
  BY DEF Start
<1>3. <<>> \o MissingResults(<<>>) = <<>>
  BY NothingMissing
<1>4. DOMAIN <<>> = {}
  OBVIOUS
<1>5. Legal(<<>>)
  BY <1>4 DEF Legal
<1> QED BY <1>1, <1>3, <1>5 DEF Round

LEMMA TakeOtherRound ==
    ASSUME NEW p, Round(p), NEW m \in Messages, ~IsResult(m)
    PROVE  Round(TakeOther(p, m))
<1> DEFINE flushed == p.out \o MissingResults(p.pending)
<1>1. flushed \in Seq(Messages) /\ Legal(flushed)
  BY MissingTyped DEF Round
<1>2. CASE ~Replayed(m)
  <2> DEFINE q == [out |-> flushed, pending |-> <<>>]
  <2>1. TakeOther(p, m) = q
    BY <1>2 DEF TakeOther
  <2>2. q.out = flushed /\ q.pending = <<>>
    OBVIOUS
  <2> HIDE DEF flushed, q
  <2>3. flushed \o <<>> = flushed
    BY <1>1
  <2>4. Legal(q.out \o MissingResults(q.pending))
    BY <1>1, <2>2, <2>3, NothingMissing
  <2> QED BY <1>1, <2>1, <2>2, <2>4 DEF Round
<1>3. CASE Replayed(m)
  <2> DEFINE q == [out |-> Append(flushed, m), pending |-> CallsOf(m)]
  <2>1. TakeOther(p, m) = q
    BY <1>3 DEF TakeOther, CallsOf
  <2>2. q.out = Append(flushed, m) /\ q.pending = CallsOf(m)
    OBVIOUS
  <2> HIDE DEF flushed, q
  <2>3. Legal(Append(flushed, m) \o MissingResults(CallsOf(m)))
    BY <1>1, LegalThen
  <2>4. Append(flushed, m) \in Seq(Messages)
    BY <1>1
  <2> QED BY <2>1, <2>2, <2>3, <2>4, CallsTyped DEF Round
<1> QED BY <1>2, <1>3

LEMMA TakeResultRound ==
    ASSUME NEW p, Round(p), NEW m \in Messages, IsResult(m)
    PROVE  Round(TakeToolResult(p, m))
<1> DEFINE k == PlaceOf(m.id, p.pending)
           before == SubSeq(p.pending, 1, k - 1)
           after == SubSeq(p.pending, k + 1, Len(p.pending))
           out == p.out \o MissingResults(before) \o <<m>>
           q == [out |-> out, pending |-> after]
           s == p.out \o MissingResults(p.pending)
           t == out \o MissingResults(after)
           N == Len(p.out)
           P == Len(p.pending)
<1>1. p.out \in Seq(Messages) /\ p.pending \in Seq(Nat) /\ Legal(s)
  BY DEF Round
<1>2. N \in Nat /\ P \in Nat
  BY <1>1
<1>3. k # 0 => k \in 1..P /\ p.pending[k] = m.id
  BY <1>1, OpenCall
<1>4. CASE k = 0
  BY <1>4 DEF TakeToolResult
<1>5. CASE k # 0
  <2>1. TakeToolResult(p, m) = q
    BY <1>5 DEF TakeToolResult
  <2> HIDE DEF k, N, P
  <2>2. k \in 1..P /\ p.pending[k] = m.id
    BY <1>3, <1>5
  <2>3. before \in Seq(Nat) /\ Len(before) = k - 1 /\ \A i \in 1..(k-1) : before[i] = p.pending[i]
    BY <1>1, <2>2, SplitSequence DEF P
  <2>4. after \in Seq(Nat) /\ Len(after) = P - k /\ \A i \in 1..(P - k) : after[i] = p.pending[k + i]
    BY SMTT(30), <1>1, <2>2, SplitSequence DEF P
  <2> HIDE DEF before, after
  <2> DEFINE b == MissingResults(before)
             a == MissingResults(after)
             w == MissingResults(p.pending)
  <2>5. b \in Seq(Messages) /\ Len(b) = k - 1 /\ \A i \in 1..(k-1) : b[i] = ToolResult(p.pending[i], Missing)
    BY <2>3, MissingTyped
  <2>6. a \in Seq(Messages) /\ Len(a) = P - k /\ \A i \in 1..(P-k) : a[i] = ToolResult(p.pending[k+i], Missing)
    BY <2>4, MissingTyped
  <2>7. w \in Seq(Messages) /\ Len(w) = P /\ \A i \in 1..P : w[i] = ToolResult(p.pending[i], Missing)
    BY <1>1, MissingTyped DEF P
  <2> HIDE DEF b, a, w
  <2>8. /\ out \in Seq(Messages) /\ Len(out) = N + k
        /\ \A j \in 1..N : out[j] = p.out[j]
        /\ \A i \in 1..(k-1) : out[N + i] = b[i]
        /\ out[N + k] = m
    <3> DEFINE u == p.out \o b
    <3>1. u \in Seq(Messages) /\ Len(u) = N + (k - 1)
      <4>1. u \in Seq(Messages) /\ Len(u) = Len(p.out) + Len(b)
        BY ZenonT(40), <1>1, <2>5, Concatenation
      <4> QED BY <2>5, <4>1 DEF N
    <3>2. \A j \in 1..N : u[j] = p.out[j]
      BY <1>1, <2>5, Concatenation DEF N
    <3>3. \A i \in 1..(k-1) : u[N + i] = b[i]
      BY <1>1, <2>5, Concatenation DEF N
    <3>4. out = u \o <<m>>
      BY DEF b
    <3> HIDE DEF u, out
    <3>5. out \in Seq(Messages) /\ Len(out) = N + k /\ out[N + k] = m
      <4>1. <<m>> \in Seq(Messages) /\ Len(<<m>>) = 1 /\ <<m>>[1] = m
        OBVIOUS
      <4>2. out \in Seq(Messages) /\ Len(out) = Len(u) + 1 /\ out[Len(u) + 1] = m
        BY <3>1, <3>4, <4>1, Concatenation
      <4>3. Len(u) + 1 = N + k
        BY <1>2, <2>2, <3>1
      <4> QED BY <4>2, <4>3
    <3>6. \A j \in 1..(N + (k - 1)) : out[j] = u[j]
      BY <1>2, <2>2, <3>1, <3>4
    <3>7. \A j \in 1..N : out[j] = p.out[j]
      BY <1>2, <2>2, <3>2, <3>6
    <3>8. \A i \in 1..(k-1) : out[N + i] = b[i]
      BY <1>2, <2>2, <3>3, <3>6
    <3> QED BY <3>5, <3>7, <3>8
  <2> HIDE DEF out
  <2>9. /\ t \in Seq(Messages) /\ Len(t) = N + P
        /\ \A j \in 1..(N + k) : t[j] = out[j]
        /\ \A i \in 1..(P - k) : t[N + k + i] = a[i]
    <3>1. t = out \o a
      BY DEF a
    <3> HIDE DEF t
    <3>2. t \in Seq(Messages) /\ Len(t) = N + P
      <4>1. t \in Seq(Messages) /\ Len(t) = Len(out) + Len(a)
        BY <2>6, <2>8, <3>1, Concatenation
      <4> QED BY <1>2, <2>2, <2>6, <2>8, <4>1
    <3>3. \A j \in 1..(N + k) : t[j] = out[j]
      BY <1>2, <2>2, <2>6, <2>8, <3>1
    <3>4. \A i \in 1..(P - k) : t[N + k + i] = a[i]
      BY <1>2, <2>2, <2>6, <2>8, <3>1
    <3> QED BY <3>2, <3>3, <3>4
  <2>10. /\ s \in Seq(Messages) /\ Len(s) = N + P
         /\ \A j \in 1..N : s[j] = p.out[j]
         /\ \A i \in 1..P : s[N + i] = w[i]
    <3>1. s = p.out \o w
      BY DEF w
    <3> HIDE DEF s
    <3>2. s \in Seq(Messages) /\ Len(s) = N + P
      BY ZenonT(40), <1>1, <2>7, <3>1, Concatenation DEF N
    <3>3. \A j \in 1..N : s[j] = p.out[j]
      BY <1>1, <1>2, <2>7, <3>1 DEF N
    <3>4. \A i \in 1..P : s[N + i] = w[i]
      BY <1>1, <1>2, <2>7, <3>1 DEF N
    <3> QED BY <3>2, <3>3, <3>4
  <2> HIDE DEF s, t
  <2>11. \A j \in 1..(N + P) : Alike(s[j], t[j])
    <3> TAKE j \in 1..(N + P)
    <3>1. CASE j \in 1..N
      <4>1. j \in 1..(N + k)
        BY <1>2, <2>2, <3>1
      <4> QED BY <2>8, <2>9, <2>10, <3>1, <4>1 DEF Alike
    <3>2. CASE j \in (N + 1)..(N + k - 1)
      <4> DEFINE i == j - N
      <4>1. i \in 1..(k - 1) /\ i \in 1..P /\ j = N + i /\ j \in 1..(N + k)
        BY <1>2, <2>2, <3>2
      <4> HIDE DEF i
      <4>2. s[j] = ToolResult(p.pending[i], Missing)
        BY <2>7, <2>10, <4>1
      <4>3. t[j] = ToolResult(p.pending[i], Missing)
        BY <2>5, <2>8, <2>9, <4>1
      <4> QED BY <4>2, <4>3 DEF Alike
    <3>3. CASE j = N + k
      <4>1. j \in 1..(N + k)
        BY <1>2, <2>2, <3>3
      <4>2. t[j] = m
        BY <2>8, <2>9, <3>3, <4>1
      <4>3. s[j] = ToolResult(m.id, Missing)
        BY <2>2, <2>7, <2>10, <3>3
      <4> QED BY <4>2, <4>3 DEF Alike, IsResult, ToolResult
    <3>4. CASE j \in (N + k + 1)..(N + P)
      <4> DEFINE i == j - (N + k)
      <4>1. i \in 1..(P - k) /\ k + i \in 1..P /\ j = N + k + i /\ j = N + (k + i)
        BY <1>2, <2>2, <3>4
      <4> HIDE DEF i
      <4>2. s[j] = ToolResult(p.pending[k + i], Missing)
        BY <2>7, <2>10, <4>1
      <4>3. t[j] = ToolResult(p.pending[k + i], Missing)
        BY <2>6, <2>9, <4>1
      <4> QED BY <4>2, <4>3 DEF Alike
    <3> QED BY <1>2, <2>2, <3>1, <3>2, <3>3, <3>4
  <2>12. Legal(t)
    <3>1. Legal(s)
      BY <1>1 DEF s
    <3> QED BY <2>9, <2>10, <2>11, <3>1, LegalAlike
  <2>13. q.out = out /\ q.pending = after
    OBVIOUS
  <2> HIDE DEF q
  <2>14. Legal(out \o MissingResults(after))
    BY <2>12 DEF t
  <2> QED BY <2>1, <2>4, <2>8, <2>13, <2>14 DEF Round
<1> QED BY <1>4, <1>5

LEMMA TakeRound ==
    ASSUME NEW p, Round(p), NEW m \in Messages
    PROVE  Round(Take(p, m))
BY TakeOtherRound, TakeResultRound DEF Take, IsResult


LEMMA PreparedRound == \A messages \in Seq(Messages) : Round(Prepared(messages))
<1> TAKE messages \in Seq(Messages)
<1> DEFINE N == Len(messages)
           f == Rounds(messages)
           T == {n \in Nat : n <= N => Round(f[n])}
<1>1. N \in Nat /\ \A n \in 1..N : messages[n] \in Messages
  OBVIOUS
<1>2. AreRounds(f, messages, N)
  BY <1>1, RoundsAre
<1> HIDE DEF f, N
<1>3. \A n \in 0..N : f[n] = IF n = 0 THEN Start ELSE Take(f[n - 1], messages[n])
  BY <1>2 DEF AreRounds
<1>4. 0 \in T
  <2>1. f[0] = Start
    BY <1>1, <1>3
  <2> QED BY <2>1, StartRound
<1>5. ASSUME NEW n \in Nat, n \in T PROVE n + 1 \in T
  <2>1. CASE n + 1 <= N
    <3>1. n + 1 \in 0..N /\ n + 1 \in 1..N /\ n + 1 # 0 /\ (n + 1) - 1 = n /\ n <= N
      BY <1>1, <2>1
    <3>2. f[n + 1] = Take(f[n], messages[n + 1])
      BY <1>3, <3>1
    <3>3. Round(f[n]) /\ messages[n + 1] \in Messages
      BY <1>1, <1>5, <3>1
    <3>4. Round(f[n + 1])
      BY <3>2, <3>3, TakeRound
    <3> QED BY <3>4
  <2>2. CASE ~(n + 1 <= N)
    BY <2>2
  <2> QED BY <2>1, <2>2
<1>6. N \in T
  <2> HIDE DEF T
  <2> QED BY <1>1, <1>4, <1>5, Induction
<1>7. Round(f[N])
  BY <1>1, <1>6
<1> QED BY <1>7 DEF Prepared, f, N

(***************************************************************************)
(* prepareMessages() answers with a legal conversation whatever it is      *)
(* given: results may be missing, late, repeated or orphaned, assistant    *)
(* messages cut off, and users may speak while calls are open.             *)
(***************************************************************************)
THEOREM ReplayIsLegal ==
    \A messages \in Seq(Messages) :
        PrepareMessages(messages) \in Seq(Messages) /\ Legal(PrepareMessages(messages))
<1> TAKE messages \in Seq(Messages)
<1> DEFINE p == Prepared(messages)
<1>1. Round(p)
  BY PreparedRound
<1>2. PrepareMessages(messages) = p.out \o MissingResults(p.pending)
  BY DEF PrepareMessages
<1> HIDE DEF p
<1>3. p.out \o MissingResults(p.pending) \in Seq(Messages)
  BY <1>1, MissingTyped, Concatenation DEF Round
<1> QED BY <1>1, <1>2, <1>3 DEF Round


-----------------------------------------------------------------------------
(* What gets to the output stays there. *)
LEMMA InConcatenation ==
    ASSUME NEW S, NEW a \in Seq(S), NEW b \in Seq(S)
    PROVE  ToSet(a) \subseteq ToSet(a \o b) /\ ToSet(b) \subseteq ToSet(a \o b)
<1>1. DOMAIN a = 1..Len(a) /\ DOMAIN b = 1..Len(b) /\ DOMAIN (a \o b) = 1..(Len(a) + Len(b))
      /\ Len(a) \in Nat /\ Len(b) \in Nat
  OBVIOUS
<1>2. \A k \in 1..Len(a) : k \in DOMAIN (a \o b) /\ (a \o b)[k] = a[k]
  BY <1>1, Concatenation
<1>3. \A k \in 1..Len(b) : Len(a) + k \in DOMAIN (a \o b) /\ (a \o b)[Len(a) + k] = b[k]
  BY <1>1, Concatenation
<1> QED BY <1>1, <1>2, <1>3 DEF ToSet

LEMMA InAppend ==
    ASSUME NEW S, NEW a \in Seq(S), NEW x \in S
    PROVE  ToSet(a) \subseteq ToSet(Append(a, x)) /\ x \in ToSet(Append(a, x))
<1>1. /\ DOMAIN a = 1..Len(a) /\ DOMAIN Append(a, x) = 1..(Len(a) + 1) /\ Len(a) \in Nat
      /\ \A k \in 1..Len(a) : Append(a, x)[k] = a[k]
      /\ Append(a, x)[Len(a) + 1] = x
  OBVIOUS
<1> QED BY <1>1 DEF ToSet

LEMMA TakeGrows ==
    ASSUME NEW p, Round(p), NEW m \in Messages
    PROVE  ToSet(p.out) \subseteq ToSet(Take(p, m).out)
<1>1. p.out \in Seq(Messages) /\ p.pending \in Seq(Nat)
  BY DEF Round
<1>2. CASE m.role = "toolResult"
  <2> DEFINE k == PlaceOf(m.id, p.pending)
             before == SubSeq(p.pending, 1, k - 1)
  <2>1. CASE k = 0
    BY <1>2, <2>1 DEF Take, TakeToolResult
  <2>2. CASE k # 0
    <3>1. Take(p, m).out = p.out \o MissingResults(before) \o <<m>>
      BY <1>2, <2>2 DEF Take, TakeToolResult
    <3>2. before \in Seq(Nat)
      <4>1. k \in 1..Len(p.pending)
        BY <1>1, <2>2, OpenCall
      <4> HIDE DEF k
      <4> QED BY <1>1, <4>1
    <3> HIDE DEF before
    <3>3. MissingResults(before) \in Seq(Messages)
      BY <3>2, MissingTyped
    <3> DEFINE u == p.out \o MissingResults(before)
               last == <<m>>
    <3>4. u \in Seq(Messages) /\ ToSet(p.out) \subseteq ToSet(u)
      BY <1>1, <3>3, Concatenation, InConcatenation
    <3>5. last \in Seq(Messages) /\ Take(p, m).out = u \o last
      BY <3>1
    <3> HIDE DEF u, last
    <3>6. ToSet(u) \subseteq ToSet(u \o last)
      BY <3>4, <3>5, InConcatenation
    <3> QED BY <3>4, <3>5, <3>6
  <2> QED BY <2>1, <2>2
<1>3. CASE m.role # "toolResult"
  <2> DEFINE flushed == p.out \o MissingResults(p.pending)
  <2>1. Take(p, m).out \in {flushed, Append(flushed, m)}
    BY <1>3 DEF Take, TakeOther
  <2>2. flushed \in Seq(Messages) /\ ToSet(p.out) \subseteq ToSet(flushed)
    BY <1>1, MissingTyped, Concatenation, InConcatenation
  <2> HIDE DEF flushed
  <2>3. ToSet(flushed) \subseteq ToSet(Append(flushed, m))
    BY <2>2, InAppend
  <2> QED BY <2>1, <2>2, <2>3
<1> QED BY <1>2, <1>3

(* What was replayed before is replayed with one message more. *)
LEMMA OutGrows ==
    ASSUME NEW messages \in Seq(Messages), NEW m \in Messages
    PROVE  ToSet(Prepared(messages).out) \subseteq ToSet(Prepared(Append(messages, m)).out)
BY PreparedRound, PreparedAppend, TakeGrows

(* An assistant message leaves its calls open. *)
LEMMA CallsAreOpen ==
    ASSUME NEW messages \in Seq(Messages), NEW calls \in Seq(Nat)
    PROVE  /\ Assistant(calls) \in Messages
           /\ Prepared(Append(messages, Assistant(calls))).pending = calls
<1> DEFINE m == Assistant(calls)
           p == Prepared(messages)
<1>1. m \in Messages
  BY DEF Assistant, Messages
<1>2. m.role = "assistant" /\ m.completed /\ ~m.empty /\ m.calls = calls
  BY DEF Assistant
<1> HIDE DEF m
<1>3. Prepared(Append(messages, m)) = Take(p, m)
  BY <1>1, PreparedAppend
<1> HIDE DEF p
<1>4. Take(p, m).pending = calls
  BY <1>2 DEF Take, TakeOther, Replayed
<1> QED BY <1>1, <1>3, <1>4 DEF m

(* The result of the first open call gets to the output and closes it. *)
LEMMA ResultIsTaken ==
    ASSUME NEW messages \in Seq(Messages), NEW m \in Messages, IsResult(m),
           Prepared(messages).pending # <<>>, Prepared(messages).pending[1] = m.id
    PROVE  LET p == Prepared(Append(messages, m))
           IN  m \in ToSet(p.out) /\ p.pending = Tail(Prepared(messages).pending)
<1> DEFINE old == Prepared(messages)
           k == PlaceOf(m.id, old.pending)
<1>1. Prepared(Append(messages, m)) = Take(old, m)
  BY PreparedAppend
<1>2. old.out \in Seq(Messages) /\ old.pending \in Seq(Nat)
  BY PreparedRound DEF Round
<1>3. k = 1
  <2>1. 1 \in 1..Len(old.pending)
    <3>1. old.pending # <<>>
      OBVIOUS
    <3> HIDE DEF old
    <3> QED BY <1>2, <3>1
  <2>2. k # 0
    BY <1>2, <2>1, OpenCall
  <2>3. k \in 1..Len(old.pending) /\ k <= 1
    BY <1>2, <2>1, <2>2, OpenCall
  <2> QED BY <2>3
<1> HIDE DEF old
<1>4. Take(old, m) = [out |-> old.out \o MissingResults(SubSeq(old.pending, 1, k - 1)) \o <<m>>,
                      pending |-> SubSeq(old.pending, k + 1, Len(old.pending))]
  BY <1>3 DEF Take, TakeToolResult, IsResult
<1>5. SubSeq(old.pending, 1, 0) = <<>> /\ SubSeq(old.pending, 2, Len(old.pending)) = Tail(old.pending)
  BY <1>2
<1>6. Take(old, m) = [out |-> old.out \o MissingResults(<<>>) \o <<m>>, pending |-> Tail(old.pending)]
  <2>1. k - 1 = 0 /\ k + 1 = 2
    BY <1>3
  <2> HIDE DEF k
  <2>2. SubSeq(old.pending, 1, k - 1) = <<>> /\ SubSeq(old.pending, k + 1, Len(old.pending)) = Tail(old.pending)
    BY <1>5, <2>1
  <2> QED BY <1>4, <2>2
<1>7. Take(old, m) = [out |-> Append(old.out, m), pending |-> Tail(old.pending)]
  <2>1. old.out \o <<>> \o <<m>> = Append(old.out, m)
    BY <1>2
  <2> QED BY <1>6, <2>1, NothingMissing
<1>8. m \in ToSet(Append(old.out, m))
  BY <1>2, InAppend
<1> QED BY <1>1, <1>7, <1>8 DEF old


LEMMA SameSequence ==
    ASSUME NEW S, NEW a \in Seq(S), NEW b \in Seq(S), Len(a) = Len(b),
           \A k \in 1..Len(a) : a[k] = b[k]
    PROVE  a = b
OBVIOUS

LEMMA OutGrowsOn ==
    ASSUME NEW messages \in Seq(Messages), NEW more \in Seq(Messages)
    PROVE  ToSet(Prepared(messages).out) \subseteq ToSet(Prepared(messages \o more).out)
<1> DEFINE N == Len(more)
           upTo(n) == messages \o SubSeq(more, 1, n)
           T == {n \in Nat : n <= N => ToSet(Prepared(messages).out) \subseteq ToSet(Prepared(upTo(n)).out)}
<1>1. N \in Nat /\ \A n \in 1..N : more[n] \in Messages
  OBVIOUS
<1>2. 0 \in T
  <2>1. upTo(0) = messages
    OBVIOUS
  <2> HIDE DEF upTo
  <2> QED BY <2>1
<1>3. ASSUME NEW n \in Nat, n \in T PROVE n + 1 \in T
  <2>1. CASE n + 1 <= N
    <3>1. SubSeq(more, 1, n) \in Seq(Messages) /\ more[n + 1] \in Messages
      BY <1>1, <2>1
    <3>2. upTo(n) \in Seq(Messages)
      BY <3>1, Concatenation
    <3>3. SubSeq(more, 1, n + 1) = Append(SubSeq(more, 1, n), more[n + 1])
      BY <1>1, <2>1
    <3>4. upTo(n + 1) = Append(upTo(n), more[n + 1])
      <4> DEFINE a == SubSeq(more, 1, n)
      <4> HIDE DEF a
      <4>1. messages \o Append(a, more[n + 1]) = Append(messages \o a, more[n + 1])
        BY <3>1 DEF a
      <4> QED BY <3>3, <4>1 DEF a
    <3> HIDE DEF upTo
    <3>5. ToSet(Prepared(upTo(n)).out) \subseteq ToSet(Prepared(upTo(n + 1)).out)
      BY <3>1, <3>2, <3>4, OutGrows
    <3>6. ToSet(Prepared(messages).out) \subseteq ToSet(Prepared(upTo(n)).out)
      BY <1>3, <2>1
    <3> QED BY <3>5, <3>6
  <2>2. CASE ~(n + 1 <= N)
    BY <2>2
  <2> QED BY <2>1, <2>2
<1>4. N \in T
  <2> HIDE DEF T
  <2> QED BY <1>1, <1>2, <1>3, Induction
<1>5. upTo(N) = messages \o more
  OBVIOUS
<1> HIDE DEF upTo, N
<1>6. ToSet(Prepared(messages).out) \subseteq ToSet(Prepared(upTo(N)).out)
  BY <1>1, <1>4
<1> QED BY <1>5, <1>6

(* The calls of a turn are numbered; their results come in that order. *)
Ids(first, last) == [k \in 1..(last - first + 1) |-> first + k - 1]
Outcome(turn, i) == ToolResult(i, <<turn, i>>)
Outcomes(turn, first, n) == [k \in 1..n |-> Outcome(turn, first + k - 1)]

LEMMA IdsAre ==
    ASSUME NEW first \in Nat, NEW last \in Nat, first <= last
    PROVE  /\ Ids(first, last) # <<>> /\ Ids(first, last)[1] = first
           /\ Tail(Ids(first, last)) = Ids(first + 1, last)
<1> DEFINE ids == Ids(first, last)
           rest == Ids(first + 1, last)
<1>1. /\ ids \in Seq(Nat) /\ Len(ids) = last - first + 1
      /\ \A k \in 1..(last - first + 1) : ids[k] = first + k - 1
  BY DEF Ids
<1>2. /\ rest \in Seq(Nat) /\ Len(rest) = last - first
      /\ \A k \in 1..(last - first) : rest[k] = first + k
  BY DEF Ids
<1> HIDE DEF ids, rest
<1>3. ids # <<>> /\ ids[1] = first
  BY <1>1
<1>4. /\ Tail(ids) \in Seq(Nat) /\ Len(Tail(ids)) = last - first
      /\ \A k \in 1..(last - first) : Tail(ids)[k] = first + k
  BY <1>1, <1>3
<1>5. Tail(ids) = rest
  BY <1>2, <1>4, SameSequence
<1> QED BY <1>3, <1>5 DEF ids, rest

LEMMA OutcomesTyped ==
    ASSUME NEW turn \in Nat, NEW first \in Nat \ {0}, NEW n \in Nat
    PROVE  /\ Outcomes(turn, first, n) \in Seq(Messages)
           /\ \A i \in Nat : Outcome(turn, i) \in Messages
<1>1. \A i \in Nat : Outcome(turn, i) \in Messages
  <2> TAKE i \in Nat
  <2>1. <<turn, i>> \in Seq(Nat)
    OBVIOUS
  <2> QED BY <2>1 DEF Outcome, ToolResult, Messages
<1>2. \A k \in 1..n : Outcome(turn, first + k - 1) \in Messages
  BY <1>1
<1> QED BY <1>1, <1>2 DEF Outcomes

(* The results of the first open calls get to the output and close them. *)
LEMMA OutcomesAreTaken ==
    ASSUME NEW messages \in Seq(Messages), NEW turn \in Nat,
           NEW first \in Nat \ {0}, NEW last \in Nat, NEW N \in Nat, first + N <= last + 1,
           Prepared(messages).pending = Ids(first, last)
    PROVE  LET p == Prepared(messages \o Outcomes(turn, first, N))
           IN  /\ p.pending = Ids(first + N, last)
               /\ \A i \in first..(first + N - 1) : Outcome(turn, i) \in ToSet(p.out)
<1> DEFINE upTo(n) == messages \o Outcomes(turn, first, n)
           Taken(n) == /\ Prepared(upTo(n)).pending = Ids(first + n, last)
                       /\ \A i \in first..(first + n - 1) : Outcome(turn, i) \in ToSet(Prepared(upTo(n)).out)
           T == {n \in Nat : n <= N => Taken(n)}
<1>1. 0 \in T
  <2>1. Outcomes(turn, first, 0) = <<>>
    BY DEF Outcomes
  <2>2. upTo(0) = messages /\ first + 0 = first /\ first..(first + 0 - 1) = {}
    BY <2>1
  <2> HIDE DEF upTo
  <2> QED BY <2>2
<1>2. ASSUME NEW n \in Nat, n \in T PROVE n + 1 \in T
  <2>1. CASE n + 1 <= N
    <3> DEFINE m == Outcome(turn, first + n)
               s == Outcomes(turn, first, n)
    <3>1. m \in Messages /\ s \in Seq(Messages)
      <4>1. first + n \in Nat
        OBVIOUS
      <4> QED BY <4>1, OutcomesTyped
    <3>2. IsResult(m) /\ m.id = first + n
      BY DEF Outcome, ToolResult, IsResult
    <3>3. Outcomes(turn, first, n + 1) = Append(s, m)
      <4> DEFINE t == Outcomes(turn, first, n + 1)
      <4>1. t \in Seq(Messages) /\ Len(t) = n + 1
        BY SMTT(30), OutcomesTyped DEF Outcomes
      <4>2. Len(s) = n /\ \A k \in 1..n : s[k] = Outcome(turn, first + k - 1)
        BY DEF Outcomes
      <4>3. \A k \in 1..(n + 1) : t[k] = Outcome(turn, first + k - 1)
        BY DEF Outcomes
      <4>4. t[n + 1] = m
        <5>1. n + 1 \in 1..(n + 1) /\ first + (n + 1) - 1 = first + n
          OBVIOUS
        <5> HIDE DEF t
        <5> QED BY <4>3, <5>1
      <4>5. \A k \in 1..n : t[k] = s[k]
        BY <4>2, <4>3
      <4>6. Append(s, m) \in Seq(Messages) /\ Len(Append(s, m)) = n + 1
            /\ Append(s, m)[n + 1] = m /\ \A k \in 1..n : Append(s, m)[k] = s[k]
        <5> HIDE DEF s, m
        <5> QED BY <3>1, <4>2
      <4> HIDE DEF t, s, m
      <4>7. \A k \in 1..(n + 1) : t[k] = Append(s, m)[k]
        <5>1. \A k \in 1..(n + 1) : k \in 1..n \/ k = n + 1
          OBVIOUS
        <5> QED BY <4>4, <4>5, <4>6, <5>1
      <4>8. t = Append(s, m)
        BY <4>1, <4>6, <4>7, SameSequence
      <4> QED BY <4>8 DEF t
    <3>4. upTo(n) \in Seq(Messages)
      BY <3>1, Concatenation
    <3>5. upTo(n + 1) = Append(upTo(n), m)
      <4> HIDE DEF m, s
      <4>1. messages \o Append(s, m) = Append(messages \o s, m)
        BY <3>1
      <4> QED BY <3>3, <4>1 DEF s
    <3> HIDE DEF upTo, s
    <3>6. /\ Prepared(upTo(n)).pending = Ids(first + n, last)
          /\ \A i \in first..(first + n - 1) : Outcome(turn, i) \in ToSet(Prepared(upTo(n)).out)
      BY <1>2, <2>1
    <3>7. /\ Ids(first + n, last) # <<>> /\ Ids(first + n, last)[1] = first + n
          /\ Tail(Ids(first + n, last)) = Ids(first + (n + 1), last)
      <4> DEFINE e == first + n
      <4>1. e \in Nat /\ e <= last /\ e + 1 = first + (n + 1)
        BY <2>1
      <4> HIDE DEF e
      <4>2. /\ Ids(e, last) # <<>> /\ Ids(e, last)[1] = e
            /\ Tail(Ids(e, last)) = Ids(e + 1, last)
        BY <4>1, IdsAre
      <4> QED BY <4>1, <4>2 DEF e
    <3> HIDE DEF m
    <3>8. /\ m \in ToSet(Prepared(upTo(n + 1)).out)
          /\ Prepared(upTo(n + 1)).pending = Ids(first + (n + 1), last)
      <4>1. Prepared(upTo(n)).pending # <<>> /\ Prepared(upTo(n)).pending[1] = m.id
        BY <3>2, <3>6, <3>7
      <4>2. LET p == Prepared(Append(upTo(n), m))
            IN  m \in ToSet(p.out) /\ p.pending = Tail(Prepared(upTo(n)).pending)
        BY <3>1, <3>2, <3>4, <4>1, ResultIsTaken
      <4> QED BY <3>5, <3>6, <3>7, <4>2
    <3>9. ToSet(Prepared(upTo(n)).out) \subseteq ToSet(Prepared(upTo(n + 1)).out)
      BY <3>1, <3>4, <3>5, OutGrows
    <3>10. \A i \in first..(first + (n + 1) - 1) : i \in first..(first + n - 1) \/ i = first + n
      OBVIOUS
    <3> QED BY <3>6, <3>8, <3>9, <3>10 DEF m
  <2>2. CASE ~(n + 1 <= N)
    BY <2>2
  <2> QED BY <2>1, <2>2
<1>3. N \in T
  <2> HIDE DEF T
  <2> QED BY <1>1, <1>2, Induction
<1>4. Taken(N)
  <2> HIDE DEF Taken
  <2> QED BY <1>3
<1> QED BY <1>4

==============================================================================
