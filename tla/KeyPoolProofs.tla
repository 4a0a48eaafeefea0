---------------------------- MODULE KeyPoolProofs ----------------------------
(***************************************************************************)
(* Proofs about the key pool: for every number of accounts, keys and      *)
(* foreign addresses, no key is handed out twice and every account's      *)
(* receiving key is labelled with that account.                          *)
(*                                                                         *)
(* The invariant Inv4 is stated of the four parts of the wallet the key   *)
(* helpers touch, so that it can be carried through the wallet-state       *)
(* records the helpers pass on: Good(s) says it of such a record.  The     *)
(* strengthening over the two properties is the range of the keys: every  *)
(* key in the pool, the book and the accounts is at most nextKey, so that *)
(* the keys a top-up generates are new.                                    *)
(***************************************************************************)
EXTENDS KeyPool, SequenceTheorems, TLAPS

StFields == {"pool", "nextKey", "book", "acct"}

(* No key twice in a sequence of keys; no key of a sequence in a set.      *)
Distinct(p) == \A i, j \in DOMAIN p : p[i] = p[j] => i = j
Avoids(p, D) == \A i \in DOMAIN p : p[i] \notin D

(* No two accounts share a receiving key; each is labelled with its owner. *)
AcctDistinct(ac) == \A a, b \in Accounts : a # b /\ ac[a] # NoKey => ac[a] # ac[b]
Labelled(ac, bk) == \A a \in Accounts : ac[a] # NoKey => ac[a] \in DOMAIN bk /\ bk[ac[a]] = a

Inv4(p, nk, bk, ac) ==
    /\ nk \in 0..MaxKeys
    /\ p \in Seq(1..nk)
    /\ DOMAIN bk \subseteq (1..nk) \cup Foreign
    /\ \A x \in DOMAIN bk : bk[x] \in Accounts
    /\ ac \in [Accounts -> 0..nk]
    /\ Distinct(p)
    /\ Avoids(p, DOMAIN bk)
    /\ AcctDistinct(ac)
    /\ Labelled(ac, bk)

Good(s) == DOMAIN s = StFields /\ Inv4(s.pool, s.nextKey, s.book, s.acct)

IInv == Inv4(pool, nextKey, book, acct)

(* The wallet state record of a state satisfying IInv is good.          *)
LEMMA StGood == IInv => Good(St)
  BY DEF IInv, Good, St, StFields

(* Writing a good wallet state record back gives a state satisfying IInv.*)
LEMMA ApplyIInv ==
    ASSUME NEW s, Good(s), Apply(s)
    PROVE  IInv'
  BY DEF Apply, Good, IInv

(* The keys Fresh generates.                                               *)
LEMMA FreshFacts ==
    ASSUME NEW s, s.nextKey \in Nat, NEW n \in Nat
    PROVE  /\ Fresh(s, n) \in Seq(1..(s.nextKey + n))
           /\ Len(Fresh(s, n)) = n
           /\ \A i \in 1..n : Fresh(s, n)[i] = s.nextKey + i
  <1>1. \A i \in 1..n : s.nextKey + i \in 1..(s.nextKey + n)
    OBVIOUS
  <1>2. Fresh(s, n) \in Seq(1..(s.nextKey + n))
    BY <1>1, IsASeq DEF Fresh
  <1>. QED
    BY <1>2 DEF Fresh

(* A key from past the range is no foreign address.                        *)
LEMMA KeyNotForeign ==
    ASSUME NEW k \in 1..MaxKeys
    PROVE  k \notin Foreign
  BY KeyPoolAssumption

(* Appending keys past nk to a sequence of distinct keys up to nk, none of *)
(* them in D, gives a sequence of distinct keys none of which is in D.     *)
LEMMA AppendFresh ==
    ASSUME NEW nk \in Nat, NEW n \in Nat, NEW p \in Seq(1..nk),
           NEW F \in Seq(1..(nk + n)), Len(F) = n,
           \A i \in 1..n : F[i] = nk + i,
           Distinct(p), NEW D, Avoids(p, D),
           \A x \in (nk + 1)..(nk + n) : x \notin D
    PROVE  /\ p \o F \in Seq(1..(nk + n))
           /\ Distinct(p \o F)
           /\ Avoids(p \o F, D)
<1> DEFINE q == p \o F
<1>1. p \in Seq(1..(nk + n))
  BY SeqMonotonic
<1> DEFINE T == 1..(nk + n)
<1>2. /\ q \in Seq(T)
      /\ Len(q) = Len(p) + Len(F)
      /\ \A i \in 1..(Len(p) + Len(F)) : q[i] = IF i <= Len(p) THEN p[i] ELSE F[i - Len(p)]
  <2>1. p \in Seq(T) /\ F \in Seq(T)
    BY <1>1
  <2>. QED
    BY <2>1, ConcatProperties, Zenon
<1>3. DOMAIN q = 1..(Len(p) + n) /\ DOMAIN p = 1..Len(p) /\ Len(p) \in Nat
  BY <1>2, LenProperties
<1>4. \A i \in 1..Len(p) : p[i] \in 1..nk
  BY ElementOfSeq
<1>5. \A i \in DOMAIN q :
         \/ i <= Len(p) /\ q[i] = p[i]
         \/ i > Len(p) /\ q[i] = nk + (i - Len(p))
  BY <1>2, <1>3
<1>6. \A i, j \in DOMAIN q : q[i] = q[j] => i = j
  <2> SUFFICES ASSUME NEW i \in DOMAIN q, NEW j \in DOMAIN q, q[i] = q[j]
               PROVE  i = j
    OBVIOUS
  <2>1. CASE i <= Len(p) /\ j <= Len(p)
    <3>1. p[i] = p[j] /\ i \in DOMAIN p /\ j \in DOMAIN p
      BY <2>1, <1>3, <1>5
    <3>. QED
      BY <3>1 DEF Distinct
  <2>0. i \in Int /\ j \in Int /\ i >= 1 /\ j >= 1
    BY <1>3
  <2>2. CASE i <= Len(p) /\ ~(j <= Len(p))
    <3>1. q[i] = p[i] /\ p[i] \in 1..nk
      BY <2>2, <2>0, <1>3, <1>4, <1>5
    <3>2. q[j] = nk + (j - Len(p)) /\ j - Len(p) >= 1
      BY <2>2, <2>0, <1>3, <1>5
    <3>3. nk + (j - Len(p)) \in 1..nk
      <4>1. q[i] = q[j]
        OBVIOUS
      <4>. QED
        BY <4>1, <3>1, <3>2, Zenon
    <3>. QED
      BY <3>3, <3>2, <2>0, <1>3
  <2>3. CASE ~(i <= Len(p)) /\ j <= Len(p)
    <3>1. q[j] = p[j] /\ p[j] \in 1..nk
      BY <2>3, <2>0, <1>3, <1>4, <1>5
    <3>2. q[i] = nk + (i - Len(p)) /\ i - Len(p) >= 1
      BY <2>3, <2>0, <1>3, <1>5
    <3>3. nk + (i - Len(p)) \in 1..nk
      BY <3>1, <3>2
    <3>. QED
      BY <3>3, <3>2, <2>0, <1>3
  <2>4. CASE ~(i <= Len(p)) /\ ~(j <= Len(p))
    <3>1. q[i] = nk + (i - Len(p)) /\ q[j] = nk + (j - Len(p))
      BY <2>4, <2>0, <1>3, <1>5
    <3>2. nk + (i - Len(p)) = nk + (j - Len(p))
      BY <3>1, Zenon
    <3>. QED
      BY <3>2, <2>0, <1>3
  <2>. QED
    BY <2>1, <2>2, <2>3, <2>4
<1>7. \A i \in DOMAIN q : (\E u \in DOMAIN p : q[i] = p[u]) \/ q[i] \in (nk + 1)..(nk + n)
  <2> SUFFICES ASSUME NEW i \in DOMAIN q
               PROVE  (\E u \in DOMAIN p : q[i] = p[u]) \/ q[i] \in (nk + 1)..(nk + n)
    OBVIOUS
  <2>1. CASE i <= Len(p)
    BY <2>1, <1>3, <1>5
  <2>2. CASE ~(i <= Len(p))
    BY <2>2, <1>3, <1>5
  <2>. QED
    BY <2>1, <2>2
<1>8. Len(F) = n
  OBVIOUS
<1>. QED
  BY <1>2, <1>6, <1>7, <1>8, Zenon DEF Distinct, Avoids


(* The keys after nextKey are in no address book entry.                   *)
LEMMA FreshNotInBook ==
    ASSUME NEW s, Good(s), NEW n \in Nat, s.nextKey + n <= MaxKeys
    PROVE  \A x \in (s.nextKey + 1)..(s.nextKey + n) : x \notin DOMAIN s.book
<1>1. s.nextKey \in Nat /\ DOMAIN s.book \subseteq (1..s.nextKey) \cup Foreign
  BY DEF Good, Inv4
<1>2. \A x \in (s.nextKey + 1)..(s.nextKey + n) : x \notin Foreign
  <2>1. \A x \in (s.nextKey + 1)..(s.nextKey + n) : x \in 1..MaxKeys
    BY <1>1, KeyPoolAssumption
  <2>. QED
    BY <2>1, KeyNotForeign
<1>. QED
  BY <1>1, <1>2

(* Appending n fresh keys to the pool keeps the invariant.                *)
LEMMA AppendGood ==
    ASSUME NEW s, Good(s), NEW n \in Nat, s.nextKey + n <= MaxKeys,
           NEW t, DOMAIN t = StFields,
           t.pool = s.pool \o Fresh(s, n), t.nextKey = s.nextKey + n,
           t.book = s.book, t.acct = s.acct
    PROVE  Good(t)
<1> DEFINE p == s.pool
           nk == s.nextKey
           F == Fresh(s, n)
           D == DOMAIN s.book
<1>1. nk \in Nat /\ p \in Seq(1..nk) /\ Distinct(p) /\ Avoids(p, D)
  BY DEF Good, Inv4
<1>2. /\ F \in Seq(1..(nk + n)) /\ Len(F) = n
      /\ \A i \in 1..n : F[i] = nk + i
  BY <1>1, FreshFacts
<1>3. \A x \in (nk + 1)..(nk + n) : x \notin D
  BY FreshNotInBook
<1>4. /\ p \o F \in Seq(1..(nk + n))
      /\ Distinct(p \o F)
      /\ Avoids(p \o F, D)
  <2>. HIDE DEF p, nk, F, D
  <2>. QED
    BY <1>1, <1>2, <1>3, AppendFresh, Zenon
<1>5. /\ D \subseteq (1..(nk + n)) \cup Foreign
      /\ s.acct \in [Accounts -> 0..(nk + n)]
  BY <1>1 DEF Good, Inv4
<1>6. nk + n \in 0..MaxKeys
  BY <1>1
<1>7. t.pool = p \o F /\ t.nextKey = nk + n /\ t.book = s.book /\ t.acct = s.acct
  OBVIOUS
<1>. HIDE DEF F
<1>. QED
  BY <1>4, <1>5, <1>6, <1>7 DEF Good, Inv4
(* A top-up keeps the invariant: the keys it appends are new.              *)
LEMMA TopUpGood ==
    ASSUME NEW s, Good(s), NEW k \in Int, TopUpKeyPool(s, k).nextKey <= MaxKeys
    PROVE  /\ Good(TopUpKeyPool(s, k))
           /\ TopUpKeyPool(s, k).book = s.book
           /\ TopUpKeyPool(s, k).acct = s.acct
<1>1. CASE locked
  BY <1>1 DEF TopUpKeyPool
<1>2. CASE ~locked
  <2>1. \E m \in Nat : TopUpKeyPool(s, k) =
            [s EXCEPT !.pool = s.pool \o Fresh(s, m), !.nextKey = s.nextKey + m]
    <3> DEFINE target == IF k > 0 THEN k ELSE KeypoolSize
               m0 == IF Len(s.pool) < target THEN target - Len(s.pool) ELSE 0
    <3>1. s.pool \in Seq(1..s.nextKey)
      BY DEF Good, Inv4
    <3>2. Len(s.pool) \in Nat
      BY <3>1, LenProperties, Zenon
    <3>3. m0 \in Nat
      BY <3>2, KeyPoolAssumption
    <3>4. TopUpKeyPool(s, k) = [s EXCEPT !.pool = s.pool \o Fresh(s, m0), !.nextKey = s.nextKey + m0]
      BY <1>2 DEF TopUpKeyPool
    <3>. HIDE DEF m0
    <3>. QED
      BY <3>3, <3>4, Zenon
  <2>2. PICK m \in Nat : TopUpKeyPool(s, k) =
            [s EXCEPT !.pool = s.pool \o Fresh(s, m), !.nextKey = s.nextKey + m]
    BY <2>1, Zenon
  <2> DEFINE t == TopUpKeyPool(s, k)
  <2>3. /\ DOMAIN t = StFields
        /\ t.pool = s.pool \o Fresh(s, m) /\ t.nextKey = s.nextKey + m
        /\ t.book = s.book /\ t.acct = s.acct
    BY <2>2, Zenon DEF Good, StFields
  <2>4. s.nextKey + m <= MaxKeys
    BY <2>3, Zenon
  <2>. HIDE DEF t
  <2>5. Good(t)
    BY <2>3, <2>4, AppendGood, Zenon
  <2>. QED
    BY <2>3, <2>5 DEF t
<1>. QED
  BY <1>1, <1>2

(* Replacing the pool by n fresh keys keeps the invariant.                 *)
LEMMA ResetGood ==
    ASSUME NEW s, Good(s), NEW n \in Nat, s.nextKey + n <= MaxKeys,
           NEW t, DOMAIN t = StFields,
           t.pool = Fresh(s, n), t.nextKey = s.nextKey + n,
           t.book = s.book, t.acct = s.acct
    PROVE  Good(t)
<1> DEFINE nk == s.nextKey
           F == Fresh(s, n)
<1>1. nk \in Nat
  BY DEF Good, Inv4
<1>2. /\ F \in Seq(1..(nk + n)) /\ DOMAIN F = 1..n
      /\ \A i \in 1..n : F[i] = nk + i
  <2>1. F \in Seq(1..(nk + n))
    BY <1>1, FreshFacts, Zenon
  <2>. QED
    BY <2>1 DEF Fresh
<1>3. Distinct(F)
  BY <1>1, <1>2 DEF Distinct
<1>4. Avoids(F, DOMAIN s.book)
  <2>1. \A x \in (nk + 1)..(nk + n) : x \notin DOMAIN s.book
    BY FreshNotInBook
  <2>. QED
    BY <1>1, <1>2, <2>1 DEF Avoids
<1>5. /\ DOMAIN s.book \subseteq (1..(nk + n)) \cup Foreign
      /\ s.acct \in [Accounts -> 0..(nk + n)]
  BY <1>1 DEF Good, Inv4
<1>6. nk + n \in 0..MaxKeys
  BY <1>1, KeyPoolAssumption
<1>7. t.pool = F /\ t.nextKey = nk + n /\ t.book = s.book /\ t.acct = s.acct
  OBVIOUS
<1>. HIDE DEF F
<1>. QED
  BY <1>2, <1>3, <1>4, <1>5, <1>6, <1>7 DEF Good, Inv4

(* A reset keeps the invariant.                                            *)
LEMMA NewPoolGood ==
    ASSUME NEW s, Good(s), NEW k \in Nat, NewKeyPool(s, k).nextKey <= MaxKeys
    PROVE  /\ Good(NewKeyPool(s, k))
           /\ NewKeyPool(s, k).book = s.book
           /\ NewKeyPool(s, k).acct = s.acct
<1>1. CASE locked
  BY <1>1 DEF NewKeyPool
<1>2. CASE ~locked
  <2> DEFINE t == NewKeyPool(s, k)
  <2>1. /\ DOMAIN t = StFields
        /\ t.pool = Fresh(s, k) /\ t.nextKey = s.nextKey + k
        /\ t.book = s.book /\ t.acct = s.acct
    BY <1>2 DEF NewKeyPool, Good, StFields
  <2>2. s.nextKey + k <= MaxKeys
    BY <2>1
  <2>. HIDE DEF t
  <2>3. Good(t)
    BY <2>1, <2>2, ResetGood, Zenon
  <2>. QED
    BY <2>1, <2>3 DEF t
<1>. QED
  BY <1>1, <1>2

(* Taking the oldest key off a pool of distinct keys none of which is in D. *)
LEMMA TailFacts ==
    ASSUME NEW nk \in Nat, NEW p \in Seq(1..nk), p # <<>>, Distinct(p),
           NEW D, Avoids(p, D)
    PROVE  /\ Head(p) \in 1..nk /\ Head(p) \notin D
           /\ Tail(p) \in Seq(1..nk)
           /\ Distinct(Tail(p))
           /\ Avoids(Tail(p), D \cup {Head(p)})
<1>1. /\ Head(p) \in 1..nk /\ Tail(p) \in Seq(1..nk)
      /\ Len(Tail(p)) = Len(p) - 1
      /\ \A i \in 1..Len(Tail(p)) : Tail(p)[i] = p[i + 1]
  BY HeadTailProperties, Zenon
<1>2. Len(p) \in Nat \ {0} /\ DOMAIN p = 1..Len(p) /\ Head(p) = p[1]
  <2>1. Len(p) \in Nat \ {0}
    BY EmptySeq, Zenon
  <2>2. DOMAIN p = 1..Len(p)
    BY LenProperties, Zenon
  <2>3. Head(p) = p[1]
    OBVIOUS
  <2>. QED
    BY <2>1, <2>2, <2>3
<1>3. DOMAIN Tail(p) = 1..(Len(p) - 1)
  BY <1>1, LenProperties, Zenon
<1>4. Head(p) \notin D
  BY <1>2 DEF Avoids
<1>5. Distinct(Tail(p))
  BY <1>1, <1>2, <1>3, SMTT(30) DEF Distinct
<1>6. Avoids(Tail(p), D \cup {Head(p)})
  <2> SUFFICES ASSUME NEW i \in DOMAIN Tail(p)
               PROVE  Tail(p)[i] \notin D \cup {Head(p)}
    BY DEF Avoids
  <2>1. Tail(p)[i] = p[i + 1] /\ i + 1 \in DOMAIN p /\ i + 1 # 1
    BY <1>1, <1>2, <1>3
  <2>2. p[i + 1] \notin D
    BY <2>1 DEF Avoids
  <2>3. p[i + 1] # p[1]
    BY <2>1, <1>2 DEF Distinct
  <2>. QED
    BY <2>1, <2>2, <2>3, <1>2
<1>. QED
  BY <1>1, <1>4, <1>5, <1>6

(* Taking the oldest key off the pool and labelling it with account a, as *)
(* getnewaddress does, or also making it a's receiving key, as             *)
(* GetAccountAddress does, keeps the invariant.                           *)
LEMMA TakeGood ==
    ASSUME NEW s, Good(s), s.pool # <<>>, NEW a \in Accounts,
           NEW t, DOMAIN t = StFields,
           t.pool = Tail(s.pool), t.nextKey = s.nextKey,
           t.book = SetAddressBookName(s.book, Head(s.pool), a),
           t.acct = s.acct \/ t.acct = [s.acct EXCEPT ![a] = Head(s.pool)]
    PROVE  /\ Good(t)
           /\ Head(s.pool) \notin DOMAIN s.book
           /\ Head(s.pool) # NoKey
<1> DEFINE p == s.pool
           nk == s.nextKey
           bk == s.book
           ac == s.acct
           h == Head(p)
           bk2 == SetAddressBookName(bk, h, a)
<1>1. /\ nk \in 0..MaxKeys
      /\ p \in Seq(1..nk)
      /\ DOMAIN bk \subseteq (1..nk) \cup Foreign
      /\ \A x \in DOMAIN bk : bk[x] \in Accounts
      /\ ac \in [Accounts -> 0..nk]
      /\ Distinct(p) /\ Avoids(p, DOMAIN bk)
      /\ AcctDistinct(ac) /\ Labelled(ac, bk)
  BY DEF Good, Inv4
<1>2. /\ h \in 1..nk /\ h \notin DOMAIN bk
      /\ Tail(p) \in Seq(1..nk)
      /\ Distinct(Tail(p))
      /\ Avoids(Tail(p), DOMAIN bk \cup {h})
  <2>1. nk \in Nat /\ p # <<>>
    BY <1>1
  <2>. HIDE DEF p, nk, bk
  <2>2. h \in 1..nk
    BY <1>1, <2>1, TailFacts, Zenon
  <2>3. h \notin DOMAIN bk
    BY <1>1, <2>1, TailFacts, Zenon
  <2>4. Tail(p) \in Seq(1..nk)
    BY <1>1, <2>1, TailFacts, Zenon
  <2>5. Distinct(Tail(p))
    BY <1>1, <2>1, TailFacts, Zenon
  <2>6. Avoids(Tail(p), DOMAIN bk \cup {h})
    BY <1>1, <2>1, TailFacts, Zenon
  <2>. QED
    BY <2>2, <2>3, <2>4, <2>5, <2>6
<1>3. /\ DOMAIN bk2 = DOMAIN bk \cup {h}
      /\ bk2[h] = a
      /\ \A x \in DOMAIN bk : x # h => bk2[x] = bk[x]
  <2>1. DOMAIN bk2 = DOMAIN bk \cup {h}
    BY DEF SetAddressBookName
  <2>2. bk2[h] = a
    BY DEF SetAddressBookName
  <2>3. \A x \in DOMAIN bk : x # h => bk2[x] = bk[x]
    BY DEF SetAddressBookName
  <2>. QED
    BY <2>1, <2>2, <2>3
<1>0. /\ t.pool = Tail(p) /\ t.nextKey = nk /\ t.book = bk2
      /\ (t.acct = ac \/ t.acct = [ac EXCEPT ![a] = h])
      /\ h = Head(s.pool) /\ bk = s.book
  OBVIOUS
<1>. HIDE DEF p, bk, h, bk2
<1>4. /\ DOMAIN bk2 \subseteq (1..nk) \cup Foreign
      /\ \A x \in DOMAIN bk2 : bk2[x] \in Accounts
      /\ Avoids(Tail(p), DOMAIN bk2)
  BY <1>1, <1>2, <1>3
<1>5. \A b \in Accounts : ac[b] # NoKey => ac[b] \in DOMAIN bk /\ ac[b] # h
  BY <1>1, <1>2 DEF Labelled
<1>6. Labelled(ac, bk2)
  BY <1>3, <1>5, <1>1 DEF Labelled
<1>7. CASE t.acct = ac
  <2>1. Inv4(Tail(p), nk, bk2, ac)
    BY <1>1, <1>2, <1>4, <1>6 DEF Inv4
  <2>. QED
    <3>1. Inv4(t.pool, t.nextKey, t.book, t.acct)
      BY <2>1, <1>7, <1>0, Zenon
    <3>2. Head(s.pool) \notin DOMAIN s.book /\ Head(s.pool) # NoKey
      BY <1>2, <1>0 DEF NoKey
    <3>. QED
      BY <3>1, <3>2 DEF Good
<1>8. CASE t.acct = [ac EXCEPT ![a] = h]
  <2> DEFINE ac2 == [ac EXCEPT ![a] = h]
  <2>1. ac2 \in [Accounts -> 0..nk]
    BY <1>1, <1>2
  <2>2. AcctDistinct(ac2)
    <3> SUFFICES ASSUME NEW b \in Accounts, NEW c \in Accounts, b # c, ac2[b] # NoKey
                 PROVE  ac2[b] # ac2[c]
      BY DEF AcctDistinct
    <3>1. CASE b = a
      BY <3>1, <1>1, <1>2, <1>5 DEF NoKey
    <3>2. CASE c = a
      BY <3>2, <1>1, <1>5
    <3>3. CASE b # a /\ c # a
      BY <3>3, <1>1 DEF AcctDistinct
    <3>. QED
      BY <3>1, <3>2, <3>3
  <2>3. Labelled(ac2, bk2)
    <3> SUFFICES ASSUME NEW b \in Accounts, ac2[b] # NoKey
                 PROVE  ac2[b] \in DOMAIN bk2 /\ bk2[ac2[b]] = b
      BY DEF Labelled
    <3>1. CASE b = a
      BY <3>1, <1>1, <1>3
    <3>2. CASE b # a
      BY <3>2, <1>1, <1>6 DEF Labelled
    <3>. QED
      BY <3>1, <3>2
  <2>4. Inv4(Tail(p), nk, bk2, ac2)
    BY <1>1, <1>2, <1>4, <2>1, <2>2, <2>3 DEF Inv4
  <2>. QED
    <3>1. Inv4(t.pool, t.nextKey, t.book, t.acct)
      BY <2>4, <1>8, <1>0, Zenon
    <3>2. Head(s.pool) \notin DOMAIN s.book /\ Head(s.pool) # NoKey
      BY <1>2, <1>0 DEF NoKey
    <3>. QED
      BY <3>1, <3>2 DEF Good
<1>. QED
  BY <1>0, <1>7, <1>8

(* Relabelling an address no account receives on, as setaccount does,     *)
(* keeps the invariant: our key stays labelled, a foreign one is no key.  *)
LEMMA RelabelGood ==
    ASSUME NEW s, Good(s), NEW addr, addr \in DOMAIN s.book \cup Foreign,
           \A b \in Accounts : s.acct[b] # NoKey => s.acct[b] # addr,
           NEW a \in Accounts,
           NEW t, DOMAIN t = StFields,
           t.pool = s.pool, t.nextKey = s.nextKey, t.acct = s.acct,
           t.book = SetAddressBookName(s.book, addr, a)
    PROVE  Good(t)
<1> DEFINE p == s.pool
           nk == s.nextKey
           bk == s.book
           ac == s.acct
           bk2 == SetAddressBookName(bk, addr, a)
<1>1. /\ nk \in 0..MaxKeys
      /\ p \in Seq(1..nk)
      /\ DOMAIN bk \subseteq (1..nk) \cup Foreign
      /\ \A x \in DOMAIN bk : bk[x] \in Accounts
      /\ ac \in [Accounts -> 0..nk]
      /\ Distinct(p) /\ Avoids(p, DOMAIN bk)
      /\ AcctDistinct(ac) /\ Labelled(ac, bk)
  BY DEF Good, Inv4
<1>2. /\ DOMAIN bk2 = DOMAIN bk \cup {addr}
      /\ bk2[addr] = a
      /\ \A x \in DOMAIN bk : x # addr => bk2[x] = bk[x]
  BY DEF SetAddressBookName
<1>0. /\ t.pool = p /\ t.nextKey = nk /\ t.acct = ac /\ t.book = bk2
      /\ addr \in DOMAIN bk \cup Foreign
  OBVIOUS
<1>. HIDE DEF p, bk, bk2
<1>3. /\ DOMAIN bk2 \subseteq (1..nk) \cup Foreign
      /\ \A x \in DOMAIN bk2 : bk2[x] \in Accounts
  BY <1>0, <1>1, <1>2
<1>4. Avoids(p, DOMAIN bk2)
  <2> SUFFICES ASSUME NEW i \in DOMAIN p PROVE p[i] \notin DOMAIN bk \cup {addr}
    BY <1>2 DEF Avoids
  <2>1. p[i] \in 1..MaxKeys
    <3>1. p[i] \in 1..nk
      BY <1>1, LenProperties, ElementOfSeq, Zenon
    <3>. QED
      BY <3>1, <1>1, KeyPoolAssumption
  <2>2. p[i] \notin DOMAIN bk
    BY <1>1 DEF Avoids
  <2>3. p[i] # addr
    <3>1. CASE addr \in DOMAIN bk
      BY <3>1, <2>2
    <3>2. CASE addr \in Foreign
      BY <3>2, <2>1, KeyNotForeign
    <3>. QED
      BY <3>1, <3>2, <1>0
  <2>. QED
    BY <2>2, <2>3
<1>5. Labelled(ac, bk2)
  BY <1>1, <1>2 DEF Labelled
<1>6. Inv4(p, nk, bk2, ac)
  BY <1>1, <1>3, <1>4, <1>5 DEF Inv4
<1>. QED
  BY <1>0, <1>6, Zenon DEF Good

(* What GetAccountAddress(s, a, f) guarantees when it returns a key.       *)
GAAFacts(s, a, f, r) ==
    /\ Good(r.s)
    /\ r.s.acct[a] = r.key /\ r.key # NoKey
    /\ \A b \in Accounts : b # a => r.s.acct[b] = s.acct[b]
    /\ DOMAIN s.book \subseteq DOMAIN r.s.book
    /\ f => r.key \notin DOMAIN s.book

(* GetAccountAddress keeps the invariant and changes only a's key.       *)
LEMMA GAAGood ==
    ASSUME NEW s, Good(s), NEW a \in Accounts, NEW f \in BOOLEAN,
           GetAccountAddress(s, a, f).ok
    PROVE  GAAFacts(s, a, f, GetAccountAddress(s, a, f))
<1> DEFINE cur == s.acct[a]
           r == GetAccountAddress(s, a, f)
<1>1. CASE cur # NoKey /\ ~f /\ ~(cur # NoKey /\ cur \in used)
  <2>1. r = [ok |-> TRUE, key |-> cur, s |-> s]
    BY <1>1 DEF GetAccountAddress
  <2>. QED
    BY <2>1, <1>1 DEF GAAFacts
<1>2. CASE ~(cur # NoKey /\ ~f /\ ~(cur # NoKey /\ cur \in used))
  <2>1. s.pool # <<>>
    BY <1>2 DEF GetAccountAddress, GetKeyFromPool
  <2> DEFINE h == Head(s.pool)
             t == r.s
             g == GetKeyFromPool(s)
  <2>2. /\ r.key = h
        /\ DOMAIN t = StFields
        /\ t.pool = Tail(s.pool) /\ t.nextKey = s.nextKey
        /\ t.book = SetAddressBookName(s.book, h, a)
        /\ t.acct = [s.acct EXCEPT ![a] = h]
    <3>1. g = [ok |-> TRUE, key |-> h, s |-> [s EXCEPT !.pool = Tail(s.pool)]]
      BY <2>1 DEF GetKeyFromPool
    <3>2. r = [ok |-> TRUE, key |-> g.key,
               s |-> [g.s EXCEPT !.book = SetAddressBookName(g.s.book, g.key, a),
                                 !.acct[a] = g.key]]
      BY <1>2, <3>1 DEF GetAccountAddress
    <3>3. /\ g.key = h /\ DOMAIN g.s = StFields
          /\ g.s.pool = Tail(s.pool) /\ g.s.nextKey = s.nextKey
          /\ g.s.book = s.book /\ g.s.acct = s.acct
      BY <3>1 DEF Good, StFields
    <3> DEFINE u == g.s
               B == SetAddressBookName(u.book, g.key, a)
               u2 == [u EXCEPT !.book = B]
    <3>4. t = [u2 EXCEPT !.acct = [u2.acct EXCEPT ![a] = g.key]]
      BY <3>2
    <3>. HIDE DEF g, t
    <3>5. DOMAIN u2 = StFields /\ u2.pool = Tail(s.pool) /\ u2.nextKey = s.nextKey
          /\ u2.book = SetAddressBookName(s.book, h, a) /\ u2.acct = s.acct
      BY <3>3 DEF StFields
    <3>. HIDE DEF u2
    <3>6. /\ DOMAIN t = StFields
          /\ t.pool = Tail(s.pool) /\ t.nextKey = s.nextKey
          /\ t.book = SetAddressBookName(s.book, h, a)
          /\ t.acct = [s.acct EXCEPT ![a] = h]
      BY <3>3, <3>4, <3>5 DEF StFields
    <3>7. r.key = h
      BY <3>2, <3>3
    <3>. QED
      BY <3>6, <3>7 DEF t
  <2>3. r.ok
    OBVIOUS
  <2>. HIDE DEF t
  <2>4. Good(t) /\ h \notin DOMAIN s.book /\ h # NoKey
    BY <2>1, <2>2, TakeGood, Zenon
  <2>5. s.acct \in [Accounts -> 0..s.nextKey]
    BY DEF Good, Inv4
  <2>6. t.acct[a] = h /\ \A b \in Accounts : b # a => t.acct[b] = s.acct[b]
    BY <2>2, <2>5
  <2>7. DOMAIN s.book \subseteq DOMAIN t.book
    BY <2>2 DEF SetAddressBookName
  <2>. QED
    BY <2>2, <2>4, <2>6, <2>7 DEF GAAFacts, t
<1>. QED
  BY <1>1, <1>2

(* Labelling the key GetKeyFromPool takes, as getnewaddress does.           *)
LEMMA LabelTakenGood ==
    ASSUME NEW s, Good(s), NEW a \in Accounts, GetKeyFromPool(s).ok
    PROVE  Good([GetKeyFromPool(s).s EXCEPT
                   !.book = SetAddressBookName(GetKeyFromPool(s).s.book,
                                               GetKeyFromPool(s).key, a)])
<1> DEFINE g == GetKeyFromPool(s)
           t == [g.s EXCEPT !.book = SetAddressBookName(g.s.book, g.key, a)]
<1>1. s.pool # <<>>
  BY DEF GetKeyFromPool
<1>2. g = [ok |-> TRUE, key |-> Head(s.pool), s |-> [s EXCEPT !.pool = Tail(s.pool)]]
  BY <1>1 DEF GetKeyFromPool
<1>3. /\ g.key = Head(s.pool) /\ DOMAIN g.s = StFields
      /\ g.s.pool = Tail(s.pool) /\ g.s.nextKey = s.nextKey
      /\ g.s.book = s.book /\ g.s.acct = s.acct
  BY <1>2 DEF Good, StFields
<1>. HIDE DEF g
<1>4. /\ DOMAIN t = StFields
      /\ t.pool = Tail(s.pool) /\ t.nextKey = s.nextKey
      /\ t.book = SetAddressBookName(s.book, Head(s.pool), a)
      /\ t.acct = s.acct
  BY <1>3 DEF StFields
<1>. HIDE DEF t
<1>5. Good(t)
  BY <1>1, <1>4, TakeGood, Zenon
<1>. QED
  BY <1>5 DEF t, g

-----------------------------------------------------------------------------
(* Each action keeps IInv.                                                 *)

(* getnewaddress keeps IInv.                                            *)
LEMMA GetNewAddressIInv ==
    ASSUME IInv, NEW a \in Accounts, getnewaddress(a)
    PROVE  IInv'
<1> DEFINE s1 == IF ~locked THEN TopUpKeyPool(St, 0) ELSE St
           g == GetKeyFromPool(s1)
<1>1. Good(St)
  BY StGood
<1>2. s1.nextKey <= MaxKeys
  BY DEF getnewaddress
<1>3. Good(s1)
  <2>1. CASE ~locked
    BY <2>1, <1>1, <1>2, TopUpGood
  <2>2. CASE locked
    BY <2>2, <1>1
  <2>. QED
    BY <2>1, <2>2
<1>. HIDE DEF s1
<1>4. CASE g.ok
  <2>1. Apply([g.s EXCEPT !.book = SetAddressBookName(g.s.book, g.key, a)])
    BY <1>4 DEF getnewaddress, s1
  <2>2. Good([g.s EXCEPT !.book = SetAddressBookName(g.s.book, g.key, a)])
    BY <1>3, <1>4, LabelTakenGood
  <2>. QED
    BY <2>1, <2>2, ApplyIInv
<1>5. CASE ~g.ok
  <2>1. Apply(s1)
    BY <1>5 DEF getnewaddress, s1
  <2>. QED
    BY <2>1, <1>3, ApplyIInv
<1>. QED
  BY <1>4, <1>5

(* getaccountaddress keeps IInv.                                         *)
LEMMA GetAccountAddressIInv ==
    ASSUME IInv, NEW a \in Accounts, getaccountaddress(a)
    PROVE  IInv'
<1> DEFINE r == GetAccountAddress(St, a, FALSE)
<1>1. CASE r.ok
  <2>0. Good(St)
    BY StGood
  <2>1. Good(r.s)
    <3>1. GAAFacts(St, a, FALSE, r)
      BY <2>0, <1>1, GAAGood, Zenon
    <3>. QED
      BY <3>1 DEF GAAFacts
  <2>2. Apply(r.s)
    BY <1>1 DEF getaccountaddress
  <2>. QED
    BY <2>1, <2>2, ApplyIInv
<1>2. CASE ~r.ok
  BY <1>2 DEF getaccountaddress, IInv
<1>. QED
  BY <1>1, <1>2

(* setaccount: the old account of a labelled address is given a key other *)
(* than the address before the address is relabelled.                     *)
LEMMA SetAccountIInv ==
    ASSUME IInv, NEW addr \in DOMAIN book \cup Foreign, NEW a \in Accounts,
           setaccount(addr, a)
    PROVE  IInv'
<1>0. Good(St)
  BY StGood
<1>1. CASE addr \in DOMAIN book
  <2> DEFINE old == book[addr]
             r1 == GetAccountAddress(St, old, FALSE)
             r2 == GetAccountAddress(r1.s, old, TRUE)
             r == IF r1.key = addr THEN r2 ELSE r1
  <2>1. old \in Accounts
    BY <1>1 DEF IInv, Inv4
  <2>2. CASE r1.ok /\ r.ok
    <3>1. GAAFacts(St, old, FALSE, r1)
      BY <1>0, <2>1, <2>2, GAAGood, Zenon
    <3>2. \A b \in Accounts : b # old /\ acct[b] # NoKey => acct[b] # addr
      BY <1>1, <2>1 DEF IInv, Inv4, Labelled
    <3>3. /\ Good(r.s)
          /\ addr \in DOMAIN r.s.book
          /\ \A b \in Accounts : r.s.acct[b] # NoKey => r.s.acct[b] # addr
      <4>1. CASE r1.key = addr
        <5>1. r = r2 /\ r2.ok
          BY <4>1, <2>2
        <5>2. Good(r1.s)
          BY <3>1 DEF GAAFacts
        <5>3. GAAFacts(r1.s, old, TRUE, r2)
          BY <5>1, <5>2, <2>1, GAAGood, Zenon
        <5>4. addr \in DOMAIN r1.s.book
          BY <1>1, <3>1 DEF GAAFacts, St
        <5>. HIDE DEF r, r1, r2, old
        <5>5. Good(r.s)
          BY <5>1, <5>3 DEF GAAFacts
        <5>6. addr \in DOMAIN r.s.book
          BY <5>1, <5>3, <5>4 DEF GAAFacts
        <5>7. ASSUME NEW b \in Accounts, r.s.acct[b] # NoKey
              PROVE  r.s.acct[b] # addr
          <6>1. CASE b = old
            BY <6>1, <5>1, <5>3, <5>4 DEF GAAFacts
          <6>2. CASE b # old
            <7>1. r.s.acct[b] = acct[b]
              BY <6>2, <5>1, <5>3, <3>1 DEF GAAFacts, St
            <7>. QED
              BY <7>1, <6>2, <5>7, <3>2
          <6>. QED
            BY <6>1, <6>2
        <5>. QED
          BY <5>5, <5>6, <5>7
      <4>2. CASE r1.key # addr
        <5>1. r = r1
          BY <4>2
        <5>. QED
          BY <5>1, <4>2, <1>1, <3>1, <3>2 DEF GAAFacts, St
      <4>. QED
        BY <4>1, <4>2
    <3> DEFINE t == [r.s EXCEPT !.book = SetAddressBookName(r.s.book, addr, a)]
    <3>4. /\ DOMAIN t = StFields
          /\ t.pool = r.s.pool /\ t.nextKey = r.s.nextKey /\ t.acct = r.s.acct
          /\ t.book = SetAddressBookName(r.s.book, addr, a)
      BY <3>3 DEF Good, StFields
    <3>5. Good(t)
      <4>. HIDE DEF t, r
      <4>. QED
        BY <3>3, <3>4, RelabelGood, Zenon
    <3>6. Apply(t)
      BY <1>1, <2>2 DEF setaccount
    <3>. HIDE DEF t
    <3>. QED
      BY <3>5, <3>6, ApplyIInv
  <2>3. CASE ~(r1.ok /\ r.ok)
    BY <1>1, <2>3 DEF setaccount, IInv
  <2>. QED
    BY <2>2, <2>3
<1>2. CASE addr \notin DOMAIN book
  <2> DEFINE t == [St EXCEPT !.book = SetAddressBookName(book, addr, a)]
  <2>1. /\ DOMAIN t = StFields
        /\ t.pool = St.pool /\ t.nextKey = St.nextKey /\ t.acct = St.acct
        /\ t.book = SetAddressBookName(St.book, addr, a)
    BY DEF St, StFields
  <2>2. \A b \in Accounts : St.acct[b] # NoKey => St.acct[b] # addr
    BY <1>2 DEF IInv, Inv4, Labelled, St
  <2>3. addr \in DOMAIN St.book \cup Foreign
    BY DEF St
  <2>4. Good(t)
    <3>. HIDE DEF t
    <3>. QED
      BY <1>0, <2>1, <2>2, <2>3, RelabelGood, Zenon
  <2>5. Apply(t)
    BY <1>2 DEF setaccount
  <2>. HIDE DEF t
  <2>. QED
    BY <2>4, <2>5, ApplyIInv
<1>. QED
  BY <1>1, <1>2

(* keypoolrefill keeps IInv.                                             *)
LEMMA KeypoolRefillIInv ==
    ASSUME IInv, NEW hasParam \in BOOLEAN, NEW n \in Sizes, keypoolrefill(hasParam, n)
    PROVE  IInv'
<1> DEFINE nSize == IF hasParam THEN n ELSE KeypoolSize
           s1 == TopUpKeyPool(St, nSize)
<1>1. nSize \in Int
  BY KeyPoolAssumption
<1>2. s1.nextKey <= MaxKeys /\ Apply(s1)
  BY DEF keypoolrefill
<1>3. Good(s1)
  BY <1>1, <1>2, StGood, TopUpGood
<1>. QED
  BY <1>2, <1>3, ApplyIInv

(* keypoolreset keeps IInv.                                              *)
LEMMA KeypoolResetIInv ==
    ASSUME IInv, NEW hasParam \in BOOLEAN, NEW n \in Sizes, keypoolreset(hasParam, n)
    PROVE  IInv'
<1> DEFINE nSize == IF hasParam THEN n ELSE KeypoolSize
           s1 == NewKeyPool(St, nSize)
<1>1. nSize \in Nat
  BY KeyPoolAssumption DEF keypoolreset
<1>2. s1.nextKey <= MaxKeys /\ Apply(s1)
  BY DEF keypoolreset
<1>3. Good(s1)
  BY <1>1, <1>2, StGood, NewPoolGood
<1>. QED
  BY <1>2, <1>3, ApplyIInv

(* ThreadTopUpKeyPool keeps IInv.                                       *)
LEMMA ThreadTopUpIInv ==
    ASSUME IInv, ThreadTopUpKeyPool
    PROVE  IInv'
<1> DEFINE s1 == TopUpKeyPool(St, 0)
<1>1. s1.nextKey <= MaxKeys /\ Apply(s1)
  BY DEF ThreadTopUpKeyPool
<1>2. Good(s1)
  BY <1>1, StGood, TopUpGood
<1>. QED
  BY <1>1, <1>2, ApplyIInv

(* The environment steps leave the four parts alone.                       *)
LEMMA EnvIInv ==
    ASSUME IInv,
           \/ \E mo \in BOOLEAN : walletpassphrase(mo)
           \/ Lock
           \/ \E k \in Keys : Receive(k)
           \/ UNCHANGED vars
    PROVE  IInv'
  BY DEF walletpassphrase, Lock, Receive, vars, IInv

(* A freshly loaded crypted wallet satisfies IInv.                      *)
LEMMA InitIInv == Init => IInv
<1> SUFFICES ASSUME Init PROVE IInv
  OBVIOUS
<1>1. KeypoolSize \in 0..MaxKeys
  BY KeyPoolAssumption
<1>2. pool \in Seq(1..nextKey) /\ DOMAIN pool = 1..KeypoolSize
  <2>1. [i \in 1..KeypoolSize |-> i] \in Seq(1..KeypoolSize)
    BY <1>1, IsASeq
  <2>. QED
    BY <2>1 DEF Init
<1>3. Distinct(pool)
  BY <1>2 DEF Init, Distinct
<1>4. DOMAIN book = {}
  BY DEF Init
<1>5. acct = [a \in Accounts |-> NoKey] /\ nextKey = KeypoolSize
  BY DEF Init
<1>. QED
  BY <1>1, <1>2, <1>3, <1>4, <1>5 DEF IInv, Inv4, Avoids, AcctDistinct, Labelled, NoKey

(* Every step keeps IInv.                                                *)
LEMMA NextIInv == IInv /\ [Next]_vars => IInv'
<1> SUFFICES ASSUME IInv, [Next]_vars PROVE IInv'
  OBVIOUS
<1>1. CASE \E a \in Accounts : getnewaddress(a)
  BY <1>1, GetNewAddressIInv
<1>2. CASE \E a \in Accounts : getaccountaddress(a)
  BY <1>2, GetAccountAddressIInv
<1>3. CASE \E addr \in DOMAIN book \cup Foreign, a \in Accounts : setaccount(addr, a)
  BY <1>3, SetAccountIInv
<1>4. CASE \E hasParam \in BOOLEAN, n \in Sizes : keypoolrefill(hasParam, n)
  BY <1>4, KeypoolRefillIInv
<1>5. CASE \E hasParam \in BOOLEAN, n \in Sizes : keypoolreset(hasParam, n)
  BY <1>5, KeypoolResetIInv
<1>6. CASE ThreadTopUpKeyPool
  BY <1>6, ThreadTopUpIInv
<1>7. CASE \/ \E mo \in BOOLEAN : walletpassphrase(mo)
           \/ Lock
           \/ \E k \in Keys : Receive(k)
           \/ UNCHANGED vars
  BY <1>7, EnvIInv
<1>. QED
  BY <1>1, <1>2, <1>3, <1>4, <1>5, <1>6, <1>7 DEF Next

(* Every key is handed out once and every account's receiving key is      *)
(* labelled with that account, in every reachable state, for all sets of  *)
(* accounts and foreign addresses and every pool size: top-ups, resets,   *)
(* failed GetAccountAddress calls and setaccount moving a current key     *)
(* never give a key twice or leave an account on another's key.           *)
THEOREM KeyPoolSafe == Spec => [](KeysIssuedOnce /\ CurrentKeyLabelled)
<1>1. IInv => KeysIssuedOnce /\ CurrentKeyLabelled
  BY DEF IInv, Inv4, Distinct, Avoids, AcctDistinct, Labelled,
         KeysIssuedOnce, CurrentKeyLabelled
<1>. QED
  BY <1>1, InitIInv, NextIInv, PTL DEF Spec

(* The receiving key getaccountaddress returns for an account is always   *)
(* labelled with that account in mapAddressBook, even after setaccount    *)
(* moved the key to another account (the corollary of KeyPoolSafe that    *)
(* the key_pool run checks as CurrentKeyLabelled).                        *)
THEOREM CurrentKeyLabelledInvariant == Spec => []CurrentKeyLabelled
  BY KeyPoolSafe, PTL
-----------------------------------------------------------------------------
(* The rest of the wallet state: the flags, the keys wallet transactions   *)
(* pay (only labelled keys of ours, and the book never loses an address), *)
(* and the ThreadTopUpKeyPool threads (each started by a walletpassphrase *)
(* call).                                                                 *)
EnvInv ==
    /\ locked \in BOOLEAN /\ mintOnly \in BOOLEAN
    /\ used \subseteq DOMAIN book \cap Keys
    /\ unlocks \in 0..MaxUnlocks
    /\ topups \in 0..unlocks

(* The handlers of the RPCs leave the flags, the paid keys and the threads *)
(* alone.                                                                  *)
LEMMA HandlersKeepEnv ==
    ASSUME \/ \E a \in Accounts : getnewaddress(a) \/ getaccountaddress(a)
           \/ \E addr \in DOMAIN book \cup Foreign, a \in Accounts : setaccount(addr, a)
           \/ \E hasParam \in BOOLEAN, n \in Sizes :
                 keypoolrefill(hasParam, n) \/ keypoolreset(hasParam, n)
    PROVE  UNCHANGED <<locked, mintOnly, used, topups, unlocks>>
  BY DEF getnewaddress, getaccountaddress, setaccount, keypoolrefill, keypoolreset

(* No step removes an address from mapAddressBook.                         *)
LEMMA BookGrows ==
    ASSUME IInv, [Next]_vars
    PROVE  DOMAIN book \subseteq DOMAIN book'
<1>0. Good(St) /\ St.book = book
  BY StGood DEF St
<1>1. CASE \E a \in Accounts : getnewaddress(a)
  <2>1. PICK a \in Accounts : getnewaddress(a)
    BY <1>1
  <2> DEFINE s1 == IF ~locked THEN TopUpKeyPool(St, 0) ELSE St
             g == GetKeyFromPool(s1)
  <2>2. s1.nextKey <= MaxKeys
    BY <2>1 DEF getnewaddress
  <2>3. Good(s1) /\ s1.book = book
    BY <1>0, <2>2, TopUpGood
  <2>. HIDE DEF s1
  <2>4. CASE g.ok
    <3>1. Apply([g.s EXCEPT !.book = SetAddressBookName(g.s.book, g.key, a)])
      BY <2>1, <2>4 DEF getnewaddress, s1
    <3>2. g.s = [s1 EXCEPT !.pool = Tail(s1.pool)]
      BY <2>4 DEF GetKeyFromPool
    <3>3. DOMAIN g.s = StFields /\ g.s.book = book
      BY <3>2, <2>3 DEF Good, StFields
    <3>. QED
      BY <3>1, <3>3 DEF Apply, StFields, SetAddressBookName
  <2>5. CASE ~g.ok
    <3>1. Apply(s1)
      BY <2>1, <2>5 DEF getnewaddress, s1
    <3>. QED
      BY <3>1, <2>3 DEF Apply
  <2>. QED
    BY <2>4, <2>5
<1>2. CASE \E a \in Accounts : getaccountaddress(a)
  <2>1. PICK a \in Accounts : getaccountaddress(a)
    BY <1>2
  <2> DEFINE r == GetAccountAddress(St, a, FALSE)
  <2>2. CASE r.ok
    <3>1. GAAFacts(St, a, FALSE, r)
      BY <1>0, <2>2, GAAGood, Zenon
    <3>2. Apply(r.s)
      BY <2>1, <2>2 DEF getaccountaddress
    <3>. QED
      BY <3>1, <3>2, <1>0 DEF GAAFacts, Apply
  <2>3. CASE ~r.ok
    BY <2>1, <2>3 DEF getaccountaddress
  <2>. QED
    BY <2>2, <2>3
<1>3. CASE \E addr \in DOMAIN book \cup Foreign, a \in Accounts : setaccount(addr, a)
  <2>1. PICK addr \in DOMAIN book \cup Foreign, a \in Accounts : setaccount(addr, a)
    BY <1>3
  <2>2. CASE addr \in DOMAIN book
    <3> DEFINE old == book[addr]
               r1 == GetAccountAddress(St, old, FALSE)
               r2 == GetAccountAddress(r1.s, old, TRUE)
               r == IF r1.key = addr THEN r2 ELSE r1
    <3>1. old \in Accounts
      BY <2>2 DEF IInv, Inv4
    <3>2. CASE r1.ok /\ r.ok
      <4>1. GAAFacts(St, old, FALSE, r1)
        BY <1>0, <3>1, <3>2, GAAGood, Zenon
      <4>2. Good(r.s) /\ DOMAIN book \subseteq DOMAIN r.s.book
        <5>1. CASE r1.key = addr
          <6>1. r = r2 /\ r2.ok /\ Good(r1.s)
            BY <5>1, <3>2, <4>1 DEF GAAFacts
          <6>2. GAAFacts(r1.s, old, TRUE, r2)
            BY <6>1, <3>1, GAAGood, Zenon
          <6>. HIDE DEF r, r1, r2, old
          <6>. QED
            BY <6>1, <6>2, <4>1, <1>0 DEF GAAFacts
        <5>2. CASE r1.key # addr
          BY <5>2, <4>1, <1>0 DEF GAAFacts
        <5>. QED
          BY <5>1, <5>2
      <4>3. Apply([r.s EXCEPT !.book = SetAddressBookName(r.s.book, addr, a)])
        BY <2>1, <2>2, <3>2 DEF setaccount
      <4>. HIDE DEF r
      <4>. QED
        BY <4>2, <4>3 DEF Apply, Good, StFields, SetAddressBookName
    <3>3. CASE ~(r1.ok /\ r.ok)
      BY <2>1, <2>2, <3>3 DEF setaccount
    <3>. QED
      BY <3>2, <3>3
  <2>3. CASE addr \notin DOMAIN book
    <3>1. Apply([St EXCEPT !.book = SetAddressBookName(book, addr, a)])
      BY <2>1, <2>3 DEF setaccount
    <3>. QED
      BY <3>1 DEF Apply, St, SetAddressBookName
  <2>. QED
    BY <2>2, <2>3
<1>4. CASE \E hasParam \in BOOLEAN, n \in Sizes : keypoolrefill(hasParam, n)
  <2>1. PICK hasParam \in BOOLEAN, n \in Sizes : keypoolrefill(hasParam, n)
    BY <1>4
  <2> DEFINE nSize == IF hasParam THEN n ELSE KeypoolSize
  <2>2. nSize \in Int
    BY KeyPoolAssumption
  <2>3. TopUpKeyPool(St, nSize).nextKey <= MaxKeys /\ Apply(TopUpKeyPool(St, nSize))
    BY <2>1 DEF keypoolrefill
  <2>. QED
    BY <2>2, <2>3, <1>0, TopUpGood DEF Apply
<1>5. CASE \E hasParam \in BOOLEAN, n \in Sizes : keypoolreset(hasParam, n)
  <2>1. PICK hasParam \in BOOLEAN, n \in Sizes : keypoolreset(hasParam, n)
    BY <1>5
  <2> DEFINE nSize == IF hasParam THEN n ELSE KeypoolSize
  <2>2. nSize \in Nat
    BY <2>1, KeyPoolAssumption DEF keypoolreset
  <2>3. NewKeyPool(St, nSize).nextKey <= MaxKeys /\ Apply(NewKeyPool(St, nSize))
    BY <2>1 DEF keypoolreset
  <2>. QED
    BY <2>2, <2>3, <1>0, NewPoolGood DEF Apply
<1>6. CASE ThreadTopUpKeyPool
  <2>1. TopUpKeyPool(St, 0).nextKey <= MaxKeys /\ Apply(TopUpKeyPool(St, 0))
    BY <1>6 DEF ThreadTopUpKeyPool
  <2>. QED
    BY <2>1, <1>0, TopUpGood DEF Apply
<1>7. CASE \/ \E mo \in BOOLEAN : walletpassphrase(mo)
           \/ Lock
           \/ \E k \in Keys : Receive(k)
           \/ UNCHANGED vars
  BY <1>7 DEF walletpassphrase, Lock, Receive, vars
<1>. QED
  BY <1>1, <1>2, <1>3, <1>4, <1>5, <1>6, <1>7 DEF Next

(* A freshly loaded wallet satisfies EnvInv.                               *)
LEMMA InitEnvInv == Init => EnvInv
<1> SUFFICES ASSUME Init PROVE EnvInv
  OBVIOUS
<1>1. locked \in BOOLEAN /\ mintOnly \in BOOLEAN /\ used = {}
  BY DEF Init
<1>2. unlocks \in 0..MaxUnlocks /\ topups \in 0..unlocks
  BY KeyPoolAssumption DEF Init
<1>. QED
  BY <1>1, <1>2 DEF EnvInv

(* Every step keeps EnvInv.                                                *)
LEMMA NextEnvInv == IInv /\ EnvInv /\ [Next]_vars => EnvInv'
<1> SUFFICES ASSUME IInv, EnvInv, [Next]_vars PROVE EnvInv'
  OBVIOUS
<1>1. DOMAIN book \subseteq DOMAIN book'
  BY BookGrows
<1>2. CASE \/ \E a \in Accounts : getnewaddress(a) \/ getaccountaddress(a)
           \/ \E addr \in DOMAIN book \cup Foreign, a \in Accounts : setaccount(addr, a)
           \/ \E hasParam \in BOOLEAN, n \in Sizes :
                 keypoolrefill(hasParam, n) \/ keypoolreset(hasParam, n)
  BY <1>1, <1>2, HandlersKeepEnv DEF EnvInv
<1>3. CASE ThreadTopUpKeyPool
  BY <1>1, <1>3 DEF ThreadTopUpKeyPool, EnvInv
<1>4. CASE \E mo \in BOOLEAN : walletpassphrase(mo)
  <2>1. PICK mo \in BOOLEAN : walletpassphrase(mo)
    BY <1>4
  <2>2. locked' \in BOOLEAN /\ mintOnly' \in BOOLEAN
    BY <2>1 DEF walletpassphrase
  <2>3. used' \subseteq DOMAIN book' \cap Keys
    BY <2>1 DEF walletpassphrase, EnvInv
  <2>4. unlocks' \in 0..MaxUnlocks /\ topups' \in 0..unlocks'
    BY <2>1, KeyPoolAssumption DEF walletpassphrase, EnvInv
  <2>. QED
    BY <2>2, <2>3, <2>4 DEF EnvInv
<1>5. CASE Lock
  BY <1>5 DEF Lock, EnvInv
<1>6. CASE \E k \in Keys : Receive(k)
  BY <1>6 DEF Receive, EnvInv
<1>7. CASE UNCHANGED vars
  BY <1>7 DEF vars, EnvInv
<1>. QED
  BY <1>2, <1>3, <1>4, <1>5, <1>6, <1>7 DEF Next

(* The wallet state keeps its type for every value of the constants: in   *)
(* particular every key a wallet transaction pays was generated (it is at *)
(* most nextKey), and no more ThreadTopUpKeyPool threads are pending than *)
(* walletpassphrase calls were made, whatever the handlers interleave.    *)
THEOREM TypeCorrect == Spec => []TypeOK
<1>1. Init => IInv /\ EnvInv
  BY InitIInv, InitEnvInv
<1>2. IInv /\ EnvInv /\ [Next]_vars => IInv' /\ EnvInv'
  BY NextIInv, NextEnvInv
<1>3. IInv /\ EnvInv => TypeOK
  <2> SUFFICES ASSUME IInv, EnvInv PROVE TypeOK
    OBVIOUS
  <2>1. \A u \in used : u \in 1..nextKey
    <3> SUFFICES ASSUME NEW u \in used PROVE u \in 1..nextKey
      OBVIOUS
    <3>1. u \in DOMAIN book /\ u \in 1..MaxKeys
      BY DEF EnvInv, Keys
    <3>2. u \notin Foreign
      BY <3>1, KeyNotForeign
    <3>. QED
      BY <3>1, <3>2 DEF IInv, Inv4
  <2>2. topups \in 0..MaxUnlocks /\ unlocks \in 0..MaxUnlocks
    BY KeyPoolAssumption DEF EnvInv
  <2>3. locked \in BOOLEAN /\ mintOnly \in BOOLEAN
    BY DEF EnvInv
  <2>. QED
    BY <2>1, <2>2, <2>3 DEF IInv, Inv4, TypeOK
<1>. QED
  BY <1>1, <1>2, <1>3, PTL DEF Spec
=============================================================================
