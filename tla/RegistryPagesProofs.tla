-------------------------- MODULE RegistryPagesProofs --------------------------
(***************************************************************************)
(* What holds of module RegistryPages for any number of browsers, roles,   *)
(* registered AASs, requests and losses.                                   *)
(***************************************************************************)
EXTENDS RegistryPages, SequenceTheorems, FiniteSetTheorems, WellFoundedInduction, TLAPS

(***************************************************************************)
(* The invariant.                                                          *)
(***************************************************************************)
\* Roles with different names, and no member listed twice.
Distinct(rs) ==
  /\ \A i, j \in DOMAIN rs : rs[i].name = rs[j].name => i = j
  /\ \A i \in DOMAIN rs : ~rs[i].again

\* What a request carries with it.
Carries(q) ==
  /\ q.op \in Puts \cup {"create"} =>
       q.roles \in Seq(Role) /\ q.intent \in Intent /\ NamesIn(q.roles) \subseteq q.intent.with
  /\ q.op \in Puts =>
       /\ Names \ NamesIn(q.roles) \subseteq q.intent.without
       /\ ~q.intent.twice => Distinct(q.roles)
  /\ q.op = "patchRole" => q.role \in Names /\ q.ids \in SUBSET AasIds

\* A model is a sequence of roles, and the form always has one.
Models ==
  /\ model \in [Browsers -> Seq(Role) \cup {None}]
  /\ \A b \in Browsers : page[b] = "create" => model[b] # None

\* Requests are whole, and only those that have an effect are answered.
Letters ==
  /\ \A q \in requests : Carries(q)
  /\ \A p \in replies : p.op \in Effective

\* What a copy does not have was left out on purpose, what it has was put in, and
\* what it has twice was put in twice.
Knows ==
  \A b \in Copies :
    /\ Names \ NamesIn(model[b]) \subseteq intent[b].without
    /\ NamesIn(model[b]) \subseteq intent[b].with
    /\ ~intent[b].twice => Distinct(model[b])

\* A page nobody interfered with has at most one request under way, or its answer.  If
\* it deletes a role it carries the copy, all others make the page load again.
AsItShould(b) ==
  /\ Pending(b) = {} => AsFunction(model[b]) = stored
  /\ Pending(b) # {} => b \notin transit
  /\ \A q, r \in Pending(b) : q = r
  /\ \A q \in Pending(b) : /\ q.op \in {"addRole", "deleteRole", "patchRole", "dropMember"}
                           /\ q \notin requests \/ q \notin replies
                           /\ q \in requests /\ q.op = "deleteRole" => q.roles = model[b]

InStep == \A b \in Copies \ disturbed : AsItShould(b)

IInv == TypeOK /\ Models /\ Letters /\ Knows /\ InStep

------------------------------------------------------------------------------
(* The first digit of an index *)

\* Every set of natural numbers has a least element.
LEMMA LeastNumber ==
  ASSUME NEW T \in SUBSET Nat, T # {}
  PROVE  \E x \in T : \A y \in T : x <= y
<1> DEFINE R == {ss \in Nat \X Nat : ss[1] < ss[2]}
<1>1. IsWellFoundedOn(R, Nat)
  BY NatLessThanWellFounded DEF OpToRel
<1>2. PICK x \in T : \A y \in T : ~ (<<y, x>> \in R)
  <2> HIDE DEF R
  <2> QED
    BY <1>1, WFMin
<1>3. ASSUME NEW y \in T
      PROVE  x <= y
  <2>1. ~ (y < x)
    BY <1>2
  <2> QED
    BY <2>1
<1> QED
  BY <1>3

\* What is left of an index without its last digit is a smaller number.
LEMMA Shorter ==
  ASSUME NEW i \in Nat, ~ (i < Radix)
  PROVE  i \div Radix \in Nat /\ i \div Radix < i
<1>1. Radix \in Nat \ {0, 1}
  BY PagesAssumption
<1>2. i \in Nat \ {0}
  BY <1>1
<1>3. \A r \in Nat \ {0, 1}, n \in Nat \ {0} : n \div r \in Nat /\ n \div r < n
  OBVIOUS
<1> QED
  BY <1>1, <1>2, <1>3

\* f gives the first digit of the numbers up to n.
Digits(n, f) == f = [i \in 0 .. n |-> IF i < Radix THEN i ELSE f[i \div Radix]]

\* Two such functions agree where both are defined.
LEMMA DigitsAgree ==
  ASSUME NEW m \in Nat, NEW n \in Nat, NEW f, NEW g, Digits(m, f), Digits(n, g),
         NEW i \in Nat, i <= m, i <= n
  PROVE  f[i] = g[i]
<1> DEFINE T == {j \in Nat : j <= m /\ j <= n /\ f[j] # g[j]}
<1>1. SUFFICES ASSUME T # {}
               PROVE  FALSE
  OBVIOUS
<1>2. PICK x \in T : \A y \in T : x <= y
  <2>1. T \in SUBSET Nat
    OBVIOUS
  <2> HIDE DEF T
  <2> QED
    BY <1>1, <2>1, LeastNumber
<1>3. x \in Nat /\ x <= m /\ x <= n /\ f[x] # g[x]
  BY <1>2
<1>4. x \in 0 .. m /\ x \in 0 .. n
  BY <1>3
<1>5. /\ f[x] = IF x < Radix THEN x ELSE f[x \div Radix]
      /\ g[x] = IF x < Radix THEN x ELSE g[x \div Radix]
  BY <1>4 DEF Digits
<1>6. ~ (x < Radix)
  BY <1>3, <1>5
<1>7. x \div Radix \in Nat /\ x \div Radix < x
  BY <1>3, <1>6, Shorter
<1>8. x \div Radix \notin T
  BY <1>2, <1>3, <1>7
<1>9. f[x \div Radix] = g[x \div Radix]
  BY <1>3, <1>7, <1>8
<1> QED
  BY <1>3, <1>5, <1>6, <1>9

\* There is such a function for every n.
LEMMA DigitsUpTo ==
  ASSUME NEW n \in Nat
  PROVE  \E f : Digits(n, f)
<1> DEFINE T == {k \in Nat : ~ \E f : Digits(k, f)}
<1>1. SUFFICES ASSUME T # {}
               PROVE  FALSE
  OBVIOUS
<1>2. PICK x \in T : \A y \in T : x <= y
  <2>1. T \in SUBSET Nat
    OBVIOUS
  <2> HIDE DEF T
  <2> QED
    BY <1>1, <2>1, LeastNumber
<1>3. PICK g : x # 0 => Digits(x - 1, g)
  <2>1. CASE x = 0
    BY <2>1
  <2>2. CASE x # 0
    <3>1. x - 1 \in Nat /\ ~ (x <= x - 1)
      BY <1>2, <2>2
    <3>2. x - 1 \notin T
      BY <1>2, <3>1
    <3> QED
      BY <3>1, <3>2
  <2> QED
    BY <2>1, <2>2
<1> DEFINE f == [i \in 0 .. x |-> IF i < Radix THEN i ELSE g[i \div Radix]]
<1>4. ASSUME NEW i \in 0 .. x, ~ (i < Radix)
      PROVE  f[i \div Radix] = g[i \div Radix]
  <2>1. i \in Nat /\ x \in Nat /\ i <= x
    BY <1>2
  <2>2. i \div Radix \in Nat /\ i \div Radix < i
    BY <1>4, <2>1, Shorter
  <2> DEFINE j == i \div Radix
  <2>3. j \in Nat /\ j < i
    BY <2>2
  <2> HIDE DEF j
  <2>4. j \in 0 .. x /\ j \in 0 .. x - 1 /\ x # 0
    BY <2>1, <2>3
  <2>5. f[j] = IF j < Radix THEN j ELSE g[j \div Radix]
    BY <2>4
  <2>6. g[j] = IF j < Radix THEN j ELSE g[j \div Radix]
    BY <1>3, <2>4 DEF Digits
  <2> QED
    BY <2>5, <2>6 DEF j
<1>5. Digits(x, f)
  <2>1. f = [i \in 0 .. x |-> IF i < Radix THEN i ELSE f[i \div Radix]]
    <3>1. \A i \in 0 .. x : ~ (i < Radix) => f[i \div Radix] = g[i \div Radix]
      BY <1>4
    <3> QED
      BY <3>1, Zenon
  <2> HIDE DEF f
  <2> QED
    BY <2>1 DEF Digits
<1> QED
  BY <1>2, <1>5

\* FirstDigit does what its definition says.
LEMMA FirstDigitDef ==
  FirstDigit = [i \in Nat |-> IF i < Radix THEN i ELSE FirstDigit[i \div Radix]]
<1> DEFINE upTo(n) == CHOOSE f : Digits(n, f)
           G == [n \in Nat |-> upTo(n)[n]]
<1>1. \A n \in Nat : Digits(n, upTo(n))
  BY DigitsUpTo
<1>2. ASSUME NEW i \in Nat
      PROVE  G[i] = IF i < Radix THEN i ELSE G[i \div Radix]
  <2>1. i \in 0 .. i /\ Digits(i, upTo(i)) /\ G[i] = upTo(i)[i]
    BY <1>1
  <2> HIDE DEF upTo, G
  <2>2. upTo(i)[i] = IF i < Radix THEN i ELSE upTo(i)[i \div Radix]
    BY <2>1 DEF Digits
  <2>3. ASSUME ~ (i < Radix)
        PROVE  G[i \div Radix] = upTo(i)[i \div Radix]
    <3> DEFINE j == i \div Radix
    <3>1. j \in Nat /\ j < i
      BY <2>3, Shorter
    <3>2. G[j] = upTo(j)[j]
      BY <3>1 DEF G
    <3> HIDE DEF j
    <3>3. j \in Nat /\ j <= j /\ j <= i
      BY <3>1
    <3>4. Digits(j, upTo(j)) /\ Digits(i, upTo(i))
      BY <1>1, <3>1
    <3>5. upTo(j)[j] = upTo(i)[j]
      <4> DEFINE f == upTo(j)
                 g == upTo(i)
      <4>1. Digits(j, f) /\ Digits(i, g)
        BY <3>4
      <4> HIDE DEF f, g
      <4>2. f[j] = g[j]
        BY <3>3, <4>1, DigitsAgree
      <4> QED
        BY <4>2 DEF f, g
    <3> QED
      BY <3>2, <3>5 DEF j
  <2> QED
    BY <2>1, <2>2, <2>3
<1>3. G = [i \in Nat |-> IF i < Radix THEN i ELSE G[i \div Radix]]
  <2>1. G = [i \in Nat |-> G[i]]
    OBVIOUS
  <2> HIDE DEF G
  <2> QED
    BY <1>2, <2>1, Zenon
<1>4. \E g : g = [i \in Nat |-> IF i < Radix THEN i ELSE g[i \div Radix]]
  <2> HIDE DEF G
  <2> QED
    BY <1>3
<1> QED
  BY <1>4 DEF FirstDigit

\* The first digit of an index is no larger than the index.
LEMMA FirstDigitBelow ==
  ASSUME NEW i \in Nat
  PROVE  FirstDigit[i] \in 0 .. i
<1> DEFINE T == {k \in Nat : FirstDigit[k] \notin 0 .. k}
<1>1. SUFFICES ASSUME T # {}
               PROVE  FALSE
  OBVIOUS
<1>2. PICK x \in T : \A y \in T : x <= y
  <2>1. T \in SUBSET Nat
    OBVIOUS
  <2> HIDE DEF T
  <2> QED
    BY <1>1, <2>1, LeastNumber
<1>3. x \in Nat /\ FirstDigit[x] \notin 0 .. x
  BY <1>2
<1>4. FirstDigit[x] = IF x < Radix THEN x ELSE FirstDigit[x \div Radix]
  BY <1>3, FirstDigitDef
<1>5. ~ (x < Radix)
  BY <1>3, <1>4
<1> DEFINE j == x \div Radix
<1>6. j \in Nat /\ j < x
  BY <1>3, <1>5, Shorter
<1>7. FirstDigit[x] = FirstDigit[j]
  BY <1>4, <1>5
<1> HIDE DEF j
<1>8. j \notin T
  BY <1>2, <1>3, <1>6
<1>9. FirstDigit[j] \in 0 .. j
  BY <1>6, <1>8
<1> QED
  BY <1>3, <1>6, <1>7, <1>9

------------------------------------------------------------------------------
(* Sequences of roles *)

\* The names of a sequence of roles, and the function it stands for.
LEMMA NamesOfRoles ==
  ASSUME NEW rs \in Seq(Role)
  PROVE  /\ DOMAIN rs = 1 .. Len(rs) /\ Len(rs) \in Nat
         /\ \A i \in DOMAIN rs : rs[i] \in Role /\ rs[i].name \in NamesIn(rs)
         /\ NamesIn(rs) \subseteq Names
         /\ DOMAIN AsFunction(rs) = NamesIn(rs)
         /\ AsFunction(rs) \in Roles
<1>1. DOMAIN rs = 1 .. Len(rs) /\ Len(rs) \in Nat
  BY LenProperties
<1>2. \A i \in DOMAIN rs : rs[i] \in Role
  BY <1>1, ElementOfSeq
<1>3. \A i \in DOMAIN rs : rs[i].name \in NamesIn(rs)
  BY DEF NamesIn
<1>4. NamesIn(rs) \subseteq Names
  BY <1>2 DEF NamesIn, Role
<1>5. DOMAIN AsFunction(rs) = NamesIn(rs)
  BY DEF AsFunction
<1>6. ASSUME NEW n \in NamesIn(rs)
      PROVE  Members(rs[CHOOSE i \in DOMAIN rs : rs[i].name = n].ids) \in SUBSET AasIds
  <2> DEFINE k == CHOOSE i \in DOMAIN rs : rs[i].name = n
  <2>1. \E i \in DOMAIN rs : rs[i].name = n
    BY DEF NamesIn
  <2>2. k \in DOMAIN rs
    BY <2>1
  <2> HIDE DEF k
  <2>3. rs[k].ids \in (SUBSET AasIds) \cup {None}
    BY <1>2, <2>2 DEF Role
  <2>4. Members(rs[k].ids) \in SUBSET AasIds
    BY <2>3 DEF Members
  <2> QED
    BY <2>4 DEF k
<1>7. AsFunction(rs) \in [NamesIn(rs) -> SUBSET AasIds]
  BY <1>6 DEF AsFunction
<1>8. AsFunction(rs) \in Roles
  BY <1>4, <1>7 DEF Roles
<1> QED
  BY <1>1, <1>2, <1>3, <1>4, <1>5, <1>8

\* Where no name is repeated there are as many names as roles.
LEMMA DistinctNames ==
  ASSUME NEW rs \in Seq(Role), Distinct(rs)
  PROVE  ~Repeats(rs)
<1>1. DOMAIN rs = 1 .. Len(rs) /\ Len(rs) \in Nat
  BY NamesOfRoles
<1> DEFINE D == 1 .. Len(rs)
           name == [i \in D |-> rs[i].name]
<1>2. IsFiniteSet(D) /\ Cardinality(D) = Len(rs)
  <2>1. 1 \in Int /\ Len(rs) \in Int
    BY <1>1
  <2> QED
    BY <1>1, <2>1, FS_Interval
<1>3. name \in Bijection(D, NamesIn(rs))
  <2>1. name \in [D -> NamesIn(rs)]
    BY <1>1 DEF NamesIn
  <2>2. \A i, j \in D : name[i] = name[j] => i = j
    BY <1>1 DEF Distinct
  <2>3. \A n \in NamesIn(rs) : \E i \in D : name[i] = n
    BY <1>1 DEF NamesIn
  <2> HIDE DEF D, name
  <2> QED
    BY <2>1, <2>2, <2>3 DEF Bijection, Injection, Surjection, IsInjective
<1> HIDE DEF D, name
<1>4. Cardinality(NamesIn(rs)) = Len(rs)
  BY <1>2, <1>3, FS_Bijection DEF ExistsBijection
<1> QED
  BY <1>1, <1>4 DEF Repeats

\* A role added at the end adds its name.
LEMMA RoleAdded ==
  ASSUME NEW rs \in Seq(Role), NEW r \in Role
  PROVE  /\ Append(rs, r) \in Seq(Role)
         /\ NamesIn(Append(rs, r)) = NamesIn(rs) \cup {r.name}
         /\ Distinct(rs) /\ r.name \notin NamesIn(rs) /\ ~r.again => Distinct(Append(rs, r))
<1> DEFINE new == Append(rs, r)
<1>1. /\ new \in Seq(Role)
      /\ Len(new) = Len(rs) + 1
      /\ \A i \in 1 .. Len(rs) : new[i] = rs[i]
      /\ new[Len(rs) + 1] = r
  BY AppendProperties
<1> HIDE DEF new
<1>2. DOMAIN rs = 1 .. Len(rs) /\ DOMAIN new = 1 .. Len(new) /\ Len(rs) \in Nat
  BY <1>1, LenProperties
<1>3. DOMAIN new = DOMAIN rs \cup {Len(rs) + 1}
  BY <1>1, <1>2
<1>4. NamesIn(new) = NamesIn(rs) \cup {r.name}
  BY <1>1, <1>2, <1>3 DEF NamesIn
<1>5. ASSUME Distinct(rs), r.name \notin NamesIn(rs), ~r.again
      PROVE  Distinct(new)
  <2>1. \A i \in DOMAIN rs : new[i] = rs[i] /\ rs[i].name \in NamesIn(rs)
    BY <1>1, <1>2 DEF NamesIn
  <2> QED
    BY <1>1, <1>3, <1>5, <2>1 DEF Distinct
<1> QED
  BY <1>1, <1>4, <1>5 DEF new

\* A role taken out takes out no name but its own.
LEMMA RoleRemoved ==
  ASSUME NEW rs \in Seq(Role), NEW k \in 1 .. Len(rs)
  PROVE  /\ RemoveAt(rs, k) \in Seq(Role)
         /\ NamesIn(RemoveAt(rs, k)) \subseteq NamesIn(rs)
         /\ NamesIn(rs) \subseteq NamesIn(RemoveAt(rs, k)) \cup {rs[k].name}
         /\ Distinct(rs) => Distinct(RemoveAt(rs, k))
<1> DEFINE front == SubSeq(rs, 1, k - 1)
           back == SubSeq(rs, k + 1, Len(rs))
           new == front \o back
<1>1. /\ Len(rs) \in Nat /\ DOMAIN rs = 1 .. Len(rs)
      /\ \A i \in 1 .. Len(rs) : rs[i] \in Role
  BY NamesOfRoles
<1>2. k \in Nat \ {0} /\ k <= Len(rs) /\ k - 1 \in Int /\ k + 1 \in Int /\ 1 \in Int /\ Len(rs) \in Int
  BY <1>1
<1>3. /\ front \in Seq(Role)
      /\ Len(front) = k - 1
      /\ \A i \in 1 .. k - 1 : front[i] = rs[i]
  <2>1. \A i \in 1 .. k - 1 : rs[i] \in Role
    BY <1>1, <1>2
  <2>2. /\ front \in Seq(Role)
        /\ Len(front) = IF 1 <= k - 1 THEN (k - 1) - 1 + 1 ELSE 0
        /\ \A i \in 1 .. (k - 1) - 1 + 1 : front[i] = rs[1 + i - 1]
    BY <1>2, <2>1, SubSeqProperties
  <2> HIDE DEF front
  <2>3. \A i \in 1 .. k - 1 : front[i] = rs[i]
    <3>1. TAKE i \in 1 .. k - 1
    <3>2. i \in 1 .. (k - 1) - 1 + 1 /\ 1 + i - 1 = i
      BY <1>2, <3>1
    <3> QED
      BY <2>2, <3>2
  <2> QED
    BY <1>2, <2>2, <2>3
<1>4. /\ back \in Seq(Role)
      /\ Len(back) = Len(rs) - k
      /\ \A i \in 1 .. Len(rs) - k : back[i] = rs[k + i]
  <2>1. \A i \in k + 1 .. Len(rs) : rs[i] \in Role
    BY <1>1, <1>2
  <2>2. /\ back \in Seq(Role)
        /\ Len(back) = IF k + 1 <= Len(rs) THEN Len(rs) - (k + 1) + 1 ELSE 0
        /\ \A i \in 1 .. Len(rs) - (k + 1) + 1 : back[i] = rs[k + 1 + i - 1]
    BY <1>2, <2>1, SubSeqProperties
  <2> HIDE DEF back
  <2>3. \A i \in 1 .. Len(rs) - k : back[i] = rs[k + i]
    <3>1. TAKE i \in 1 .. Len(rs) - k
    <3>2. i \in 1 .. Len(rs) - (k + 1) + 1 /\ k + 1 + i - 1 = k + i
      BY <1>2, <3>1
    <3> QED
      BY <2>2, <3>2
  <2> QED
    BY <1>2, <2>2, <2>3
<1> HIDE DEF front, back
<1>5. /\ new \in Seq(Role)
      /\ Len(new) = Len(front) + Len(back)
      /\ \A i \in 1 .. Len(front) + Len(back) :
           new[i] = IF i <= Len(front) THEN front[i] ELSE back[i - Len(front)]
  BY <1>3, <1>4, ConcatProperties
<1> HIDE DEF new
<1>6. DOMAIN new = 1 .. Len(rs) - 1
  <2>1. DOMAIN new = 1 .. Len(new)
    BY <1>5, LenProperties
  <2>2. Len(new) = (k - 1) + (Len(rs) - k)
    <3>1. Len(new) = Len(front) + Len(back)
      BY <1>5
    <3> QED
      BY <1>3, <1>4, <3>1
  <2>3. (k - 1) + (Len(rs) - k) = Len(rs) - 1
    BY <1>2
  <2> QED
    BY <2>1, <2>2, <2>3
<1>7. \A i \in 1 .. Len(rs) - 1 : new[i] = IF i < k THEN rs[i] ELSE rs[i + 1]
  <2>1. TAKE i \in 1 .. Len(rs) - 1
  <2>2. CASE i < k
    <3>1. i \in 1 .. Len(front) + Len(back) /\ i <= Len(front) /\ i \in 1 .. k - 1
      BY <1>2, <1>3, <1>4, <2>1, <2>2
    <3> QED
      BY <1>3, <1>5, <2>2, <3>1
  <2>3. CASE ~ (i < k)
    <3>1. /\ i \in 1 .. Len(front) + Len(back)
          /\ ~ (i <= Len(front))
          /\ i - Len(front) \in 1 .. Len(rs) - k
          /\ k + (i - Len(front)) = i + 1
      BY <1>2, <1>3, <1>4, <2>1, <2>3
    <3> QED
      BY <1>4, <1>5, <2>3, <3>1
  <2> QED
    BY <2>2, <2>3
<1>8. NamesIn(new) \subseteq NamesIn(rs)
  <2>1. ASSUME NEW i \in DOMAIN new
        PROVE  \E j \in DOMAIN rs : new[i] = rs[j]
    <3>1. i \in 1 .. Len(rs) - 1 /\ i \in DOMAIN rs /\ i + 1 \in DOMAIN rs
      BY <1>1, <1>2, <1>6
    <3> QED
      BY <1>7, <3>1
  <2> QED
    BY <2>1 DEF NamesIn
<1>9. NamesIn(rs) \subseteq NamesIn(new) \cup {rs[k].name}
  <2>1. ASSUME NEW j \in DOMAIN rs, j # k
        PROVE  \E i \in DOMAIN new : new[i] = rs[j]
    <3>1. CASE j < k
      <4>1. j \in 1 .. Len(rs) - 1
        BY <1>1, <1>2, <3>1
      <4> QED
        BY <1>6, <1>7, <3>1, <4>1
    <3>2. CASE k < j
      <4>1. j - 1 \in 1 .. Len(rs) - 1 /\ ~ (j - 1 < k) /\ (j - 1) + 1 = j
        BY <1>1, <1>2, <3>2
      <4> QED
        BY <1>6, <1>7, <4>1
    <3> QED
      BY <1>1, <1>2, <2>1, <3>1, <3>2
  <2> QED
    BY <2>1 DEF NamesIn
<1>10. ASSUME Distinct(rs)
       PROVE  Distinct(new)
  <2>1. ASSUME NEW i \in DOMAIN new
        PROVE  \E m \in DOMAIN rs : new[i] = rs[m] /\ m = IF i < k THEN i ELSE i + 1
    <3>1. i \in 1 .. Len(rs) - 1 /\ i \in DOMAIN rs /\ i + 1 \in DOMAIN rs
      BY <1>1, <1>2, <1>6
    <3> QED
      BY <1>7, <3>1
  <2>2. ASSUME NEW i \in DOMAIN new, NEW j \in DOMAIN new, new[i].name = new[j].name
        PROVE  i = j
    <3>1. PICK m \in DOMAIN rs : new[i] = rs[m] /\ m = IF i < k THEN i ELSE i + 1
      BY <2>1
    <3>2. PICK n \in DOMAIN rs : new[j] = rs[n] /\ n = IF j < k THEN j ELSE j + 1
      BY <2>1
    <3>3. m = n
      BY <1>10, <2>2, <3>1, <3>2 DEF Distinct
    <3>4. i \in Int /\ j \in Int
      BY <1>2, <1>6
    <3> QED
      BY <1>2, <3>1, <3>2, <3>3, <3>4
  <2>3. \A i \in DOMAIN new : ~new[i].again
    BY <1>10, <2>1 DEF Distinct
  <2> QED
    BY <2>2, <2>3 DEF Distinct
<1> QED
  BY <1>5, <1>8, <1>9, <1>10 DEF new, front, back, RemoveAt

\* A role with one more member keeps its name, and lists a member twice only if it
\* had it.
LEMMA MemberPutIn ==
  ASSUME NEW r \in Role, r.ids # None, NEW a \in AasIds
  PROVE  /\ WithMember(r, a) \in Role
         /\ WithMember(r, a).name = r.name
         /\ WithMember(r, a).ids = r.ids \cup {a}
         /\ WithMember(r, a).again <=> r.again \/ a \in r.ids
<1>1. r.ids \cup {a} \in SUBSET AasIds /\ r.again \in BOOLEAN
  BY DEF Role
<1> DEFINE new == [r EXCEPT !.ids = r.ids \cup {a}, !.again = r.again \/ a \in r.ids]
<1>2. new \in Role /\ new.name = r.name /\ new.ids = r.ids \cup {a}
  BY <1>1 DEF Role
<1>3. new.again <=> r.again \/ a \in r.ids
  BY DEF Role
<1> QED
  BY <1>2, <1>3 DEF WithMember

\* A role put in the place of one of its name changes no name.
LEMMA RoleChanged ==
  ASSUME NEW rs \in Seq(Role), NEW k \in DOMAIN rs, NEW r \in Role, r.name = rs[k].name
  PROVE  /\ [rs EXCEPT ![k] = r] \in Seq(Role)
         /\ NamesIn([rs EXCEPT ![k] = r]) = NamesIn(rs)
         /\ Distinct(rs) /\ ~r.again => Distinct([rs EXCEPT ![k] = r])
<1>1. DOMAIN rs = 1 .. Len(rs) /\ \A i \in DOMAIN rs : rs[i] \in Role
  BY NamesOfRoles
<1> DEFINE new == [rs EXCEPT ![k] = r]
<1>2. new \in Seq(Role)
  BY <1>1, ExceptSeq
<1>3. /\ DOMAIN new = DOMAIN rs
      /\ \A i \in DOMAIN rs : new[i].name = rs[i].name /\ new[i] = IF i = k THEN r ELSE rs[i]
  OBVIOUS
<1> HIDE DEF new
<1>4. NamesIn(new) = NamesIn(rs)
  BY <1>3 DEF NamesIn
<1>5. Distinct(rs) /\ ~r.again => Distinct(new)
  BY <1>3 DEF Distinct
<1> QED
  BY <1>2, <1>4, <1>5 DEF new

\* A protocol read in any order of its roles is the protocol.
LEMMA RolesListed ==
  ASSUME NEW S \in SUBSET Names, NEW f \in [S -> SUBSET AasIds], NEW s \in SetToSeqs(S),
         NEW rs, rs = [i \in DOMAIN s |-> [name |-> s[i], ids |-> f[s[i]], again |-> FALSE]]
  PROVE  rs \in Seq(Role) /\ NamesIn(rs) = S /\ AsFunction(rs) = f /\ Distinct(rs)
<1>1. IsFiniteSet(S)
  BY PagesAssumption, FS_Subset
<1> DEFINE D == 1 .. Cardinality(S)
<1>2. Cardinality(S) \in Nat
  BY <1>1, FS_CardinalityType
<1>3. s \in [D -> S] /\ \A i, j \in D : i # j => s[i] # s[j]
  BY DEF SetToSeqs
<1>4. \A n \in S : \E i \in D : s[i] = n
  <2>1. IsFiniteSet(D) /\ Cardinality(D) = Cardinality(S)
    <3>1. 1 \in Int /\ Cardinality(S) \in Int
      BY <1>2
    <3> QED
      BY <1>2, <3>1, FS_Interval
  <2> HIDE DEF D
  <2>2. s \in Injection(D, S)
    BY <1>3 DEF Injection, IsInjective
  <2>3. s \in Surjection(D, S)
    BY <1>1, <2>1, <2>2, FS_Injection
  <2> QED
    BY <2>3 DEF Surjection
<1>5. DOMAIN rs = D /\ \A i \in D : rs[i] = [name |-> s[i], ids |-> f[s[i]], again |-> FALSE]
  BY <1>3
<1>6. \A i \in D : rs[i] \in Role /\ rs[i].name = s[i] /\ rs[i].ids = f[s[i]] /\ ~rs[i].again
  BY <1>3, <1>5 DEF Role
<1>7. rs \in Seq(Role)
  <2>1. rs \in [D -> Role]
    <3>1. rs = [i \in D |-> rs[i]]
      BY <1>5
    <3> HIDE DEF D
    <3> QED
      BY <1>6, <3>1
  <2> QED
    BY <1>2, <2>1
<1> HIDE DEF D
<1>8. NamesIn(rs) = S
  BY <1>3, <1>4, <1>5, <1>6 DEF NamesIn
<1>9. ASSUME NEW n \in S
      PROVE  Members(rs[CHOOSE i \in DOMAIN rs : rs[i].name = n].ids) = f[n]
  <2> DEFINE k == CHOOSE i \in DOMAIN rs : rs[i].name = n
  <2>1. \E i \in DOMAIN rs : rs[i].name = n
    BY <1>4, <1>5, <1>6
  <2>2. k \in D /\ rs[k].name = n
    BY <1>5, <2>1
  <2> HIDE DEF k
  <2>3. rs[k].ids = f[n]
    BY <1>6, <2>2
  <2>4. f[n] # None
    BY PagesAssumption
  <2>5. Members(rs[k].ids) = f[n]
    BY <2>3, <2>4 DEF Members
  <2> QED
    BY <2>5 DEF k
<1>10. AsFunction(rs) = f
  <2> DEFINE member(n) == Members(rs[CHOOSE i \in DOMAIN rs : rs[i].name = n].ids)
  <2>1. AsFunction(rs) = [n \in S |-> member(n)]
    BY <1>8 DEF AsFunction
  <2>2. \A n \in S : member(n) = f[n]
    BY <1>9
  <2> HIDE DEF member
  <2>3. AsFunction(rs) = [n \in S |-> f[n]]
    BY <2>1, <2>2
  <2> QED
    BY <2>3
<1>11. Distinct(rs)
  BY <1>3, <1>5, <1>6 DEF Distinct
<1> QED
  BY <1>7, <1>8, <1>10, <1>11

------------------------------------------------------------------------------
(* Pages *)

\* What the type invariant says of the models follows from Models.
TypesElsewhere ==
  /\ stored \in Roles \cup {None}
  /\ registered \subseteq AasIds
  /\ page \in [Browsers -> {"list", "create", "single"}]
  /\ transit \subseteq Copies
  /\ unchecked \in [Browsers -> SUBSET Names]
  /\ carried \in [Browsers -> SUBSET (Nat \X AasIds)]
  /\ offered \in [Browsers -> SUBSET AasIds]
  /\ \A q \in requests \cup replies : q.op \in Ops /\ q.by \in Browsers /\ q.n \in 0 .. presses - 1
  /\ presses \in 0 .. MaxPresses
  /\ losses \in 0 .. MaxLosses
  /\ intent \in [Browsers -> Intent]
  /\ disturbed \subseteq Browsers

LEMMA TypesFollow ==
  (TypesElsewhere /\ Models => TypeOK) /\ (TypesElsewhere' /\ Models' => TypeOK')
<1>1. ASSUME TypesElsewhere, Models
      PROVE  TypeOK
  <2>1. ASSUME NEW b \in Browsers, model[b] # None, NEW i \in DOMAIN model[b]
        PROVE  model[b][i] \in Role
    <3>1. model[b] \in Seq(Role)
      BY <1>1, <2>1 DEF Models
    <3> QED
      BY <2>1, <3>1, NamesOfRoles
  <2> QED
    BY <1>1, <2>1 DEF TypesElsewhere, TypeOK
<1>2. ASSUME TypesElsewhere', Models'
      PROVE  TypeOK'
  <2>1. ASSUME NEW b \in Browsers, model'[b] # None, NEW i \in DOMAIN model'[b]
        PROVE  model'[b][i] \in Role
    <3>1. model'[b] \in Seq(Role)
      BY <1>2, <2>1 DEF Models
    <3> QED
      BY <2>1, <3>1, NamesOfRoles
  <2> QED
    BY <1>2, <2>1 DEF TypesElsewhere, TypeOK
<1> QED
  BY <1>1, <1>2

\* The model of a page is no sequence of roles while nothing is loaded, and
\* one otherwise.
LEMMA ModelOf ==
  ASSUME Models, NEW b \in Browsers
  PROVE  model[b] = None \/ (model[b] \in Seq(Role) /\ model[b] # None)
BY PagesAssumption DEF Models

\* A page whose model and requests are left alone, in a registry left alone,
\* stays as it is.
LEMMA LeftAlone ==
  ASSUME NEW c, AsItShould(c), model'[c] = model[c], stored' = stored,
         c \in transit' => c \in transit,
         Pending(c)' = Pending(c),
         \A q \in Pending(c) : /\ q \in requests' => q \in requests
                               /\ q \in replies' => q \in replies
  PROVE  AsItShould(c)'
BY DEF AsItShould

\* Showing a page leaves no copy in its browser.
LEMMA ShowStep ==
  ASSUME IInv, NEW b \in Browsers, NEW p \in {"list", "create", "single"}, Show(b, p)
  PROVE  IInv'
<1> USE DEF IInv
<1>1. /\ page \in [Browsers -> {"list", "create", "single"}]
      /\ model \in [Browsers -> Seq(Role) \cup {None}]
  BY DEF TypeOK, Models
<1>2. /\ page'[b] = p /\ model'[b] = (IF p = "create" THEN <<>> ELSE None)
      /\ \A c \in Browsers : c # b => page'[c] = page[c] /\ model'[c] = model[c]
  BY <1>1 DEF Show
<1>3. Copies' = Copies \ {b}
  BY <1>2 DEF Copies
<1>4. Models'
  <2>1. <<>> \in Seq(Role)
    BY EmptySeq
  <2>2. model' \in [Browsers -> Seq(Role) \cup {None}]
    BY <1>1, <2>1 DEF Show
  <2>3. <<>> # None
    BY <2>1, PagesAssumption
  <2> QED
    BY <1>2, <2>2, <2>3 DEF Models
<1>5. TypeOK'
  <2>1. intent' \in [Browsers -> Intent]
    BY DEF TypeOK, Show, NoIntent, Intent
  <2>2. transit' \subseteq Copies'
    BY <1>3 DEF TypeOK, Show, NewModel
  <2>3. page' \in [Browsers -> {"list", "create", "single"}]
    BY <1>1 DEF Show
  <2>4. offered' \in [Browsers -> SUBSET AasIds]
    BY DEF TypeOK, Show
  <2>5. unchecked' \in [Browsers -> SUBSET Names] /\ carried' \in [Browsers -> SUBSET (Nat \X AasIds)]
    BY DEF TypeOK, Show
  <2>6. disturbed' \subseteq Browsers
    BY DEF TypeOK, Show
  <2>7. TypesElsewhere'
    BY <2>1, <2>2, <2>3, <2>4, <2>5, <2>6 DEF TypeOK, TypesElsewhere, Show, registry, net
  <2> QED
    BY <1>4, <2>7, TypesFollow
<1>6. Letters'
  BY DEF Letters, Carries, Show, registry, net
<1>7. Knows'
  <2>1. \A c \in Copies' : c # b /\ c \in Copies /\ model'[c] = model[c] /\ intent'[c] = intent[c]
    BY <1>2, <1>3 DEF TypeOK, Show, Copies
  <2> QED
    BY <2>1 DEF Knows
<1>8. InStep'
  <2>1. ASSUME NEW c \in Copies', c \notin disturbed'
        PROVE  AsItShould(c)'
    <3>1. c # b /\ c \in Copies \ disturbed /\ model'[c] = model[c]
      BY <1>2, <1>3, <2>1 DEF Show, Copies
    <3>2. AsItShould(c)
      BY <3>1 DEF InStep
    <3>3. stored' = stored /\ requests' = requests /\ replies' = replies
      BY DEF Show, registry, net
    <3>4. Pending(c)' = Pending(c)
      BY <3>3 DEF Pending
    <3>5. c \in transit' => c \in transit
      BY DEF Show, NewModel
    <3> QED
      BY <3>1, <3>2, <3>3, <3>4, <3>5, LeftAlone
  <2> QED
    BY <2>1 DEF InStep
<1> QED
  BY <1>4, <1>5, <1>6, <1>7, <1>8

\* What changes the model of a page that shows no copy of the protocol, and
\* nothing else.
LEMMA FormStep ==
  ASSUME IInv, NEW b \in Browsers, page[b] # "single", NEW rs \in Seq(Role),
         model' = [model EXCEPT ![b] = rs],
         UNCHANGED <<registry, page, transit, unchecked, carried, offered, net, intent, disturbed>>
  PROVE  IInv'
<1> USE DEF IInv
<1>1. UNCHANGED <<stored, registered, page, transit, unchecked, carried, offered, requests, replies,
                  presses, losses, intent, disturbed>>
  BY DEF registry, net
<1>2. rs # None
  BY PagesAssumption
<1>3. model'[b] = rs /\ \A c \in Browsers : c # b => model'[c] = model[c]
  BY DEF Models
<1>4. Copies' = Copies
  BY <1>1, <1>3 DEF Copies
<1>5. Models'
  BY <1>1, <1>2, <1>3 DEF Models
<1>6. TypeOK'
  <2>1. TypesElsewhere'
    BY <1>1, <1>4 DEF TypeOK, TypesElsewhere
  <2> QED
    BY <1>5, <2>1, TypesFollow
<1>7. Letters'
  BY <1>1 DEF Letters, Carries
<1>8. \A c \in Copies : c # b /\ c \in Browsers
  BY DEF Copies
<1>9. Knows'
  BY <1>1, <1>3, <1>4, <1>8 DEF Knows
<1>10. InStep'
  <2>1. ASSUME NEW c \in Copies', c \notin disturbed'
        PROVE  AsItShould(c)'
    <3>1. c \in Copies \ disturbed /\ model'[c] = model[c]
      BY <1>1, <1>3, <1>4, <1>8, <2>1
    <3>2. AsItShould(c)
      BY <3>1 DEF InStep
    <3>3. Pending(c)' = Pending(c)
      BY <1>1 DEF Pending
    <3> QED
      BY <1>1, <3>1, <3>2, <3>3, LeftAlone
  <2> QED
    BY <2>1 DEF InStep
<1> QED
  BY <1>5, <1>6, <1>7, <1>9, <1>10

\* The list of protocols shows a row.
LEMMA LoadListStep ==
  ASSUME IInv, NEW b \in Browsers, LoadList(b)
  PROVE  IInv'
<1>1. <<>> \in Seq(Role)
  BY EmptySeq
<1>2. page[b] # "single"
  BY DEF LoadList
<1> QED
  BY <1>1, <1>2, FormStep DEF LoadList, fields

\* A role comes to the form.
LEMMA AddRoleToFormStep ==
  ASSUME IInv, NEW b \in Browsers, NEW n \in Names, NEW ids \in SUBSET AasIds,
         NEW again \in BOOLEAN, AddRoleToForm(b, n, ids, again)
  PROVE  IInv'
<1> DEFINE r == [name |-> n, ids |-> ids, again |-> again]
<1>1. PICK rs : rs = model[b]
  OBVIOUS
<1>2. rs \in Seq(Role)
  BY <1>1, ModelOf DEF IInv, Models, AddRoleToForm
<1>3. r \in Role
  BY DEF Role
<1> HIDE DEF r
<1>4. Append(rs, r) \in Seq(Role)
  BY <1>2, <1>3, RoleAdded
<1>5. page[b] # "single"
  BY DEF AddRoleToForm
<1>6. model' = [model EXCEPT ![b] = Append(rs, r)]
  BY <1>1 DEF AddRoleToForm, r
<1>7. PICK new : new = Append(rs, r)
  OBVIOUS
<1>8. new \in Seq(Role) /\ model' = [model EXCEPT ![b] = new]
  BY <1>4, <1>6, <1>7
<1>9. UNCHANGED <<registry, page, transit, unchecked, carried, offered, net, intent, disturbed>>
  BY DEF AddRoleToForm, fields
<1> QED
  BY <1>5, <1>8, <1>9, FormStep

\* The role removed is one of the roles, whatever the digit is.
LEMMA RoleOfIndex ==
  ASSUME NEW rs \in Seq(Role), NEW i \in 0 .. Len(rs) - 1
  PROVE  FirstDigit[i] + 1 \in 1 .. Len(rs)
<1>1. Len(rs) \in Nat
  BY NamesOfRoles
<1>2. i \in Nat /\ i < Len(rs)
  BY <1>1
<1> DEFINE d == FirstDigit[i]
<1>3. d \in 0 .. i
  BY <1>2, FirstDigitBelow
<1> HIDE DEF d
<1>4. d + 1 \in 1 .. Len(rs)
  BY <1>1, <1>2, <1>3
<1> QED
  BY <1>4 DEF d

\* A role leaves the form.
LEMMA DeleteRoleFromFormStep ==
  ASSUME IInv, NEW b \in Browsers, NEW i, DeleteRoleFromForm(b, i)
  PROVE  IInv'
<1>1. PICK rs : rs = model[b]
  OBVIOUS
<1>2. rs \in Seq(Role)
  BY <1>1, ModelOf DEF IInv, Models, DeleteRoleFromForm
<1>3. i \in 0 .. Len(rs) - 1
  BY <1>1 DEF DeleteRoleFromForm
<1>4. FirstDigit[i] + 1 \in 1 .. Len(rs)
  BY <1>2, <1>3, RoleOfIndex
<1>5. RemoveRole(rs, i) \in Seq(Role)
  BY <1>2, <1>4, RoleRemoved DEF RemoveRole
<1>6. PICK new : new = RemoveRole(rs, i)
  OBVIOUS
<1>7. new \in Seq(Role) /\ model' = [model EXCEPT ![b] = new]
  BY <1>1, <1>5, <1>6 DEF DeleteRoleFromForm
<1>8. page[b] # "single"
  BY DEF DeleteRoleFromForm
<1>9. UNCHANGED <<registry, page, transit, unchecked, carried, offered, net, intent, disturbed>>
  BY DEF DeleteRoleFromForm, fields
<1> QED
  BY <1>7, <1>8, <1>9, FormStep

\* What is stored has the names Stored.
LEMMA StoredRoles ==
  /\ stored \in Roles \cup {None} =>
       /\ Stored \in SUBSET Names
       /\ stored # None => stored \in [Stored -> SUBSET AasIds]
       /\ stored # None <=> stored \in Roles
  /\ stored' \in Roles \cup {None} =>
       /\ Stored' \in SUBSET Names
       /\ stored' # None => stored' \in [Stored' -> SUBSET AasIds]
BY PagesAssumption DEF Roles, Stored

\* The page of a protocol gets the roles.
LEMMA ReadProtocolStep ==
  ASSUME IInv, NEW b \in Browsers, ReadProtocol(b)
  PROVE  IInv'
<1> USE DEF IInv
<1>1. UNCHANGED <<stored, registered, page, unchecked, carried, offered, requests, replies, presses,
                  losses>>
  BY DEF ReadProtocol, registry, fields, net
<1>2. /\ page[b] = "single" /\ model[b] = None
      /\ transit' = transit \cup {b}
      /\ intent' = [intent EXCEPT ![b] = [NoIntent EXCEPT !.without = Names \ Stored, !.with = Stored]]
      /\ disturbed' = IF Pending(b) = {} THEN disturbed ELSE disturbed \cup {b}
  BY DEF ReadProtocol
<1>3. PICK S, f : S = Stored /\ f = stored
  OBVIOUS
<1>4. S \in SUBSET Names /\ f \in [S -> SUBSET AasIds]
  <2>1. stored # None
    BY DEF ReadProtocol, Readable, Stored
  <2> QED
    BY <1>3, <2>1, StoredRoles DEF TypeOK
<1>5. PICK s \in SetToSeqs(S) :
        model' = [model EXCEPT ![b] =
                    [i \in DOMAIN s |-> [name |-> s[i], ids |-> f[s[i]], again |-> FALSE]]]
  BY <1>3 DEF ReadProtocol
<1>6. PICK rs : rs = [i \in DOMAIN s |-> [name |-> s[i], ids |-> f[s[i]], again |-> FALSE]]
  OBVIOUS
<1>7. rs \in Seq(Role) /\ NamesIn(rs) = S /\ AsFunction(rs) = f /\ Distinct(rs)
  BY <1>4, <1>6, RolesListed
<1>8. rs # None
  BY <1>7, PagesAssumption
<1>9. model' = [model EXCEPT ![b] = rs]
  BY <1>5, <1>6
<1>10. model'[b] = rs /\ \A c \in Browsers : c # b => model'[c] = model[c]
  BY <1>9 DEF Models
<1>11. b \notin Copies /\ Copies' = Copies \cup {b}
  BY <1>1, <1>2, <1>8, <1>10 DEF Copies
<1>12. Models'
  BY <1>1, <1>7, <1>8, <1>9, <1>10 DEF Models
<1>13. /\ intent' \in [Browsers -> Intent]
       /\ intent'[b].without = Names \ S /\ intent'[b].with = S
       /\ \A c \in Browsers : c # b => intent'[c] = intent[c]
  <2>1. PICK missing, loaded : /\ missing = Names \ S
                               /\ loaded = [NoIntent EXCEPT !.without = missing, !.with = S]
    OBVIOUS
  <2>2. loaded \in Intent /\ loaded.without = Names \ S /\ loaded.with = S
    <3>1. missing \in SUBSET Names /\ S \in SUBSET Names
      BY <1>4, <2>1
    <3>2. loaded \in Intent /\ loaded.without = missing /\ loaded.with = S
      BY <2>1, <3>1 DEF NoIntent, Intent
    <3> QED
      BY <2>1, <3>2
  <2>3. intent' = [intent EXCEPT ![b] = loaded]
    BY <1>2, <1>3, <2>1
  <2> QED
    BY <2>2, <2>3 DEF TypeOK
<1>14. TypeOK'
  <2>1. TypesElsewhere'
    BY <1>1, <1>2, <1>11, <1>13 DEF TypeOK, TypesElsewhere
  <2> QED
    BY <1>12, <2>1, TypesFollow
<1>15. Letters'
  BY <1>1 DEF Letters, Carries
<1>16. Knows'
  <2>1. ASSUME NEW c \in Copies'
        PROVE  /\ Names \ NamesIn(model'[c]) \subseteq intent'[c].without
               /\ NamesIn(model'[c]) \subseteq intent'[c].with
               /\ ~intent'[c].twice => Distinct(model'[c])
    <3>1. CASE c = b
      BY <1>7, <1>10, <1>13, <3>1
    <3>2. CASE c # b
      <4>1. c \in Copies /\ c \in Browsers
        BY <1>11, <2>1, <3>2 DEF Copies
      <4> QED
        BY <1>10, <1>13, <3>2, <4>1 DEF Knows
    <3> QED
      BY <3>1, <3>2
  <2> QED
    BY <2>1 DEF Knows
<1>17. InStep'
  <2>1. ASSUME NEW c \in Copies', c \notin disturbed'
        PROVE  AsItShould(c)'
    <3>1. Pending(c)' = Pending(c)
      BY <1>1 DEF Pending
    <3>2. CASE c = b
      <4>1. Pending(b) = {}
        BY <1>2, <2>1, <3>2
      <4>2. AsFunction(model'[b]) = stored'
        BY <1>1, <1>3, <1>7, <1>10
      <4>3. Pending(b)' = {}
        BY <3>1, <3>2, <4>1
      <4> QED
        BY <3>2, <4>2, <4>3 DEF AsItShould
    <3>3. CASE c # b
      <4>1. c \in Copies \ disturbed /\ c \in Browsers
        BY <1>2, <1>11, <2>1, <3>3 DEF Copies
      <4>2. AsItShould(c) /\ model'[c] = model[c] /\ (c \in transit' => c \in transit)
        BY <1>2, <1>10, <3>3, <4>1 DEF InStep
      <4> QED
        BY <1>1, <3>1, <4>2, LeftAlone
    <3> QED
      BY <3>2, <3>3
  <2> QED
    BY <2>1 DEF InStep
<1> QED
  BY <1>12, <1>14, <1>15, <1>16, <1>17

\* A copy that has arrived is on its way no more.
LEMMA ProtocolArrivesStep ==
  ASSUME IInv, NEW b \in Browsers, ProtocolArrives(b)
  PROVE  IInv'
<1> USE DEF IInv
<1>1. /\ UNCHANGED <<stored, registered, page, model, unchecked, carried, offered, requests, replies,
                     presses, losses, intent, disturbed>>
      /\ transit' = transit \ {b}
  BY DEF ProtocolArrives, registry, fields, net
<1>2. Copies' = Copies
  BY <1>1 DEF Copies
<1>3. Models' /\ Letters' /\ Knows'
  BY <1>1, <1>2 DEF Models, Letters, Carries, Knows
<1>4. TypeOK'
  <2>1. TypesElsewhere'
    BY <1>1, <1>2 DEF TypeOK, TypesElsewhere
  <2> QED
    BY <1>3, <2>1, TypesFollow
<1>5. InStep'
  <2>1. ASSUME NEW c \in Copies', c \notin disturbed'
        PROVE  AsItShould(c)'
    <3>1. AsItShould(c) /\ model'[c] = model[c]
      BY <1>1, <1>2, <2>1 DEF InStep
    <3>2. Pending(c)' = Pending(c)
      BY <1>1 DEF Pending
    <3> QED
      BY <1>1, <3>1, <3>2, LeftAlone
  <2> QED
    BY <2>1 DEF InStep
<1> QED
  BY <1>3, <1>4, <1>5

------------------------------------------------------------------------------
(* Requests *)

\* A number below one press is below the next.
LEMMA Earlier ==
  \A m, k : m \in Nat /\ k = m + 1 => m \in 0 .. k - 1 /\ 0 .. m - 1 \subseteq 0 .. k - 1
OBVIOUS

\* A page sends q, after which it has the roles rs, its edits being in purpose.
Sending(b, q, rs, purpose) ==
  /\ Send(b, q)
  /\ q.by = b /\ q.n = presses /\ q.op \in Ops /\ Carries(q)
  /\ rs \in Seq(Role) \/ (rs = None /\ model[b] = None)
  /\ model' = [model EXCEPT ![b] = rs]
  /\ purpose \in Intent
  /\ intent' = [intent EXCEPT ![b] = purpose]
  /\ unchecked' \in [Browsers -> SUBSET Names]
  /\ carried' \in [Browsers -> SUBSET (Nat \X AasIds)]
  /\ page[b] = "single" => model[b] # None
  /\ b \in Copies => /\ b \notin transit
                     /\ q.op \in {"addRole", "deleteRole", "patchRole", "dropMember"}
                     /\ q.op = "deleteRole" => q.roles = rs
                     /\ Names \ NamesIn(rs) \subseteq purpose.without
                     /\ NamesIn(rs) \subseteq purpose.with
                     /\ ~purpose.twice => Distinct(rs)

\* A request that carries what it should, sent by a page whose edits are in its intent.
LEMMA SendStep ==
  ASSUME IInv, NEW b \in Browsers, NEW q, NEW rs, NEW purpose, Sending(b, q, rs, purpose)
  PROVE  IInv'
<1> USE DEF IInv, Sending
<1>1. /\ UNCHANGED <<stored, registered, page, transit, offered, replies, losses>>
      /\ presses < MaxPresses /\ presses' = presses + 1
      /\ requests' = requests \cup {q}
      /\ disturbed' = IF Pending(b) = {} THEN disturbed ELSE disturbed \cup ({b} \cap Copies)
  BY DEF Send, registry
<1>2. model'[b] = rs /\ \A c \in Browsers : c # b => model'[c] = model[c]
  BY DEF Models
<1>3. intent'[b] = purpose /\ \A c \in Browsers : c # b => intent'[c] = intent[c]
  BY DEF TypeOK
<1>4. model[b] # None => rs \in Seq(Role) /\ rs # None
  BY PagesAssumption
<1>5. page[b] = "single" => b \in Copies /\ rs # None
  BY <1>4 DEF Copies
<1>6. Copies' = Copies
  BY <1>1, <1>2, <1>5 DEF Copies
<1>7. Models'
  <2>1. model' \in [Browsers -> Seq(Role) \cup {None}]
    BY DEF Models
  <2>2. \A c \in Browsers : page'[c] = "create" => model'[c] # None
    BY <1>1, <1>2, <1>4 DEF Models
  <2> QED
    BY <2>1, <2>2 DEF Models
<1>8. TypeOK'
  <2>1. presses \in Nat /\ presses' \in 0 .. MaxPresses
    BY <1>1, PagesAssumption DEF TypeOK
  <2>2. \A r \in requests' \cup replies' : r.op \in Ops /\ r.by \in Browsers /\ r.n \in 0 .. presses' - 1
    <3>1. TAKE r \in requests' \cup replies'
    <3>2. CASE r = q
      BY <1>1, <2>1, <3>2, Earlier
    <3>3. CASE r # q
      <4>1. r \in requests \cup replies
        BY <1>1, <3>1, <3>3
      <4>2. r.op \in Ops /\ r.by \in Browsers /\ r.n \in 0 .. presses - 1
        BY <4>1 DEF TypeOK
      <4> QED
        BY <1>1, <2>1, <4>2, Earlier
    <3> QED
      BY <3>2, <3>3
  <2>3. intent' \in [Browsers -> Intent]
    BY DEF TypeOK
  <2>4. TypesElsewhere'
    BY <1>1, <1>6, <2>1, <2>2, <2>3 DEF TypeOK, TypesElsewhere
  <2> QED
    BY <1>7, <2>4, TypesFollow
<1>9. Letters'
  BY <1>1 DEF Letters, Carries
<1>10. Knows'
  <2>1. ASSUME NEW c \in Copies'
        PROVE  /\ Names \ NamesIn(model'[c]) \subseteq intent'[c].without
               /\ NamesIn(model'[c]) \subseteq intent'[c].with
               /\ ~intent'[c].twice => Distinct(model'[c])
    <3>1. c \in Copies /\ c \in Browsers
      BY <1>6, <2>1 DEF Copies
    <3>2. CASE c = b
      BY <1>2, <1>3, <3>1, <3>2
    <3>3. CASE c # b
      BY <1>2, <1>3, <3>1, <3>3 DEF Knows
    <3> QED
      BY <3>2, <3>3
  <2> QED
    BY <2>1 DEF Knows
<1>11. InStep'
  <2>1. ASSUME NEW c \in Copies', c \notin disturbed'
        PROVE  AsItShould(c)'
    <3>1. c \in Copies \ disturbed /\ c \in Browsers
      BY <1>1, <1>6, <2>1 DEF Copies
    <3>2. AsItShould(c)
      BY <3>1 DEF InStep
    <3>3. CASE c = b
      <4>1. Pending(b) = {}
        BY <1>1, <2>1, <3>1, <3>3
      <4>2. Pending(b)' = {q}
        BY <1>1, <4>1 DEF Pending
      <4>3. q \notin replies'
        BY <1>1, <4>1 DEF Pending
      <4> HIDE DEF IInv
      <4> QED
        BY <1>1, <1>2, <3>1, <3>3, <4>2, <4>3 DEF AsItShould
    <3>4. CASE c # b
      <4>1. Pending(c)' = Pending(c) /\ \A r \in Pending(c) : r \in requests' => r \in requests
        BY <1>1, <3>4 DEF Pending
      <4>2. model'[c] = model[c]
        BY <1>2, <3>1, <3>4
      <4> QED
        BY <1>1, <3>2, <4>1, <4>2, LeftAlone
    <3> QED
      BY <3>3, <3>4
  <2> QED
    BY <2>1 DEF InStep
<1> QED
  BY <1>7, <1>8, <1>9, <1>10, <1>11

\* A request that leaves the page as it is.
LEMMA SendOnlyStep ==
  ASSUME IInv, NEW b \in Browsers, NEW q, Send(b, q), UNCHANGED <<model, unchecked, intent>>,
         carried' \in [Browsers -> SUBSET (Nat \X AasIds)],
         q.by = b, q.n = presses, q.op \in Ops, Carries(q),
         page[b] = "single" => b \in Pages /\ q.op = "dropMember"
  PROVE  IInv'
<1>1. PICK rs, purpose : rs = model[b] /\ purpose = intent[b]
  OBVIOUS
<1>2. /\ model' = [model EXCEPT ![b] = rs]
      /\ intent' = [intent EXCEPT ![b] = purpose]
      /\ purpose \in Intent
      /\ unchecked' \in [Browsers -> SUBSET Names]
  BY <1>1 DEF IInv, TypeOK, Models
<1>3. rs \in Seq(Role) \/ (rs = None /\ model[b] = None)
  BY <1>1, ModelOf DEF IInv
<1>4. b \in Copies => /\ b \notin transit
                      /\ q.op = "dropMember"
                      /\ Names \ NamesIn(rs) \subseteq purpose.without
                      /\ NamesIn(rs) \subseteq purpose.with
                      /\ ~purpose.twice => Distinct(rs)
  BY <1>1 DEF IInv, Knows, Pages, Copies
<1>5. page[b] = "single" => model[b] # None
  BY DEF Pages, Copies
<1>6. Sending(b, q, rs, purpose)
  BY <1>2, <1>3, <1>4, <1>5 DEF Sending
<1> QED
  BY <1>6, SendStep

\* The page of a protocol sends the roles it has after an edit.
LEMMA PutRolesStep ==
  ASSUME IInv, NEW b \in Pages, NEW op \in Puts, NEW rs \in Seq(Role), NEW purpose \in Intent,
         PutRoles(b, op, rs, purpose),
         Names \ NamesIn(rs) \subseteq purpose.without,
         NamesIn(rs) \subseteq purpose.with,
         ~purpose.twice => Distinct(rs),
         unchecked' \in [Browsers -> SUBSET Names],
         carried' \in [Browsers -> SUBSET (Nat \X AasIds)]
  PROVE  IInv'
<1> DEFINE request == [n |-> presses, by |-> b, op |-> op, roles |-> rs, intent |-> purpose]
<1>1. PICK q : q = request
  OBVIOUS
<1>2. q.by = b /\ q.n = presses /\ q.op = op /\ q.roles = rs /\ q.intent = purpose
  BY <1>1
<1>3. /\ model' = [model EXCEPT ![b] = rs]
      /\ intent' = [intent EXCEPT ![b] = purpose]
      /\ Send(b, q)
  BY <1>1 DEF PutRoles
<1> HIDE DEF request
<1>4. Carries(q) /\ q.op \in Ops /\ q.op \in {"addRole", "deleteRole"}
  BY <1>2 DEF Carries, Puts, Ops
<1>5. b \in Browsers /\ b \notin transit /\ model[b] # None
  BY DEF Pages, Copies
<1>6. /\ Names \ NamesIn(rs) \subseteq purpose.without /\ NamesIn(rs) \subseteq purpose.with
      /\ ~purpose.twice => Distinct(rs)
  OBVIOUS
<1>7. Sending(b, q, rs, purpose)
  BY <1>2, <1>3, <1>4, <1>5, <1>6 DEF Sending
<1> QED
  BY <1>5, <1>7, SendStep

\* A role comes to the protocol.
LEMMA AddRoleStep ==
  ASSUME IInv, NEW b \in Browsers, NEW n \in Names, AddRole(b, n)
  PROVE  IInv'
<1>1. PICK rs, r, purpose : /\ rs = model[b] /\ r = [name |-> n, ids |-> None, again |-> FALSE]
                            /\ purpose = [intent[b] EXCEPT !.with = @ \cup {n},
                                                           !.twice = @ \/ n \in NamesIn(model[b])]
  OBVIOUS
<1>2. b \in Pages /\ b \in Copies
  BY DEF AddRole, Pages
<1>3. rs \in Seq(Role)
  BY <1>1, <1>2, ModelOf DEF IInv, Copies
<1>4. r \in Role /\ r.name = n /\ ~r.again
  BY <1>1 DEF Role
<1>5. /\ Append(rs, r) \in Seq(Role) /\ NamesIn(Append(rs, r)) = NamesIn(rs) \cup {n}
      /\ Distinct(rs) /\ n \notin NamesIn(rs) => Distinct(Append(rs, r))
  BY <1>3, <1>4, RoleAdded
<1>6. /\ intent[b] \in Intent
      /\ Names \ NamesIn(rs) \subseteq intent[b].without
      /\ NamesIn(rs) \subseteq intent[b].with
      /\ ~intent[b].twice => Distinct(rs)
  BY <1>1, <1>2 DEF IInv, Knows, TypeOK
<1>7. purpose \in Intent /\ purpose.without = intent[b].without /\ purpose.with = intent[b].with \cup {n}
  BY <1>1, <1>6 DEF Intent
<1>8. purpose.twice <=> intent[b].twice \/ n \in NamesIn(rs)
  BY <1>1, <1>6 DEF Intent
<1>9. PICK new : new = Append(rs, r)
  OBVIOUS
<1>10. PutRoles(b, "addRole", new, purpose)
  BY <1>1, <1>9 DEF AddRole
<1>11. unchecked' \in [Browsers -> SUBSET Names] /\ carried' \in [Browsers -> SUBSET (Nat \X AasIds)]
  BY DEF AddRole, IInv, TypeOK
<1>12. /\ new \in Seq(Role)
       /\ Names \ NamesIn(new) \subseteq purpose.without
       /\ NamesIn(new) \subseteq purpose.with
       /\ ~purpose.twice => Distinct(new)
  BY <1>5, <1>6, <1>7, <1>8, <1>9
<1> QED
  BY <1>2, <1>7, <1>10, <1>11, <1>12, PutRolesStep DEF Puts

\* A role leaves the protocol, the one pressed or the one of its first digit.
LEMMA DeleteRoleStep ==
  ASSUME IInv, NEW b \in Browsers, NEW i, DeleteRole(b, i)
  PROVE  IInv'
<1>1. PICK rs, purpose : /\ rs = model[b]
                         /\ purpose = [intent[b] EXCEPT !.without = @ \cup Pressed(rs, i)]
  OBVIOUS
<1>2. b \in Pages /\ b \in Copies
  BY DEF DeleteRole, Pages
<1>3. rs \in Seq(Role)
  BY <1>1, <1>2, ModelOf DEF IInv, Copies
<1>4. Len(rs) \in Nat /\ DOMAIN rs = 1 .. Len(rs)
  BY <1>3, NamesOfRoles
<1>5. i \in 0 .. Len(rs) - 1 /\ i + 1 \in 1 .. Len(rs)
  BY <1>1, <1>4 DEF DeleteRole
<1>6. PICK k : k = FirstDigit[i] + 1
  OBVIOUS
<1>7. k \in 1 .. Len(rs)
  BY <1>3, <1>5, <1>6, RoleOfIndex
<1>8. /\ RemoveAt(rs, k) \in Seq(Role)
      /\ NamesIn(RemoveAt(rs, k)) \subseteq NamesIn(rs)
      /\ NamesIn(rs) \subseteq NamesIn(RemoveAt(rs, k)) \cup {rs[k].name}
      /\ Distinct(rs) => Distinct(RemoveAt(rs, k))
  BY <1>3, <1>7, RoleRemoved
<1>9. Pressed(rs, i) \subseteq Names /\ rs[k].name \in Pressed(rs, i)
  <2>1. rs[i + 1].name \in Names /\ rs[k].name \in Names
    BY <1>3, <1>4, <1>5, <1>7, NamesOfRoles
  <2> QED
    BY <1>6, <2>1 DEF Pressed
<1>10. /\ intent[b] \in Intent
       /\ Names \ NamesIn(rs) \subseteq intent[b].without
       /\ NamesIn(rs) \subseteq intent[b].with
       /\ ~intent[b].twice => Distinct(rs)
  BY <1>1, <1>2 DEF IInv, Knows, TypeOK
<1>11. /\ purpose \in Intent
       /\ purpose.without = intent[b].without \cup Pressed(rs, i)
       /\ purpose.with = intent[b].with
       /\ purpose.twice <=> intent[b].twice
  <2> DEFINE P == Pressed(rs, i)
  <2>1. P \subseteq Names /\ purpose = [intent[b] EXCEPT !.without = @ \cup P]
    BY <1>1, <1>9
  <2> HIDE DEF P
  <2>2. /\ purpose \in Intent
        /\ purpose.without = intent[b].without \cup P
        /\ purpose.with = intent[b].with
    BY <1>10, <2>1 DEF Intent
  <2>3. purpose.twice <=> intent[b].twice
    BY <1>10, <2>1 DEF Intent
  <2> QED
    BY <2>2, <2>3 DEF P
<1>12. PICK new : new = RemoveAt(rs, k)
  OBVIOUS
<1>13. PutRoles(b, "deleteRole", new, purpose)
  BY <1>1, <1>6, <1>12 DEF DeleteRole, RemoveRole
<1>14. unchecked' \in [Browsers -> SUBSET Names] /\ carried' \in [Browsers -> SUBSET (Nat \X AasIds)]
  <2>1. PICK chosen : carried' = [carried EXCEPT ![b] = {ShownNext(new, i)} \X chosen]
                      /\ chosen \subseteq AasIds
    BY <1>1, <1>6, <1>12 DEF DeleteRole, RemoveRole, Selectable
  <2>2. ShownNext(new, i) \in Nat
    <3>1. Len(new) \in Nat
      BY <1>8, <1>12, NamesOfRoles
    <3>2. FirstDigit[i] \in Nat
      <4>1. i \in Nat
        BY <1>4, <1>5
      <4> QED
        BY <4>1, FirstDigitBelow
    <3> QED
      BY <3>1, <3>2 DEF ShownNext
  <2>3. carried \in [Browsers -> SUBSET (Nat \X AasIds)] /\ unchecked' \in [Browsers -> SUBSET Names]
    BY DEF DeleteRole, IInv, TypeOK
  <2> QED
    BY <2>1, <2>2, <2>3
<1>15. /\ new \in Seq(Role)
       /\ Names \ NamesIn(new) \subseteq purpose.without
       /\ NamesIn(new) \subseteq purpose.with
       /\ ~purpose.twice => Distinct(new)
  BY <1>8, <1>9, <1>10, <1>11, <1>12
<1> QED
  BY <1>2, <1>11, <1>13, <1>14, <1>15, PutRolesStep DEF Puts

\* The form is sent.
LEMMA CreateProtocolStep ==
  ASSUME IInv, NEW b \in Browsers, CreateProtocol(b)
  PROVE  IInv'
<1>1. PICK rs, purpose : rs = model[b] /\ purpose = [NoIntent EXCEPT !.with = NamesIn(model[b])]
  OBVIOUS
<1>2. rs \in Seq(Role) /\ NamesIn(rs) \subseteq Names
  BY <1>1, ModelOf, NamesOfRoles DEF IInv, Models, CreateProtocol
<1>3. purpose = [without |-> {}, with |-> NamesIn(rs), twice |-> FALSE]
  BY <1>1 DEF NoIntent
<1> DEFINE request == [n |-> presses, by |-> b, op |-> "create", roles |-> rs, intent |-> purpose]
<1>4. PICK q : q = request
  OBVIOUS
<1>5. q.by = b /\ q.n = presses /\ q.op = "create" /\ q.roles = rs /\ q.intent = purpose
  BY <1>4
<1>6. Send(b, q) /\ UNCHANGED <<model, unchecked, intent>> /\ page[b] # "single"
  BY <1>1, <1>4 DEF CreateProtocol, fields
<1> HIDE DEF request
<1>7. Carries(q) /\ q.op \in Ops
  <2>1. purpose \in Intent /\ purpose.with = NamesIn(rs)
    BY <1>2, <1>3 DEF Intent
  <2> QED
    BY <1>2, <1>5, <2>1 DEF Carries, Puts, Ops
<1>8. carried' \in [Browsers -> SUBSET (Nat \X AasIds)]
  BY DEF CreateProtocol, fields, IInv, TypeOK
<1> QED
  BY <1>5, <1>6, <1>7, <1>8, SendOnlyStep

\* A protocol is deleted from the list.
LEMMA DeleteProtocolStep ==
  ASSUME IInv, NEW b \in Browsers, DeleteProtocol(b)
  PROVE  IInv'
<1>1. PICK q : q = [n |-> presses, by |-> b, op |-> "deleteProtocol"]
  OBVIOUS
<1>2. q.by = b /\ q.n = presses /\ q.op = "deleteProtocol"
  BY <1>1
<1>3. Send(b, q) /\ UNCHANGED <<model, unchecked, intent>> /\ page[b] # "single"
  BY <1>1 DEF DeleteProtocol, fields
<1>4. Carries(q) /\ q.op \in Ops
  BY <1>2 DEF Carries, Puts, Ops
<1>5. carried' \in [Browsers -> SUBSET (Nat \X AasIds)]
  BY DEF DeleteProtocol, fields, IInv, TypeOK
<1> QED
  BY <1>2, <1>3, <1>4, <1>5, SendOnlyStep

\* A descriptor is deleted from its list.
LEMMA DeleteAasStep ==
  ASSUME IInv, NEW b \in Browsers, NEW a, DeleteAas(b, a)
  PROVE  IInv'
<1>1. PICK q : q = [n |-> presses, by |-> b, op |-> "deleteAas", aas |-> a]
  OBVIOUS
<1>2. q.by = b /\ q.n = presses /\ q.op = "deleteAas"
  BY <1>1
<1>3. Send(b, q) /\ UNCHANGED <<model, unchecked, intent>> /\ page[b] # "single"
  BY <1>1 DEF DeleteAas, fields
<1>4. Carries(q) /\ q.op \in Ops
  BY <1>2 DEF Carries, Puts, Ops
<1>5. carried' \in [Browsers -> SUBSET (Nat \X AasIds)]
  BY DEF DeleteAas, fields, IInv, TypeOK
<1> QED
  BY <1>2, <1>3, <1>4, <1>5, SendOnlyStep

\* A member is taken out of a role.
LEMMA DeleteDescriptorStep ==
  ASSUME IInv, NEW b \in Browsers, NEW i, NEW a, DeleteDescriptor(b, i, a)
  PROVE  IInv'
<1>1. PICK q : q = [n |-> presses, by |-> b, op |-> "dropMember", role |-> model[b][i].name,
                    aas |-> a]
  OBVIOUS
<1>2. q.by = b /\ q.n = presses /\ q.op = "dropMember"
  BY <1>1
<1>3. Send(b, q) /\ UNCHANGED <<model, unchecked, intent>> /\ b \in Pages
  BY <1>1 DEF DeleteDescriptor
<1>4. Carries(q) /\ q.op \in Ops
  BY <1>2 DEF Carries, Puts, Ops
<1>5. carried' \in [Browsers -> SUBSET (Nat \X AasIds)]
  BY DEF DeleteDescriptor, IInv, TypeOK
<1> QED
  BY <1>2, <1>3, <1>4, <1>5, SendOnlyStep

\* A member is put into a role.
LEMMA AddDescriptorStep ==
  ASSUME IInv, NEW b \in Browsers, NEW i, NEW a, AddDescriptor(b, i, a)
  PROVE  IInv'
<1>1. PICK rs, r, purpose :
        /\ rs = model[b] /\ r = WithMember(rs[i], a)
        /\ purpose = [intent[b] EXCEPT !.twice = @ \/ a \in rs[i].ids]
  OBVIOUS
<1>2. b \in Pages /\ b \in Copies
  BY DEF AddDescriptor, Pages
<1>3. rs \in Seq(Role)
  BY <1>1, <1>2, ModelOf DEF IInv, Copies
<1>4. i \in DOMAIN rs /\ rs[i].ids # None /\ a \in AasIds
  BY <1>1 DEF AddDescriptor, IInv, TypeOK
<1>5. rs[i] \in Role
  BY <1>3, <1>4, NamesOfRoles
<1>6. /\ r \in Role /\ r.name = rs[i].name /\ r.ids \in SUBSET AasIds /\ r.name \in Names
      /\ r.again <=> rs[i].again \/ a \in rs[i].ids
  <2>1. /\ r \in Role /\ r.name = rs[i].name /\ r.ids = rs[i].ids \cup {a}
        /\ r.again <=> rs[i].again \/ a \in rs[i].ids
    BY <1>1, <1>4, <1>5, MemberPutIn
  <2> QED
    BY <1>4, <1>5, <2>1 DEF Role
<1>7. PICK q : q = [n |-> presses, by |-> b, op |-> "patchRole", role |-> r.name, ids |-> r.ids,
                    again |-> r.again]
  OBVIOUS
<1>8. q.by = b /\ q.n = presses /\ q.op = "patchRole" /\ q.role = r.name /\ q.ids = r.ids
  BY <1>7
<1>9. Carries(q) /\ q.op \in Ops
  BY <1>6, <1>8 DEF Carries, Puts, Ops
<1>10. PICK new : new = [rs EXCEPT ![i] = r]
  OBVIOUS
<1>11. /\ new \in Seq(Role) /\ NamesIn(new) = NamesIn(rs)
       /\ Distinct(rs) /\ ~r.again => Distinct(new)
  BY <1>3, <1>4, <1>6, <1>10, RoleChanged
<1>12. /\ Send(b, q)
       /\ model' = [model EXCEPT ![b] = new]
       /\ intent' = [intent EXCEPT ![b] = purpose]
       /\ carried' = [carried EXCEPT ![b] = {}]
       /\ UNCHANGED unchecked
  <2>1. /\ Send(b, q) /\ model' = [model EXCEPT ![b][i] = r] /\ UNCHANGED unchecked
        /\ intent' = [intent EXCEPT ![b].twice = @ \/ a \in model[b][i].ids]
        /\ carried' = [carried EXCEPT ![b] = {}]
    BY <1>1, <1>7 DEF AddDescriptor
  <2>2. [model EXCEPT ![b][i] = r] = [model EXCEPT ![b] = [model[b] EXCEPT ![i] = r]]
    OBVIOUS
  <2>3. [intent EXCEPT ![b].twice = @ \/ a \in model[b][i].ids] =
        [intent EXCEPT ![b] = [intent[b] EXCEPT !.twice = @ \/ a \in model[b][i].ids]]
    OBVIOUS
  <2> QED
    BY <1>1, <1>10, <2>1, <2>2, <2>3
<1>13. /\ intent[b] \in Intent
       /\ Names \ NamesIn(rs) \subseteq intent[b].without
       /\ NamesIn(rs) \subseteq intent[b].with
       /\ ~intent[b].twice => Distinct(rs)
  BY <1>1, <1>2 DEF IInv, TypeOK, Knows
<1>14. /\ purpose \in Intent
       /\ purpose.without = intent[b].without /\ purpose.with = intent[b].with
  BY <1>1, <1>13 DEF Intent
<1>15. purpose.twice <=> intent[b].twice \/ a \in rs[i].ids
  BY <1>1, <1>13 DEF Intent
<1>16. ~purpose.twice => Distinct(new)
  <2>1. ASSUME Distinct(rs), a \notin rs[i].ids
        PROVE  ~r.again
    BY <1>4, <1>6, <2>1 DEF Distinct
  <2> QED
    BY <1>11, <1>13, <1>15, <2>1
<1>17. /\ unchecked' \in [Browsers -> SUBSET Names]
       /\ carried' \in [Browsers -> SUBSET (Nat \X AasIds)]
  BY <1>12 DEF IInv, TypeOK
<1>18. b \notin transit /\ (page[b] = "single" => model[b] # None)
  BY <1>2 DEF Pages, Copies
<1>19. /\ q.op \in {"addRole", "deleteRole", "patchRole", "dropMember"}
       /\ q.op = "deleteRole" => q.roles = new
       /\ Names \ NamesIn(new) \subseteq purpose.without
       /\ NamesIn(new) \subseteq purpose.with
  BY <1>8, <1>11, <1>13, <1>14
<1>20. Sending(b, q, new, purpose)
  BY <1>8, <1>9, <1>11, <1>12, <1>14, <1>16, <1>17, <1>18, <1>19 DEF Sending
<1> QED
  BY <1>20, SendStep

------------------------------------------------------------------------------
(* The registry *)

\* The names of the roles a value of the registry has.
NamesOf(s) == IF s = None THEN {} ELSE DOMAIN s

\* What a request makes of the protocol is a protocol or none, and its roles are those the
\* request carries, none, or those there were.
LEMMA EffectOf ==
  ASSUME TypeOK, NEW q \in requests, Carries(q)
  PROVE  /\ Effect(q) \in Roles \cup {None}
         /\ q.op \in Puts => NamesOf(Effect(q)) = IF Saved(q.roles) THEN NamesIn(q.roles) ELSE {}
         /\ q.op = "create" => \/ NamesOf(Effect(q)) = Stored
                               \/ Stored = {} /\ NamesOf(Effect(q)) = NamesIn(q.roles)
         /\ q.op \in {"patchRole", "dropMember", "deleteAas"} => NamesOf(Effect(q)) = Stored
<1>1. q.op \in Ops /\ stored \in Roles \cup {None}
  BY DEF TypeOK
<1>2. <<>> \in Seq(Role) /\ NamesIn(<<>>) = {}
  BY EmptySeq DEF NamesIn
<1>3. /\ AsFunction(<<>>) \in Roles /\ DOMAIN AsFunction(<<>>) = {}
      /\ AsFunction(<<>>) # None
  BY <1>2, NamesOfRoles, PagesAssumption
<1>4. NamesOf(stored) = Stored /\ NamesOf(None) = {}
  BY DEF NamesOf, Stored
<1>5. CASE q.op \in Puts
  <2>1. q.roles \in Seq(Role)
    BY <1>5 DEF Carries
  <2>2. /\ AsFunction(q.roles) \in Roles /\ DOMAIN AsFunction(q.roles) = NamesIn(q.roles)
        /\ AsFunction(q.roles) # None
    BY <2>1, NamesOfRoles, PagesAssumption
  <2>3. Effect(q) = IF Saved(q.roles) THEN AsFunction(q.roles)
                    ELSE IF stored = None THEN None ELSE AsFunction(<<>>)
    BY <1>5 DEF Effect, Puts
  <2>4. Effect(q) \in Roles \cup {None}
    BY <1>3, <2>2, <2>3
  <2>5. NamesOf(Effect(q)) = IF Saved(q.roles) THEN NamesIn(q.roles) ELSE {}
    BY <1>3, <2>2, <2>3 DEF NamesOf
  <2>6. q.op \notin {"create", "patchRole", "dropMember", "deleteAas"}
    BY <1>5 DEF Puts
  <2> QED
    BY <2>4, <2>5, <2>6
<1>6. CASE q.op = "create"
  <2>1. q.roles \in Seq(Role)
    BY <1>6 DEF Carries
  <2>2. /\ AsFunction(q.roles) \in Roles /\ DOMAIN AsFunction(q.roles) = NamesIn(q.roles)
        /\ AsFunction(q.roles) # None
    BY <2>1, NamesOfRoles, PagesAssumption
  <2>3. Effect(q) = IF stored = None /\ Saved(q.roles) THEN AsFunction(q.roles) ELSE stored
    BY <1>6 DEF Effect, Puts
  <2>4. Effect(q) \in Roles \cup {None}
    BY <1>1, <2>2, <2>3
  <2>5. NamesOf(Effect(q)) = Stored \/ (Stored = {} /\ NamesOf(Effect(q)) = NamesIn(q.roles))
    BY <1>4, <2>2, <2>3 DEF NamesOf, Stored
  <2>6. q.op \notin Puts /\ q.op \notin {"patchRole", "dropMember", "deleteAas"}
    BY <1>6 DEF Puts
  <2> QED
    BY <2>4, <2>5, <2>6
<1>7. CASE q.op \in {"patchRole", "dropMember", "deleteAas"}
  <2>1. q.op \notin Puts /\ q.op # "create"
    BY <1>7 DEF Puts
  <2>2. CASE Effect(q) = stored
    BY <1>1, <1>4, <2>1, <2>2
  <2>3. CASE Effect(q) # stored
    <3>1. /\ stored # None
          /\ \/ q.op = "patchRole" /\ Effect(q) = [stored EXCEPT ![q.role] = q.ids]
             \/ q.op = "dropMember" /\ Effect(q) = [stored EXCEPT ![q.role] = @ \ {q.aas}]
             \/ q.op = "deleteAas" /\ Effect(q) = [n \in DOMAIN stored |-> stored[n] \ {q.aas}]
      BY <1>7, <2>1, <2>3 DEF Effect, Patches, Stored
    <3>2. Stored \in SUBSET Names /\ stored \in [Stored -> SUBSET AasIds]
      BY <1>1, <3>1, StoredRoles
    <3>3. Effect(q) \in [Stored -> SUBSET AasIds]
      <4>1. CASE q.op = "patchRole" /\ Effect(q) = [stored EXCEPT ![q.role] = q.ids]
        <5>1. q.ids \in SUBSET AasIds
          BY <4>1 DEF Carries
        <5> QED
          BY <3>2, <4>1, <5>1
      <4>2. CASE q.op = "dropMember" /\ Effect(q) = [stored EXCEPT ![q.role] = @ \ {q.aas}]
        BY <3>2, <4>2
      <4>3. CASE q.op = "deleteAas" /\ Effect(q) = [n \in DOMAIN stored |-> stored[n] \ {q.aas}]
        BY <3>2, <4>3
      <4> QED
        BY <3>1, <4>1, <4>2, <4>3
    <3>4. Effect(q) \in Roles
      BY <3>2, <3>3 DEF Roles
    <3>5. NamesOf(Effect(q)) = Stored
      BY <3>3, <3>4, PagesAssumption DEF NamesOf
    <3> QED
      BY <2>1, <3>4, <3>5
  <2> QED
    BY <2>2, <2>3
<1>8. CASE q.op = "deleteProtocol"
  BY <1>8 DEF Effect, Puts
<1> QED
  BY <1>1, <1>5, <1>6, <1>7, <1>8 DEF Ops, Puts

\* The registry takes up a request.
LEMMA ProcessStep ==
  ASSUME IInv, NEW q \in requests, NEW arrives \in BOOLEAN, Process(q, arrives)
  PROVE  IInv'
<1> USE DEF IInv
<1>1. /\ UNCHANGED <<page, model, transit, unchecked, carried, offered, presses, intent>>
      /\ requests' = requests \ {q}
      /\ stored' = Effect(q)
      /\ registered' \subseteq registered
      /\ disturbed' = disturbed \cup
           (Copies \cap ((IF stored' = stored THEN {} ELSE Browsers \ {q.by})
                         \cup (IF arrives /\ Accepted(q) THEN {} ELSE {q.by})))
  BY DEF Process, views, fields
<1>2. PICK p : p = [n |-> q.n, by |-> q.by, op |-> q.op]
  OBVIOUS
<1>3. /\ replies' = IF arrives /\ Accepted(q) /\ q.op \in Effective THEN replies \cup {p} ELSE replies
      /\ p.n = q.n /\ p.by = q.by /\ p.op = q.op
  BY <1>2 DEF Process
<1>4. /\ q.op \in Ops /\ q.by \in Browsers /\ q.n \in 0 .. presses - 1
      /\ Carries(q)
  BY DEF TypeOK, Letters
<1>5. Copies' = Copies
  BY <1>1 DEF Copies
<1>6. Models'
  BY <1>1 DEF Models
<1>7. Knows'
  BY <1>1, <1>5 DEF Knows
<1>8. TypeOK'
  <2>1. stored' \in Roles \cup {None}
    BY <1>1, <1>4, EffectOf
  <2>2. losses' \in 0 .. MaxLosses
    <3>1. losses' = losses \/ (losses < MaxLosses /\ losses' = losses + 1)
      BY DEF Process
    <3>2. losses \in 0 .. MaxLosses /\ MaxLosses \in Nat
      BY PagesAssumption DEF TypeOK
    <3> QED
      BY <3>1, <3>2
  <2>3. \A r \in requests' \cup replies' : r.op \in Ops /\ r.by \in Browsers /\ r.n \in 0 .. presses - 1
    <3>1. \A r \in requests' \cup replies' : r \in requests \cup replies \/ r = p
      BY <1>1, <1>3
    <3> QED
      BY <1>3, <1>4, <3>1 DEF TypeOK
  <2>4. TypesElsewhere'
    BY <1>1, <1>5, <2>1, <2>2, <2>3 DEF TypeOK, TypesElsewhere
  <2> QED
    BY <1>6, <2>4, TypesFollow
<1>9. Letters'
  <2>1. \A r \in requests' : Carries(r)
    BY <1>1 DEF Letters
  <2>2. \A r \in replies' : r.op \in Effective
    BY <1>3 DEF Letters
  <2> QED
    BY <2>1, <2>2 DEF Letters, Carries
<1>10. InStep'
  <2>1. ASSUME NEW c \in Copies', c \notin disturbed'
        PROVE  AsItShould(c)'
    <3>1. c \in Copies \ disturbed /\ c \in Browsers /\ AsItShould(c)
      BY <1>1, <1>5, <2>1 DEF InStep, Copies
    <3>2. CASE c # q.by
      <4>1. stored' = stored
        BY <1>1, <2>1, <3>1, <3>2
      <4>2. Pending(c)' = Pending(c) /\ \A r \in Pending(c) : /\ r \in requests' => r \in requests
                                                              /\ r \in replies' => r \in replies
        BY <1>1, <1>3, <3>2 DEF Pending
      <4> QED
        BY <1>1, <3>1, <4>1, <4>2, LeftAlone
    <3>3. CASE c = q.by
      <4>1. arrives /\ Accepted(q)
        BY <1>1, <2>1, <3>1, <3>3
      <4>2. q \in Pending(c) /\ \A r \in Pending(c) : r = q
        BY <3>1, <3>3 DEF Pending, AsItShould
      <4>3. /\ q.op \in {"addRole", "deleteRole", "patchRole", "dropMember"}
            /\ q \notin replies
            /\ q.op = "deleteRole" => q.roles = model[c]
            /\ c \notin transit
        BY <3>1, <4>2 DEF AsItShould
      <4>4. CASE q.op = "deleteRole"
        <5>1. Pending(c)' = {}
          BY <1>1, <1>3, <4>2, <4>3, <4>4 DEF Pending, Effective
        <5>2. stored' = AsFunction(model'[c])
          BY <1>1, <4>1, <4>3, <4>4 DEF Effect, Accepted, Puts
        <5> QED
          BY <5>1, <5>2 DEF AsItShould
      <4>5. CASE q.op # "deleteRole"
        <5>1. replies' = replies \cup {p}
          BY <1>3, <4>1, <4>3, <4>5 DEF Effective
        <5>2. Pending(c)' = {p}
          BY <1>1, <1>3, <3>3, <4>2, <4>3, <5>1 DEF Pending
        <5>3. p \notin requests'
          BY <1>1, <1>3, <3>3, <4>2 DEF Pending
        <5> HIDE DEF IInv
        <5> QED
          BY <1>1, <1>3, <4>3, <5>2, <5>3 DEF AsItShould
      <4> QED
        BY <4>4, <4>5
    <3> QED
      BY <3>2, <3>3
  <2> QED
    BY <2>1 DEF InStep
<1> QED
  BY <1>6, <1>7, <1>8, <1>9, <1>10

\* A request gets lost.
LEMMA LoseRequestStep ==
  ASSUME IInv, NEW q \in requests, LoseRequest(q)
  PROVE  IInv'
<1> USE DEF IInv
<1>1. /\ UNCHANGED <<stored, registered, page, model, transit, unchecked, carried, offered, replies,
                     presses, intent>>
      /\ requests' = requests \ {q}
      /\ disturbed' = disturbed \cup (Copies \cap {q.by})
      /\ losses < MaxLosses /\ losses' = losses + 1
  BY DEF LoseRequest, views, fields, registry
<1>2. q.by \in Browsers
  BY DEF TypeOK
<1>3. Copies' = Copies
  BY <1>1 DEF Copies
<1>4. Models'
  BY <1>1 DEF Models
<1>5. Knows'
  BY <1>1, <1>3 DEF Knows
<1>6. TypeOK'
  <2>1. losses' \in 0 .. MaxLosses
    BY <1>1, PagesAssumption DEF TypeOK
  <2>2. TypesElsewhere'
    BY <1>1, <1>2, <1>3, <2>1 DEF TypeOK, TypesElsewhere
  <2> QED
    BY <1>4, <2>2, TypesFollow
<1>7. Letters'
  BY <1>1 DEF Letters, Carries
<1>8. InStep'
  <2>1. ASSUME NEW c \in Copies', c \notin disturbed'
        PROVE  AsItShould(c)'
    <3>1. c \in Copies \ disturbed /\ c # q.by /\ AsItShould(c)
      BY <1>1, <1>3, <2>1 DEF InStep
    <3>2. Pending(c)' = Pending(c) /\ \A r \in Pending(c) : r \in requests' => r \in requests
      BY <1>1, <3>1 DEF Pending
    <3> QED
      BY <1>1, <3>1, <3>2, LeftAlone
  <2> QED
    BY <2>1 DEF InStep
<1> QED
  BY <1>4, <1>5, <1>6, <1>7, <1>8

\* A positive answer comes to its browser.
LEMMA AnsweredStep ==
  ASSUME IInv, NEW p \in replies, Answered(p)
  PROVE  IInv'
<1> USE DEF IInv
<1>1. /\ UNCHANGED <<stored, registered, page, requests, presses, losses, intent>>
      /\ replies' = replies \ {p}
      /\ Reload(p) \/ ResetForm(p) \/ NoEffect(p)
  BY DEF Answered, registry
<1>2. p.by \in Browsers /\ p.op \in Effective
  BY DEF TypeOK, Letters
<1>3. /\ \A c \in Browsers : c # p.by => model'[c] = model[c]
      /\ transit' \subseteq transit
      /\ \/ model'[p.by] = None /\ transit' = transit \ {p.by} /\ page[p.by] # "create"
         \/ model'[p.by] = <<>> /\ page[p.by] = "create" /\ transit' = transit
         \/ model' = model /\ transit' = transit
      /\ model' \in [Browsers -> Seq(Role) \cup {None}]
  <2>1. CASE Reload(p)
    BY <1>2, <2>1 DEF Reload, Reloads, NewModel, Models
  <2>2. CASE ResetForm(p)
    <3>1. <<>> \in Seq(Role)
      BY EmptySeq
    <3> QED
      BY <1>2, <2>2, <3>1 DEF ResetForm, StartsOver, Models
  <2>3. CASE NoEffect(p)
    BY <2>3 DEF NoEffect, Models
  <2> QED
    BY <1>1, <2>1, <2>2, <2>3
<1>4. <<>> # None
  BY EmptySeq, PagesAssumption
<1>5. Copies' \subseteq Copies /\ \A c \in Copies' : model'[c] = model[c]
  BY <1>1, <1>2, <1>3 DEF Copies
<1>6. Models'
  BY <1>1, <1>2, <1>3, <1>4 DEF Models
<1>7. transit' \subseteq Copies'
  BY <1>1, <1>2, <1>3 DEF TypeOK, Copies
<1>8. /\ unchecked' \in [Browsers -> SUBSET Names]
      /\ carried' \in [Browsers -> SUBSET (Nat \X AasIds)]
      /\ offered' \in [Browsers -> SUBSET AasIds]
      /\ disturbed' \subseteq Browsers
  <2>1. CASE Reload(p)
    <3>1. model[p.by] = None \/ (DOMAIN model[p.by] \subseteq Nat /\ Len(model[p.by]) \in Nat)
      <4>1. ASSUME model[p.by] \in Seq(Role)
            PROVE  DOMAIN model[p.by] \subseteq Nat /\ Len(model[p.by]) \in Nat
        BY <4>1, NamesOfRoles
      <4> QED
        BY <1>2, <4>1, ModelOf
    <3>2. carried' = [carried EXCEPT ![p.by] = IF page[p.by] = "single" THEN Kept(p) ELSE @]
      BY <2>1 DEF Reload
    <3>3. page[p.by] = "single" => Kept(p) \in SUBSET (Nat \X AasIds)
      <4>1. CASE p.op = "addRole"
        <5>1. page[p.by] = "single" => p.by \in Pages
          BY <2>1, <4>1 DEF Reload, Reloads
        <5>2. page[p.by] = "single" => model[p.by] # None
          BY <5>1 DEF Pages, Copies
        <5> QED
          BY <3>1, <4>1, <5>2 DEF Kept
      <4>2. CASE p.op # "addRole" /\ p.by \in Pages
        <5>1. model[p.by] # None
          BY <4>2 DEF Pages, Copies
        <5> QED
          BY <3>1, <4>2, <5>1 DEF Kept
      <4>3. CASE p.op # "addRole" /\ p.by \notin Pages
        BY <1>2, <4>3 DEF Kept, TypeOK
      <4> QED
        BY <4>1, <4>2, <4>3
    <3>4. carried' \in [Browsers -> SUBSET (Nat \X AasIds)]
      BY <1>2, <3>2, <3>3 DEF TypeOK
    <3> QED
      BY <1>2, <2>1, <3>4 DEF TypeOK, Reload
  <2>2. CASE ResetForm(p)
    BY <1>2, <2>2 DEF TypeOK, ResetForm, fields
  <2>3. CASE NoEffect(p)
    BY <2>3 DEF TypeOK, NoEffect, fields
  <2> QED
    BY <1>1, <2>1, <2>2, <2>3
<1>9. TypeOK'
  <2>1. TypesElsewhere'
    BY <1>1, <1>7, <1>8 DEF TypeOK, TypesElsewhere
  <2> QED
    BY <1>6, <2>1, TypesFollow
<1>10. Letters'
  BY <1>1 DEF Letters, Carries
<1>11. Knows'
  BY <1>1, <1>5 DEF Knows
<1>12. InStep'
  <2>1. ASSUME NEW c \in Copies', c \notin disturbed'
        PROVE  AsItShould(c)'
    <3>1. c \in Copies /\ c \in Browsers /\ page[c] = "single" /\ model[c] # None /\ model'[c] = model[c]
      BY <1>5, <2>1 DEF Copies
    <3>2. c # p.by
      <4>1. SUFFICES ASSUME c = p.by
                     PROVE  FALSE
        OBVIOUS
      <4>2. NoEffect(p)
        BY <1>1, <1>2, <3>1, <4>1 DEF Reload, ResetForm, StartsOver, Models
      <4>3. AsItShould(c) /\ p \in Pending(c)
        BY <2>1, <3>1, <4>1, <4>2 DEF NoEffect, InStep, Pending
      <4>4. p.op \in {"addRole", "patchRole", "dropMember"} /\ c \in Pages
        BY <1>2, <3>1, <4>3 DEF AsItShould, Effective, Pages
      <4> QED
        BY <3>1, <4>1, <4>2, <4>4 DEF NoEffect, Reloads
    <3>3. c \notin disturbed
      BY <1>1, <2>1, <3>2 DEF Reload, ResetForm, NoEffect
    <3>4. AsItShould(c)
      BY <3>1, <3>3 DEF InStep
    <3>5. Pending(c)' = Pending(c) /\ \A r \in Pending(c) : r \in replies' => r \in replies
      BY <1>1, <3>2 DEF Pending
    <3> QED
      BY <1>1, <1>3, <3>1, <3>4, <3>5, LeftAlone
  <2> QED
    BY <2>1 DEF InStep
<1> QED
  BY <1>6, <1>9, <1>10, <1>11, <1>12

------------------------------------------------------------------------------
(* The theorems *)

\* Nothing is under way at first, and no page has a copy.
LEMMA InitInv == Init => IInv
<1> SUFFICES ASSUME Init
             PROVE  IInv
  OBVIOUS
<1>1. Copies = {}
  BY DEF Init, Copies
<1>2. Models
  BY DEF Init, Models
<1>3. TypeOK
  <2>1. TypesElsewhere
    BY <1>1, PagesAssumption DEF Init, TypesElsewhere, NoIntent, Intent
  <2> QED
    BY <1>2, <2>1, TypesFollow
<1>4. Letters /\ Knows /\ InStep
  BY <1>1 DEF Init, Letters, Knows, InStep
<1> QED
  BY <1>2, <1>3, <1>4 DEF IInv

\* A step that changes nothing keeps the invariant.
LEMMA StutterStep ==
  ASSUME IInv, UNCHANGED vars
  PROVE  IInv'
<1>1. UNCHANGED <<stored, registered, page, model, unchecked, carried, transit, offered, requests,
                  replies, presses, losses, intent, disturbed>>
  BY DEF vars, registry, views, fields, net
<1>2. Copies' = Copies
  BY <1>1 DEF Copies
<1>3. \A c : Pending(c)' = Pending(c)
  BY <1>1 DEF Pending
<1>4. TypeOK'
  BY <1>1, <1>2 DEF IInv, TypeOK
<1>5. Models' /\ Letters' /\ Knows'
  BY <1>1, <1>2 DEF IInv, Models, Letters, Carries, Knows
<1>6. InStep'
  BY <1>1, <1>2, <1>3 DEF IInv, InStep, AsItShould
<1> QED
  BY <1>4, <1>5, <1>6 DEF IInv

\* Every step keeps the invariant.
LEMMA NextInv == IInv /\ [Next]_vars => IInv'
<1> SUFFICES ASSUME IInv, [Next]_vars
             PROVE  IInv'
  OBVIOUS
<1>1. ASSUME NEW b \in Browsers, OpenProtocol(b) \/ OpenForm(b) \/ NavBack(b)
      PROVE  IInv'
  <2>1. PICK p \in {"list", "create", "single"} : Show(b, p)
    BY <1>1 DEF OpenProtocol, OpenForm, NavBack
  <2> QED
    BY <2>1, ShowStep
<1>2. ASSUME NEW b \in Browsers, LoadList(b)
      PROVE  IInv'
  BY <1>2, LoadListStep
<1>3. ASSUME NEW b \in Browsers, ReadProtocol(b)
      PROVE  IInv'
  BY <1>3, ReadProtocolStep
<1>4. ASSUME NEW b \in Browsers, ProtocolArrives(b)
      PROVE  IInv'
  BY <1>4, ProtocolArrivesStep
<1>5. ASSUME NEW b \in Browsers, CreateProtocol(b)
      PROVE  IInv'
  BY <1>5, CreateProtocolStep
<1>6. ASSUME NEW b \in Browsers, DeleteProtocol(b)
      PROVE  IInv'
  BY <1>6, DeleteProtocolStep
<1>7. ASSUME NEW b \in Browsers, NEW n \in Names, AddRole(b, n)
      PROVE  IInv'
  BY <1>7, AddRoleStep
<1>8. ASSUME NEW b \in Browsers, NEW n \in Names, NEW ids \in SUBSET AasIds,
             NEW again \in BOOLEAN, AddRoleToForm(b, n, ids, again)
      PROVE  IInv'
  BY <1>8, AddRoleToFormStep
<1>9. ASSUME NEW b \in Browsers, NEW i, DeleteRole(b, i)
      PROVE  IInv'
  BY <1>9, DeleteRoleStep
<1>10. ASSUME NEW b \in Browsers, NEW i, DeleteRoleFromForm(b, i)
       PROVE  IInv'
  BY <1>10, DeleteRoleFromFormStep
<1>11. ASSUME NEW b \in Browsers, NEW i, NEW a, AddDescriptor(b, i, a)
       PROVE  IInv'
  BY <1>11, AddDescriptorStep
<1>12. ASSUME NEW b \in Browsers, NEW i, NEW a, DeleteDescriptor(b, i, a)
       PROVE  IInv'
  BY <1>12, DeleteDescriptorStep
<1>13. ASSUME NEW b \in Browsers, NEW a, DeleteAas(b, a)
       PROVE  IInv'
  BY <1>13, DeleteAasStep
<1>14. ASSUME NEW q \in requests, LoseRequest(q)
       PROVE  IInv'
  BY <1>14, LoseRequestStep
<1>15. ASSUME NEW q \in requests, NEW arrives \in BOOLEAN, Process(q, arrives)
       PROVE  IInv'
  BY <1>15, ProcessStep
<1>16. ASSUME NEW p \in replies, Answered(p)
       PROVE  IInv'
  BY <1>16, AnsweredStep
<1>17. CASE UNCHANGED vars
  BY <1>17, StutterStep
<1> QED
  BY <1>1, <1>2, <1>3, <1>4, <1>5, <1>6, <1>7, <1>8, <1>9, <1>10, <1>11, <1>12, <1>13, <1>14, <1>15,
     <1>16, <1>17 DEF Next

\* The invariant of the pages holds in every behaviour of module RegistryPages.
THEOREM InvHolds == Spec => []IInv
BY InitInv, NextInv, PTL DEF Spec

\* Every variable has its type, and a copy is on its way only to a page of the
\* protocol that waits for it, however loads, answers and moves between pages
\* interleave.
THEOREM TypesHold == Spec => []TypeOK
<1>1. IInv => TypeOK
  BY DEF IInv
<1> QED
  BY <1>1, InvHolds, PTL

\* A page of a protocol with nothing under way that nobody interfered with
\* shows what the registry holds, whatever its user sent before.
THEOREM PageInStepHolds == Spec => []PageInStep
<1>1. IInv => PageInStep
  BY DEF IInv, InStep, AsItShould, PageInStep, Pages
<1> QED
  BY <1>1, InvHolds, PTL

\* What is under way leaves only when the registry takes it up or when it is lost.
LEMMA TakenUp ==
  ASSUME IInv, Next, NEW q \in requests, q \notin requests'
  PROVE  (\E arrives \in BOOLEAN : Process(q, arrives)) \/ LoseRequest(q)
<1>1. ASSUME NEW b, NEW r, Send(b, r)
      PROVE  q \in requests'
  BY <1>1 DEF Send
<1>2. ASSUME NEW b, OpenProtocol(b) \/ OpenForm(b) \/ NavBack(b) \/ LoadList(b) \/ ReadProtocol(b)
                    \/ ProtocolArrives(b)
      PROVE  q \in requests'
  BY <1>2 DEF OpenProtocol, OpenForm, NavBack, Show, LoadList, ReadProtocol, ProtocolArrives, net
<1>3. ASSUME NEW b, NEW n, NEW ids, NEW again, AddRoleToForm(b, n, ids, again)
      PROVE  q \in requests'
  BY <1>3 DEF AddRoleToForm, net
<1>4. ASSUME NEW b, NEW i, DeleteRoleFromForm(b, i)
      PROVE  q \in requests'
  BY <1>4 DEF DeleteRoleFromForm, net
<1>5. ASSUME NEW b, CreateProtocol(b) \/ DeleteProtocol(b)
      PROVE  q \in requests'
  BY <1>1, <1>5 DEF CreateProtocol, DeleteProtocol
<1>6. ASSUME NEW b, NEW n, AddRole(b, n)
      PROVE  q \in requests'
  BY <1>1, <1>6 DEF AddRole, PutRoles
<1>7. ASSUME NEW b, NEW i, DeleteRole(b, i)
      PROVE  q \in requests'
  BY <1>1, <1>7 DEF DeleteRole, PutRoles
<1>8. ASSUME NEW b, NEW i, NEW a, AddDescriptor(b, i, a) \/ DeleteDescriptor(b, i, a)
      PROVE  q \in requests'
  BY <1>1, <1>8 DEF AddDescriptor, DeleteDescriptor
<1>9. ASSUME NEW b, NEW a, DeleteAas(b, a)
      PROVE  q \in requests'
  BY <1>1, <1>9 DEF DeleteAas
<1>10. ASSUME NEW p \in replies, Answered(p)
       PROVE  q \in requests'
  BY <1>10 DEF Answered
<1>11. ASSUME NEW r \in requests, LoseRequest(r) \/ \E arrives \in BOOLEAN : Process(r, arrives)
       PROVE  q = r
  BY <1>11 DEF LoseRequest, Process
<1> QED
  BY <1>2, <1>3, <1>4, <1>5, <1>6, <1>7, <1>8, <1>9, <1>10, <1>11 DEF Next

\* A role leaves the registry or comes to it only for a reason on the page that
\* sent the request, or because a member is no longer registered: no other way of
\* replacing the roles of a protocol by an edited copy loses a role or brings one back.
THEOREM RolesChangeOnPurposeHolds == Spec => RolesChangeOnPurpose
<1>1. ASSUME IInv, [Next]_vars, NEW q \in requests \ requests'
      PROVE  LET gone == Stored \ Stored'
                 new == Stored' \ Stored
             IN  /\ gone # {} => \/ q.op = "deleteProtocol"
                                 \/ /\ q.op \in Puts
                                    /\ \/ gone \subseteq q.intent.without
                                       \/ q.intent.twice
                                       \/ ~Known(q.roles)
                 /\ new # {} => /\ q.op \in Puts \cup {"create"}
                                /\ new \subseteq q.intent.with
  <2>1. Next
    BY <1>1 DEF vars, net
  <2>2. (\E arrives \in BOOLEAN : Process(q, arrives)) \/ LoseRequest(q)
    BY <1>1, <2>1, TakenUp
  <2>3. CASE LoseRequest(q)
    <3>1. Stored' = Stored
      BY <2>3 DEF LoseRequest, registry, Stored
    <3> QED
      BY <3>1
  <2>4. CASE \E arrives \in BOOLEAN : Process(q, arrives)
    <3>1. stored' = Effect(q)
      BY <2>4 DEF Process
    <3>2. Stored' = NamesOf(Effect(q))
      BY <3>1 DEF Stored, NamesOf
    <3>3. TypeOK /\ q \in requests /\ Carries(q) /\ q.op \in Ops
      BY <1>1 DEF IInv, Letters, TypeOK
    <3>4. Stored \subseteq Names
      BY <3>3, StoredRoles DEF TypeOK
    <3>5. CASE q.op \in Puts
      <4>1. Stored' = IF Saved(q.roles) THEN NamesIn(q.roles) ELSE {}
        BY <3>2, <3>3, <3>5, EffectOf
      <4>2. Names \ NamesIn(q.roles) \subseteq q.intent.without /\ NamesIn(q.roles) \subseteq q.intent.with
        BY <3>3, <3>5 DEF Carries
      <4>3. ~q.intent.twice /\ Known(q.roles) => Saved(q.roles)
        <5>1. ASSUME ~q.intent.twice
              PROVE  Distinct(q.roles) /\ ~Repeats(q.roles)
          BY <3>3, <3>5, <5>1, DistinctNames DEF Carries
        <5> QED
          BY <5>1 DEF Distinct, Saved
      <4> QED
        BY <3>4, <3>5, <4>1, <4>2, <4>3
    <3>6. CASE q.op = "create"
      <4>1. Stored' = Stored \/ (Stored = {} /\ Stored' = NamesIn(q.roles))
        BY <3>2, <3>3, <3>6, EffectOf
      <4>2. NamesIn(q.roles) \subseteq q.intent.with
        BY <3>3, <3>6 DEF Carries
      <4> QED
        BY <3>6, <4>1, <4>2
    <3>7. CASE q.op \in {"patchRole", "dropMember", "deleteAas"}
      <4>1. Stored' = Stored
        BY <3>2, <3>3, <3>7, EffectOf
      <4> QED
        BY <4>1
    <3>8. CASE q.op = "deleteProtocol"
      <4>1. Stored' = {}
        BY <3>2, <3>8 DEF Effect, Puts, NamesOf
      <4> QED
        BY <3>8, <4>1
    <3> QED
      BY <3>3, <3>5, <3>6, <3>7, <3>8 DEF Ops, Puts
  <2> QED
    BY <2>2, <2>3, <2>4
<1>2. IInv /\ [Next]_vars =>
        [\A q \in requests \ requests' :
           LET gone == Stored \ Stored'
               new == Stored' \ Stored
           IN  /\ gone # {} => \/ q.op = "deleteProtocol"
                               \/ /\ q.op \in Puts
                                  /\ \/ gone \subseteq q.intent.without
                                     \/ q.intent.twice
                                     \/ ~Known(q.roles)
               /\ new # {} => /\ q.op \in Puts \cup {"create"}
                              /\ new \subseteq q.intent.with]_vars
  BY <1>1
<1> QED
  BY <1>2, InvHolds, PTL DEF Spec, RolesChangeOnPurpose
=============================================================================
