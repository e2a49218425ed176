------------------------------ MODULE AclProofs ------------------------------
(***************************************************************************)
(* Theorems about the two interceptors, for any ACL, any headers and any   *)
(* method.  A lemma says that the comparison in the loop is what a pattern *)
(* grants; the invariant, that no pattern the loop has passed grants the   *)
(* method; the theorems are the three properties of Acl.                   *)
(***************************************************************************)
EXTENDS Acl, SequenceTheorems, TLAPS

\* A pattern matches exactly the methods it grants.
LEMMA MatchesGranted ==
  ASSUME NEW p \in Seq(Symbols), NEW m \in Seq(Symbols), p # << >>
  PROVE  PatternMatches(p, m) <=> Grants(p, m)
<1> DEFINE n == Len(p) - 1
<1>1. /\ Len(p) \in Nat \ {0} /\ n \in Nat /\ n + 1 = Len(p) /\ Len(m) \in Nat
  BY EmptySeq, LenProperties
<1>2. Front(p) = SubSeq(p, 1, n) /\ Len(Front(p)) = n /\ \A i \in 1..n : Front(p)[i] = p[i]
  BY <1>1 DEF Front
<1>3. ASSUME Last(p) = Star, IsPrefix(Front(p), m)
      PROVE  n \in 0..Len(m) /\ p = Append(SubSeq(m, 1, n), Star)
  <2>1. n <= Len(m) /\ SubSeq(Front(p), 1, n) = SubSeq(m, 1, n)
    BY <1>2, <1>3 DEF IsPrefix
  <2> DEFINE q == SubSeq(m, 1, n)
  <2>2. q \in Seq(Symbols) /\ Len(q) = n /\ \A i \in 1..n : q[i] = m[i]
    BY <1>1, <2>1
  <2>3. \A i \in 1..n : p[i] = q[i]
    BY <1>1, <1>2, <2>1
  <2> HIDE DEF q, n
  <2>4. p = Append(q, Star)
    BY <1>1, <1>3, <2>2, <2>3, PatternsAssumption DEF Last
  <2> QED BY <1>1, <2>1, <2>4 DEF q
<1>4. ASSUME NEW k \in 0..Len(m), p = Append(SubSeq(m, 1, k), Star)
      PROVE  Last(p) = Star /\ IsPrefix(Front(p), m)
  <2> DEFINE q == SubSeq(m, 1, k)
  <2>1. q \in Seq(Symbols) /\ Len(q) = k /\ \A i \in 1..k : q[i] = m[i]
    BY <1>1
  <2> HIDE DEF q
  <2>2. p = Append(q, Star)
    BY <1>4 DEF q
  <2>3. Len(p) = k + 1 /\ p[k + 1] = Star /\ \A i \in 1..k : p[i] = q[i]
    BY <2>1, <2>2, PatternsAssumption
  <2>4. n = k
    BY <1>1, <2>3
  <2>5. Front(p) \in Seq(Symbols) /\ Len(Front(p)) = k /\ \A i \in 1..k : Front(p)[i] = m[i]
    BY <1>1, <1>2, <2>1, <2>3, <2>4
  <2>6. SubSeq(Front(p), 1, k) = SubSeq(m, 1, k)
    BY <1>1, <2>5
  <2> QED BY <1>1, <2>3, <2>5, <2>6 DEF Last, IsPrefix
<1> QED BY <1>3, <1>4 DEF PatternMatches, Grants

-----------------------------------------------------------------------------
(* The inductive invariant *)

Passed == \A j \in 1..idx - 1 : ~Grants(acl[names[1]][j], methName)

TypeInv ==
  /\ names \in Seq(Names)
  /\ acl \in [Known -> Seq(Patterns)]
  /\ method \in Seq(Symbols)
  /\ methName \in Seq(Symbols)
  /\ idx \in Nat \ {0}

StageInv ==
  /\ pc # "over" => verdict = "none"
  /\ pc # "rewrite" => methName = AclName
  /\ pc \in {"rewrite", "metadata", "names", "lookup"} => idx = 1
  /\ pc \in {"names", "lookup", "scan"} => hasMd = TRUE
  /\ pc \in {"lookup", "scan"} => Len(names) = 1
  /\ pc = "scan" => names[1] \in Known /\ idx - 1 <= Len(acl[names[1]]) /\ Passed

IInv ==
  /\ TypeInv
  /\ StageInv
  /\ HandlerOnlyIfGranted
  /\ RefusedOnlyIfNotGranted
  /\ PanicsOnlyOnEmptyPattern

\* Renaming symbols leaves a method a sequence of symbols.
LEMMA RenamedType ==
  ASSUME NEW m \in Seq(Symbols)
  PROVE  Renamed(m) \in Seq(Symbols)
<1> DEFINE r == [i \in 1..Len(m) |-> IF m[i] \in DOMAIN Rename THEN Rename[m[i]] ELSE m[i]]
<1>1. DOMAIN m = 1..Len(m) /\ Len(m) \in Nat /\ \A i \in 1..Len(m) : m[i] \in Symbols
  BY LenProperties, ElementOfSeq
<1>2. \A i \in 1..Len(m) : r[i] \in Symbols
  BY <1>1, RenameAssumption
<1>3. r \in [1..Len(m) -> Symbols]
  BY <1>2
<1>4. r \in Seq(Symbols)
  <2> HIDE DEF r
  <2> QED BY <1>1, <1>3, SeqDef
<1> QED BY <1>1, <1>4 DEF Renamed

LEMMA InitEstablishesIInv == AclInit => IInv
<1> SUFFICES ASSUME AclInit PROVE IInv
  OBVIOUS
<1>1. \A S, n : n \in Nat => BoundedSeq(S, n) \subseteq Seq(S)
  BY SeqDef DEF BoundedSeq, SeqOf
<1>2. names \in Seq(Names) /\ acl \in [Known -> Seq(Patterns)] /\ method \in Seq(Symbols)
      /\ methName \in Seq(Symbols)
  BY <1>1, BoundAssumption, MethodsAssumption DEF AclInit
<1> QED BY <1>2 DEF AclInit, IInv, TypeInv, StageInv, HandlerOnlyIfGranted,
  RefusedOnlyIfNotGranted, PanicsOnlyOnEmptyPattern

\* A turn of the loop: the pattern it looks at grants the method or not, and it
\* goes on only in the second case.
LEMMA ScanPreservesIInv ==
  ASSUME IInv, ScanPattern
  PROVE  IInv'
<1> DEFINE c == names[1]
           patterns == acl[c]
<1>1. /\ pc = "scan" /\ hasMd = TRUE /\ Len(names) = 1 /\ verdict = "none"
      /\ c \in Known /\ idx - 1 <= Len(patterns) /\ Passed
  BY DEF IInv, StageInv, ScanPattern
<1>2. /\ names \in Seq(Names) /\ acl \in [Known -> Seq(Patterns)]
      /\ method \in Seq(Symbols) /\ methName \in Seq(Symbols) /\ idx \in Nat \ {0}
  BY DEF IInv, TypeInv
<1>3. /\ patterns \in Seq(Patterns) /\ Len(patterns) \in Nat
      /\ DOMAIN patterns = 1..Len(patterns)
      /\ \A j \in 1..Len(patterns) : patterns[j] \in Seq(Symbols)
  <2>1. patterns \in Seq(Patterns)
    BY <1>1, <1>2
  <2> HIDE DEF patterns
  <2> QED BY <2>1, LenProperties, ElementOfSeq, PatternsAssumption
<1>4. names = <<c>>
  BY <1>1, <1>2
<1>5. /\ names' = names /\ acl' = acl /\ hasMd' = hasMd /\ stream' = stream
      /\ method' = method /\ methName' = methName
  BY DEF ScanPattern, Decide, request
<1>5a. AclName = methName /\ AclName' = AclName
  BY <1>1, <1>5 DEF IInv, StageInv, AclName, Renamed
<1>6. idx <= Len(patterns) /\ patterns[idx] # << >> =>
        (PatternMatches(patterns[idx], methName) <=> Grants(patterns[idx], methName))
  BY <1>2, <1>3, MatchesGranted
<1>7. TypeInv'
  BY <1>2, <1>5 DEF TypeInv, ScanPattern, Decide
<1>8. CASE idx > Len(patterns) /\ Decide("refused")
  <2>1. \A j \in 1..Len(patterns) : ~Grants(patterns[j], methName)
    BY <1>1, <1>2, <1>3, <1>8 DEF Passed
  <2>2. ~Granted(c)
    BY <1>3, <1>5a, <2>1 DEF Granted
  <2>3. pc' = "over" /\ verdict' = "refused" /\ ~Granted(c)'
    BY <1>5, <1>8, <1>5a, <2>2 DEF Decide, Granted, Grants
  <2> QED BY <1>5, <1>7, <1>5a, <2>3 DEF IInv, StageInv, HandlerOnlyIfGranted,
             RefusedOnlyIfNotGranted, PanicsOnlyOnEmptyPattern
<1>9. CASE idx <= Len(patterns) /\ patterns[idx] = << >> /\ Decide("panic")
  <2>1. /\ idx \in DOMAIN patterns /\ patterns[idx] = << >>
        /\ \A j \in 1..idx - 1 : ~Grants(patterns[j], methName)
    BY <1>1, <1>2, <1>3, <1>9 DEF Passed
  <2>2. pc' = "over" /\ verdict' = "panic"
    BY <1>9 DEF Decide
  <2>3. PanicsOnlyOnEmptyPattern'
    BY <1>5, <1>5a, <2>1 DEF PanicsOnlyOnEmptyPattern, Grants
  <2> QED BY <1>5, <1>7, <1>5a, <2>2, <2>3
      DEF IInv, StageInv, HandlerOnlyIfGranted, RefusedOnlyIfNotGranted
<1>10. CASE /\ idx <= Len(patterns) /\ patterns[idx] # << >>
            /\ PatternMatches(patterns[idx], methName) /\ Decide("handler")
  <2>1. Granted(c)
    BY <1>1, <1>2, <1>3, <1>6, <1>10, <1>5a DEF Granted
  <2>2. pc' = "over" /\ verdict' = "handler" /\ Granted(c)'
    BY <1>5, <1>10, <1>5a, <2>1 DEF Decide, Granted, Grants
  <2>3. HandlerOnlyIfGranted'
    BY <1>1, <1>4, <1>5, <2>2 DEF HandlerOnlyIfGranted
  <2> QED BY <1>5, <1>7, <1>5a, <2>2, <2>3
      DEF IInv, StageInv, RefusedOnlyIfNotGranted, PanicsOnlyOnEmptyPattern
<1>11. CASE /\ idx <= Len(patterns) /\ patterns[idx] # << >>
            /\ ~PatternMatches(patterns[idx], methName) /\ idx' = idx + 1
            /\ UNCHANGED <<pc, verdict, methName, request>>
  <2>1. ~Grants(patterns[idx], methName)
    BY <1>6, <1>11
  <2>2. \A j \in 1..idx : ~Grants(patterns[j], methName)
    BY <1>1, <1>2, <2>1 DEF Passed
  <2>3. Passed'
    BY <1>2, <1>5, <1>11, <2>2 DEF Passed, Grants
  <2>4. StageInv'
    BY <1>1, <1>2, <1>3, <1>5, <1>11, <1>5a, <2>3 DEF StageInv
  <2>5. (verdict = "none")'
    BY <1>1, <1>11
  <2>6. (HandlerOnlyIfGranted /\ RefusedOnlyIfNotGranted /\ PanicsOnlyOnEmptyPattern)'
    BY <2>5 DEF HandlerOnlyIfGranted, RefusedOnlyIfNotGranted, PanicsOnlyOnEmptyPattern
  <2> QED BY <1>7, <2>4, <2>6 DEF IInv
<1> QED BY <1>8, <1>9, <1>10, <1>11 DEF ScanPattern

LEMMA NextPreservesIInv == IInv /\ [AclNext]_aclVars => IInv'
<1> SUFFICES ASSUME IInv, [AclNext]_aclVars PROVE IInv'
  OBVIOUS
<1>0. AclName' = AclName
  BY DEF AclNext, RewriteMethod, CheckMetadata, CheckNames, LookupConsumer, ScanPattern, Decide,
         GoOn, request, aclVars, AclName, Renamed
<1> USE <1>0 DEF IInv, TypeInv, StageInv, HandlerOnlyIfGranted, RefusedOnlyIfNotGranted,
            PanicsOnlyOnEmptyPattern
<1>1. CASE RewriteMethod
  BY <1>1, RenamedType DEF RewriteMethod, request, AclName
<1>2. CASE CheckMetadata
  BY <1>2 DEF CheckMetadata, GoOn, Decide, request
<1>3. CASE CheckNames
  BY <1>3 DEF CheckNames, GoOn, Decide, request
<1>4. CASE LookupConsumer
  <2>1. CASE names[1] \in Known
    <3>1. acl[names[1]] \in Seq(Patterns)
      BY <2>1
    <3>2. Len(acl[names[1]]) \in Nat
      BY <3>1, LenProperties
    <3> QED BY <1>4, <2>1, <3>2 DEF LookupConsumer, GoOn, request, Passed
  <2>2. CASE names[1] \notin Known
    BY <1>4, <2>2 DEF LookupConsumer, Decide, request, Granted
  <2> QED BY <2>1, <2>2
<1>5. CASE ScanPattern
  <2> HIDE DEF IInv
  <2> QED BY <1>5, ScanPreservesIInv
<1>6. CASE UNCHANGED aclVars
  <2>1. TypeInv' /\ StageInv'
    BY <1>6 DEF aclVars, Passed, Grants
  <2>2. HandlerOnlyIfGranted'
    BY <1>6 DEF aclVars, Granted, Grants
  <2>3. RefusedOnlyIfNotGranted' /\ PanicsOnlyOnEmptyPattern'
    BY <1>6 DEF aclVars, Granted, Grants
  <2> QED BY <2>1, <2>2, <2>3
<1> QED BY <1>1, <1>2, <1>3, <1>4, <1>5, <1>6 DEF AclNext

LEMMA Invariance == AclSpec => []IInv
<1> QED BY InitEstablishesIInv, NextPreservesIInv, PTL DEF AclSpec

-----------------------------------------------------------------------------
(* The theorems *)

\* The interceptors (service.go:26-133) let a call through to its handler only
\* when it names exactly one known consumer and one of the consumer's patterns
\* grants the method, however long the list and whatever the method.
THEOREM HandlersAreGuarded == AclSpec => []HandlerOnlyIfGranted
<1>1. IInv => HandlerOnlyIfGranted
  BY DEF IInv
<1> QED BY <1>1, Invariance, PTL

\* The interceptors refuse no call of one consumer that a pattern grants: the
\* break out of the loop of patterns misses none (service.go:53-67 and 107-121).
THEOREM GrantedIsNotRefused == AclSpec => []RefusedOnlyIfNotGranted
<1>1. IInv => RefusedOnlyIfNotGranted
  BY DEF IInv
<1> QED BY <1>1, Invariance, PTL

\* The slice pattern[:len-1] of the interceptors is out of range only for an
\* empty pattern, and only if no pattern before it grants the method.
THEOREM PanicsAreExplained == AclSpec => []PanicsOnlyOnEmptyPattern
<1>1. IInv => PanicsOnlyOnEmptyPattern
  BY DEF IInv
<1> QED BY <1>1, Invariance, PTL
=============================================================================
