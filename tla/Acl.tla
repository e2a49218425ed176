--------------------------------- MODULE Acl ---------------------------------
(***************************************************************************)
(* The two interceptors of hw7_microservice/service.go that decide, from   *)
(* the access control list, whether a RPC reaches its handler.  A method   *)
(* name and a pattern are sequences of symbols; the last symbol of a       *)
(* pattern may be Star.                                                    *)
(***************************************************************************)
EXTENDS Naturals, Sequences, SequencesExt

CONSTANTS Symbols,        \* what method names and patterns are made of
          Names,          \* what a "consumer" header may hold
          Known,          \* the consumers of the ACL
          Methods,        \* FullMethod of the calls that are made
          Patterns,       \* the patterns an ACL may list
          MaxPatterns,    \* bound on the patterns of a consumer
          MaxNames,       \* bound on the "consumer" headers of a call
          Star,           \* the symbol "*"
          Rename          \* the symbols ReplaceAll changes, and into what

ASSUME BoundAssumption == MaxPatterns \in Nat /\ MaxNames \in Nat
ASSUME KnownAssumption == Known \subseteq Names
ASSUME PatternsAssumption == Patterns \subseteq Seq(Symbols) /\ Star \in Symbols
ASSUME MethodsAssumption == Methods \subseteq Seq(Symbols)
ASSUME RenameAssumption == \A x \in DOMAIN Rename : Rename[x] \in Symbols

VARIABLES stream,    \* whether the RPC is a stream
          hasMd,     \* whether the context carries metadata
          names,     \* its "consumer" headers
          acl,       \* the patterns of each known consumer
          method,    \* info.FullMethod
          methName,  \* the name the loop compares
          pc,        \* "rewrite", "metadata", "names", "lookup", "scan", "over"
          idx,       \* the pattern the loop looks at
          verdict    \* "none", "handler", "refused" or "panic"

aclVars == <<stream, hasMd, names, acl, method, methName, pc, idx, verdict>>
request == <<stream, hasMd, names, acl, method>>

AclInit ==
  /\ stream \in BOOLEAN
  /\ hasMd \in BOOLEAN
  /\ names \in BoundedSeq(Names, MaxNames)
  /\ acl \in [Known -> BoundedSeq(Patterns, MaxPatterns)]
  /\ method \in Methods
  /\ methName = method
  /\ pc = "rewrite" /\ idx = 1 /\ verdict = "none"

Renamed(m) == [i \in DOMAIN m |-> IF m[i] \in DOMAIN Rename THEN Rename[m[i]] ELSE m[i]]

Decide(v) == pc' = "over" /\ verdict' = v /\ UNCHANGED <<idx, methName, request>>
GoOn(to)  == pc' = to /\ UNCHANGED <<idx, verdict, methName, request>>

\* Faulty: the stream interceptor looks the method up as it is.
RewriteNothing ==
  /\ pc = "rewrite"
  /\ pc' = "metadata"
  /\ UNCHANGED <<idx, verdict, methName, request>>

\* The stream interceptor rewrites the method before anything else.
RewriteMethod ==
  /\ pc = "rewrite"
  /\ methName' = IF stream THEN Renamed(method) ELSE method
  /\ pc' = "metadata"
  /\ UNCHANGED <<idx, verdict, request>>

CheckMetadata ==
  /\ pc = "metadata"
  /\ IF hasMd THEN GoOn("names") ELSE Decide("refused")

\* Faulty: more than one name is let through.
CheckNamesMany ==
  /\ pc = "names"
  /\ IF Len(names) > 0 THEN GoOn("lookup") ELSE Decide("refused")

CheckNames ==
  /\ pc = "names"
  /\ IF Len(names) = 1 THEN GoOn("lookup") ELSE Decide("refused")

LookupConsumer ==
  /\ pc = "lookup"
  /\ IF names[1] \in Known THEN GoOn("scan") ELSE Decide("refused")

\* Faulty: the star is left in the prefix.
PatternMatchesWithStar(p, m) ==
  \/ Last(p) = Star /\ IsPrefix(p, m)
  \/ p = m

\* Faulty: a pattern without a star is not compared.
PatternMatchesStarOnly(p, m) == Last(p) = Star /\ IsPrefix(Front(p), m)

PatternMatches(p, m) ==
  \/ Last(p) = Star /\ IsPrefix(Front(p), m)
  \/ p = m

\* One turn of the loop; the slice of an empty pattern is out of range.
ScanPattern ==
  /\ pc = "scan"
  /\ LET patterns == acl[names[1]]
     IN  \/ /\ idx > Len(patterns)
            /\ Decide("refused")
         \/ /\ idx <= Len(patterns)
            /\ patterns[idx] = << >>
            /\ Decide("panic")
         \/ /\ idx <= Len(patterns)
            /\ patterns[idx] # << >>
            /\ PatternMatches(patterns[idx], methName)
            /\ Decide("handler")
         \/ /\ idx <= Len(patterns)
            /\ patterns[idx] # << >>
            /\ ~PatternMatches(patterns[idx], methName)
            /\ idx' = idx + 1
            /\ UNCHANGED <<pc, verdict, methName, request>>

AclNext == RewriteMethod \/ CheckMetadata \/ CheckNames \/ LookupConsumer \/ ScanPattern

AclSpec == AclInit /\ [][AclNext]_aclVars

-----------------------------------------------------------------------------
(* Properties *)

\* What an ACL entry grants: a method it names, or every extension of the part
\* before a final star.
Grants(p, m) ==
  \/ p = m
  \/ \E k \in 0..Len(m) : p = Append(SubSeq(m, 1, k), Star)

\* The name an ACL has for the method that is called: the streams of AdminManager
\* are listed as those of Admin.
AclName == IF stream THEN Renamed(method) ELSE method

Granted(c) == c \in Known /\ \E i \in DOMAIN acl[c] : Grants(acl[c][i], AclName)

\* The handler runs for a call of exactly one known consumer whose patterns
\* grant the method, and for no other; GenerateEvt may then take names[0].
HandlerOnlyIfGranted ==
  verdict = "handler" => hasMd /\ \E c \in Known : names = <<c>> /\ Granted(c)

\* A call that is refused was not granted: whatever the order of the patterns,
\* the loop's early break misses none.
RefusedOnlyIfNotGranted ==
  verdict = "refused" /\ hasMd /\ Len(names) = 1 => ~Granted(names[1])

\* The interceptor dies only on an empty pattern that stands before every
\* pattern that grants the method.
PanicsOnlyOnEmptyPattern ==
  verdict = "panic" =>
    \E i \in DOMAIN acl[names[1]] :
      acl[names[1]][i] = << >> /\ \A j \in 1..i - 1 : ~Grants(acl[names[1]][j], AclName)
=============================================================================
