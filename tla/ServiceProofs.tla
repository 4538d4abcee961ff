--------------------------- MODULE ServiceProofs ---------------------------
(***************************************************************************)
(* What the service does beside the packets, for any number of requests,   *)
(* sources, consumers, schema steps and releases: the schema at the start, *)
(* the cached answers, the update check, and what MCService says of the    *)
(* last two parts together.                                                *)
(***************************************************************************)
EXTENDS MCService, SequenceTheorems, TLAPS

----------------------------------------------------------------------------
(* The schema.  SchemaWhole alone is not inductive: it says nothing of a   *)
(* runner between its statements.  What it read must still be true when it *)
(* acts on it, which RunnerAgrees adds: nobody else writes the file while  *)
(* it runs.                                                                *)


SchemaTypeOK ==
    /\ userVersion \in 0..LastStep
    /\ applied \in [1..LastStep -> Nat]
    /\ runner \in [at : {"down", "look", "mark", "steps", "serving"},
                   target : 0..LastStep, version : 0..LastStep]
    /\ starts \in Nat

\* A runner that looks for tables or marks the file found it without a version, one that marks
\* it found the tables of the first step, and one that goes through the steps has the version
\* of the file and finds the first step undone if that is 0.
RunnerAgrees ==
    /\ runner.at \in {"look", "mark"} => userVersion = 0 /\ runner.version = 0
    /\ runner.at = "mark" => applied[1] = 1
    /\ runner.at = "steps" => runner.version = userVersion /\ (userVersion = 0 => applied[1] = 0)
    /\ runner.at = "serving" => userVersion >= runner.target

SchemaInv == SchemaTypeOK /\ SchemaWhole /\ RunnerAgrees

\* The databases the first start may find: of any version, or from before versions were kept.
LEMMA SchemaStarts == SchemaInit => SchemaInv
<1>1. SUFFICES ASSUME SchemaInit PROVE SchemaInv
  OBVIOUS
<1>2. runner = Down /\ starts = 0
  BY <1>1 DEF SchemaInit
<1>3. userVersion \in 0..LastStep /\ applied \in [1..LastStep -> Nat]
  BY <1>1, MigrationsAssumption DEF SchemaInit
<1>4. SchemaTypeOK
  BY <1>2, <1>3, MigrationsAssumption DEF SchemaTypeOK, Down
<1>5. SchemaWhole
  BY <1>1, <1>2, MigrationsAssumption DEF SchemaInit, SchemaWhole, Down
<1>6. RunnerAgrees
  BY <1>2 DEF RunnerAgrees, Down
<1> QED
  BY <1>4, <1>5, <1>6 DEF SchemaInv

\* Every statement of the runner, and a stop between any two, keeps the invariant.
LEMMA SchemaGoesOn == SchemaInv /\ [SchemaNext]_schemaVars => SchemaInv'
<1> USE MigrationsAssumption
<1>1. SUFFICES ASSUME SchemaInv, [SchemaNext]_schemaVars PROVE SchemaInv'
  OBVIOUS
<1> USE <1>1 DEF SchemaInv
<1>2. ASSUME NEW target \in 1..LastStep, ReadSchemaVersion(target) PROVE SchemaInv'
  <2>1. SchemaTypeOK'
    BY <1>2 DEF ReadSchemaVersion, SchemaTypeOK
  <2>2. SchemaWhole' /\ RunnerAgrees'
    BY <1>2 DEF ReadSchemaVersion, SchemaTypeOK, SchemaWhole, RunnerAgrees
  <2> QED
    BY <2>1, <2>2
<1>3. CASE LookForNodes
  <2>1. SchemaTypeOK'
    BY <1>3 DEF LookForNodes, SchemaTypeOK
  <2>2. applied[1] \in {0, 1} /\ (HasNodes <=> applied[1] = 1)
    BY DEF SchemaTypeOK, SchemaWhole, HasNodes
  <2>3. userVersion = 0 /\ runner.version = 0
    BY <1>3 DEF LookForNodes, RunnerAgrees, SchemaTypeOK
  <2>4. SchemaWhole' /\ RunnerAgrees'
    BY <1>3, <2>2, <2>3 DEF LookForNodes, SchemaTypeOK, SchemaWhole, RunnerAgrees
  <2> QED
    BY <2>1, <2>4
<1>4. CASE MarkFirst
  <2>0. 1 \in 0..LastStep
    OBVIOUS
  <2>1. SchemaTypeOK'
    <3>1. userVersion' = 1 /\ UNCHANGED <<applied, starts>>
      BY <1>4 DEF MarkFirst
    <3>2. runner' = [runner EXCEPT !.at = "steps", !.version = 1]
      BY <1>4 DEF MarkFirst
    <3>3. runner' \in [at : {"down", "look", "mark", "steps", "serving"},
                       target : 0..LastStep, version : 0..LastStep]
      BY <2>0, <3>2 DEF SchemaTypeOK
    <3> QED
      BY <2>0, <3>1, <3>3 DEF SchemaTypeOK
  <2>2. SchemaWhole' /\ RunnerAgrees'
    BY <1>4 DEF MarkFirst, SchemaTypeOK, SchemaWhole, RunnerAgrees
  <2> QED
    BY <2>1, <2>2
<1>5. CASE ApplyMigration
  <2>1. SchemaTypeOK'
    BY <1>5 DEF ApplyMigration, SchemaTypeOK
  <2>2. applied[userVersion + 1] = 0 /\ userVersion < LastStep
    BY <1>5 DEF ApplyMigration, SchemaTypeOK, SchemaWhole, RunnerAgrees
  <2>3. SchemaWhole' /\ RunnerAgrees'
    BY <1>5, <2>2 DEF ApplyMigration, SchemaTypeOK, SchemaWhole, RunnerAgrees
  <2> QED
    BY <2>1, <2>3
<1>6. CASE Serve
  <2>1. SchemaTypeOK'
    BY <1>6 DEF Serve, SchemaTypeOK
  <2>2. SchemaWhole' /\ RunnerAgrees'
    BY <1>6 DEF Serve, SchemaTypeOK, SchemaWhole, RunnerAgrees
  <2> QED
    BY <2>1, <2>2
<1>7. CASE StopProcess
  BY <1>7 DEF StopProcess, Down, SchemaTypeOK, SchemaWhole, RunnerAgrees
<1>8. CASE UNCHANGED schemaVars
  BY <1>8 DEF schemaVars, SchemaTypeOK, SchemaWhole, RunnerAgrees
<1> QED
  BY <1>1, <1>2, <1>3, <1>4, <1>5, <1>6, <1>7, <1>8 DEF SchemaNext

\* Wherever the process stops while the schema is brought up to date, and whichever release is
\* started next, no step is applied twice or left out (runner.go:48).
THEOREM SchemaStaysWhole == SchemaSpec => []SchemaWhole
<1>1. SchemaInv => SchemaWhole
  BY DEF SchemaInv
<1> QED
  BY <1>1, SchemaStarts, SchemaGoesOn, PTL DEF SchemaSpec

----------------------------------------------------------------------------
(* The cached answers.  Whoever fills a cache, what is in it is right: the *)
(* links of the slot are those of its key, and a period ends at a boundary *)
(* of its buckets.  From that on both properties are about one request.    *)

\* Mutual positions of an instant and the boundaries of the buckets.
LEMMA AlignIsBoundary ==
    ASSUME NEW now \in Nat, NEW bucket \in Nat \ {0}
    PROVE  /\ now \div bucket \in Nat
           /\ Align(now, bucket) \in Nat
           /\ Align(now, bucket) <= now
           /\ now < Align(now, bucket) + bucket
<1>1. now \div bucket \in Nat
  OBVIOUS
<1>2. (now \div bucket) * bucket \in Nat
  BY <1>1
<1>3. /\ (now \div bucket) * bucket <= now
      /\ now < (now \div bucket) * bucket + bucket
  OBVIOUS
<1> QED
  BY <1>1, <1>2, <1>3 DEF Align

\* A bucket that ends after an instant, with the one before it, holds its boundary.
LEMMA BoundaryBefore ==
    ASSUME NEW now \in Nat, NEW bucket \in Nat \ {0}, NEW k \in Nat,
           now < k * bucket + bucket
    PROVE  Align(now, bucket) <= k * bucket
<1>1. PICK q \in Nat : q = now \div bucket
  BY AlignIsBoundary
<1>2. q * bucket <= now /\ Align(now, bucket) = q * bucket
  BY <1>1, AlignIsBoundary DEF Align
<1>3. CASE q <= k
  <2>1. PICK d \in Nat : k = q + d
    BY <1>3
  <2>2. k * bucket = q * bucket + d * bucket /\ d * bucket \in Nat
    BY <2>1
  <2> QED
    BY <1>2, <2>2
<1>4. CASE q > k
  <2>1. PICK d \in Nat : q = k + 1 + d
    <3>1. q - k - 1 \in Nat /\ q = k + 1 + (q - k - 1)
      BY <1>4
    <3> QED
      BY <3>1
  <2>2. q * bucket = k * bucket + bucket + d * bucket /\ d * bucket \in Nat
    BY <2>1
  <2> QED
    BY <1>2, <2>2
<1> QED
  BY <1>3, <1>4

\* The points of a request about the links.
LinkPoints == {"links", "look up links", "query links", "fill links"}

\* A request remembers only what answers its own question.
AskedRight(a) ==
    /\ asked[a].now \in Nat
    /\ asked[a].at \in LinkPoints \cup {"none"} => asked[a].ends = <<>>
    /\ asked[a].at = "fill links" => asked[a].links = asked[a].key
    /\ asked[a].at \in {"period", "query period", "fill period"} =>
          /\ asked[a].links = asked[a].key
          /\ asked[a].ends \in Seq(Int) /\ Len(asked[a].ends) < Len(Bucket)
          /\ \A p \in 1..Len(asked[a].ends) : asked[a].ends[p] >= Align(asked[a].now, Bucket[p])

Questions == [at : LinkPoints \cup {"none", "period", "query period", "fill period"},
              key : [filter : LinkFilters \cup {NoKey.filter}, since : Int], now : Nat,
              links : [filter : LinkFilters \cup {NoKey.filter}, since : Int], ends : Seq(Int)]

IsBoundary(p, end) == \E k \in Nat : end = k * Bucket[p]

CachesRight ==
    /\ instant \in Nat /\ clockSetbacks \in Nat
    /\ asked \in [Askers -> Questions]
    /\ linksSlot.links = linksSlot.key
    /\ linksSlot.key \in [filter : LinkFilters \cup {NoKey.filter}, since : Int]
    /\ periodCache \in [Periods -> Int]
    /\ \A p \in Periods : periodCache[p] # NoEnd => IsBoundary(p, periodCache[p])
    /\ \A a \in Askers : AskedRight(a)

ResponsesInv == CachesRight /\ AnswersFit

\* There are two periods, and a bucket has a length.
LEMMA BucketsAre ==
    /\ Periods = {1, 2} /\ Len(Bucket) = 2
    /\ \A p \in Periods : Bucket[p] \in Nat \ {0}
BY ResponsesAssumption DEF Periods, Bucket

\* What is put into the cache of a period is a boundary no younger one is replaced with.
LEMMA AlignedEnd ==
    ASSUME NEW now \in Nat, NEW p \in Periods
    PROVE  Align(now, Bucket[p]) \in Nat /\ IsBoundary(p, Align(now, Bucket[p]))
BY BucketsAre, AlignIsBoundary DEF Align, IsBoundary

\* A period that is cached has all the buckets that were complete at the instant.
LEMMA CachedIsComplete ==
    ASSUME CachesRight, NEW p \in Periods, NEW now \in Nat, PeriodCached(p, now)
    PROVE  periodCache[p] >= Align(now, Bucket[p])
<1>1. PICK k \in Nat : periodCache[p] = k * Bucket[p]
  BY DEF CachesRight, PeriodCached, IsBoundary
<1>2. now < k * Bucket[p] + Bucket[p]
  BY <1>1 DEF PeriodCached
<1>3. Align(now, Bucket[p]) <= k * Bucket[p]
  BY <1>2, BucketsAre, BoundaryBefore
<1>4. k * Bucket[p] \in Nat /\ Align(now, Bucket[p]) \in Nat
  BY BucketsAre, AlignedEnd
<1> QED
  BY <1>1, <1>3, <1>4

\* A period that is replaced is an older one.
LEMMA ReplacedIsOlder ==
    ASSUME CachesRight, NEW p \in Periods, NEW now \in Nat, ~PeriodCached(p, now)
    PROVE  Align(now, Bucket[p]) >= periodCache[p]
<1>1. Align(now, Bucket[p]) \in Nat /\ now < Align(now, Bucket[p]) + Bucket[p]
      /\ Bucket[p] \in Nat /\ periodCache[p] \in Int
  BY BucketsAre, AlignIsBoundary DEF CachesRight
<1>2. CASE periodCache[p] = NoEnd
  BY <1>1, <1>2 DEF NoEnd
<1>3. CASE now >= periodCache[p] + Bucket[p]
  BY <1>1, <1>3
<1> QED
  BY <1>1, <1>2, <1>3 DEF PeriodCached

LinkKeys == [filter : LinkFilters \cup {NoKey.filter}, since : Int]

\* A request that is answered, or gives up, leaves the others as they are.
LEMMA AskedAndTold ==
    ASSUME CachesRight, NEW a \in Askers, NEW question \in Questions, NEW answer,
           \/ GoOn(a, question) /\ answer = NoQuestion
           \/ Tell(a, answer) /\ question = NoQuestion
    PROVE  /\ asked' \in [Askers -> Questions]
           /\ asked'[a] = question
           /\ \A b \in Askers \ {a} : asked'[b] = asked[b] /\ AskedRight(b)'
           /\ told' = answer
<1>1. asked' = [asked EXCEPT ![a] = question] /\ told' = answer
  BY DEF GoOn, Tell
<1>2. \A b \in Askers \ {a} : asked'[b] = asked[b]
  BY <1>1
<1> QED
  BY <1>1, <1>2 DEF CachesRight, AskedRight

\* What stands for no request at all.
LEMMA NobodyAsks ==
    /\ NoQuestion \in Questions /\ NoQuestion.at = "none" /\ NoQuestion.ends = <<>>
    /\ NoQuestion.now = 0 /\ NoQuestion.key = NoQuestion.links /\ NoKey \in LinkKeys
BY DEF NoQuestion, Questions, NoKey, LinkKeys, LinkPoints

\* The steps of a request about the links.
LEMMA LinksStep ==
    ASSUME ResponsesInv, NEW a \in Askers, UNCHANGED <<instant, clockSetbacks>>,
           \/ \E filter \in LinkFilters : AskLinks(a, filter)
           \/ ReadClock(a) \/ LookUpLinks(a) \/ QueryLinks(a) \/ FillLinks(a)
    PROVE  ResponsesInv' /\ UNCHANGED periodCache
<1>1. /\ asked \in [Askers -> Questions] /\ asked[a] \in Questions /\ AskedRight(a)
      /\ instant \in Nat /\ CachesRight
      /\ linksSlot.links = linksSlot.key /\ linksSlot.key \in LinkKeys
  BY DEF ResponsesInv, CachesRight, LinkKeys
<1>2. UNCHANGED periodCache
  BY DEF AskLinks, ReadClock, LookUpLinks, QueryLinks, FillLinks
<1>3. ASSUME NEW question \in Questions, GoOn(a, question), AskedRight(a)', UNCHANGED linksSlot
      PROVE  ResponsesInv'
  <2>1. /\ asked' \in [Askers -> Questions] /\ told' = NoQuestion
        /\ \A b \in Askers \ {a} : AskedRight(b)'
    BY <1>1, <1>3, AskedAndTold
  <2>2. AnswersFit'
    BY <2>1, NobodyAsks DEF AnswersFit
  <2>3. CachesRight'
    BY <1>1, <1>2, <1>3, <2>1 DEF CachesRight
  <2> QED
    BY <2>2, <2>3 DEF ResponsesInv
<1>4. ASSUME NEW links, TellLinks(a, links), links = asked[a].key, asked[a].ends = <<>>,
             linksSlot'.links = linksSlot'.key, linksSlot'.key \in LinkKeys
      PROVE  ResponsesInv'
  <2>1. PICK answer : answer = [asked[a] EXCEPT !.at = "told", !.links = links]
    OBVIOUS
  <2>2. /\ asked' \in [Askers -> Questions] /\ told' = answer /\ asked'[a] = NoQuestion
        /\ \A b \in Askers \ {a} : AskedRight(b)'
    BY <1>1, <1>4, <2>1, NobodyAsks, AskedAndTold DEF TellLinks
  <2>3. answer.links = answer.key /\ answer.ends = <<>>
    BY <1>1, <1>4, <2>1 DEF Questions
  <2>4. AnswersFit'
    BY <2>2, <2>3 DEF AnswersFit
  <2>5. AskedRight(a)'
    <3>1. asked'[a].at = "none" /\ asked'[a].ends = <<>> /\ asked'[a].now = 0
      BY <2>2, NobodyAsks
    <3> QED
      BY <3>1 DEF AskedRight, LinkPoints
  <2>6. CachesRight'
    BY <1>1, <1>2, <1>4, <2>2, <2>5 DEF CachesRight, LinkKeys
  <2> QED
    BY <2>4, <2>6 DEF ResponsesInv
<1>5. ASSUME NEW question \in Questions, GoOn(a, question), UNCHANGED linksSlot,
             question.at \in LinkPoints \cup {"none"}, question.ends = <<>>,
             question.at = "fill links" => question.links = question.key
      PROVE  ResponsesInv'
  <2>1. asked'[a] = question
    BY <1>1, <1>5, AskedAndTold
  <2>2. AskedRight(a)'
    BY <1>5, <2>1 DEF AskedRight, Questions, LinkPoints
  <2> QED
    BY <1>3, <1>5, <2>2
<1>6. ASSUME NEW filter \in LinkFilters, AskLinks(a, filter)
      PROVE  ResponsesInv'
  <2>1. PICK question : question = [NoQuestion EXCEPT !.at = "links", !.key = LinksKey(filter)]
    OBVIOUS
  <2>2. /\ question \in Questions /\ question.at = "links" /\ question.ends = <<>>
    <3>1. LinksKey(filter) \in [filter : LinkFilters \cup {NoKey.filter}, since : Int]
      <4>1. filter \in LinkFilters \cup {NoKey.filter} /\ instant \in Int
        BY <1>1, <1>6
      <4> QED
        BY <4>1 DEF LinksKey
    <3> QED
      BY <2>1, <3>1, NobodyAsks DEF Questions, LinkPoints
  <2> QED
    BY <1>5, <1>6, <2>1, <2>2 DEF AskLinks, LinkPoints
<1>7. CASE ReadClock(a)
  <2>1. PICK question : question = [asked[a] EXCEPT !.at = "look up links", !.now = instant]
    OBVIOUS
  <2>2. /\ question \in Questions /\ question.at = "look up links" /\ question.ends = <<>>
    BY <1>1, <1>7, <2>1 DEF Questions, ReadClock, LinkPoints, AskedRight
  <2> QED
    BY <1>5, <1>7, <2>1, <2>2 DEF ReadClock, LinkPoints
<1>8. CASE LookUpLinks(a)
  <2>1. asked[a].ends = <<>> /\ UNCHANGED linksSlot
    BY <1>1, <1>8 DEF LookUpLinks, AskedRight, LinkPoints
  <2>2. CASE LinksCached(asked[a].key, asked[a].now)
    <3>1. TellLinks(a, linksSlot.links) /\ linksSlot.links = asked[a].key
      BY <1>1, <1>8, <2>2 DEF LookUpLinks, LinksCached
    <3> QED
      BY <1>1, <1>2, <1>4, <2>1, <3>1
  <2>3. CASE ~LinksCached(asked[a].key, asked[a].now)
    <3>1. PICK question : question = [asked[a] EXCEPT !.at = "query links"]
      OBVIOUS
    <3>2. /\ question \in Questions /\ question.at = "query links" /\ question.ends = <<>>
      BY <1>1, <2>1, <3>1 DEF Questions, LinkPoints
    <3> QED
      BY <1>5, <1>8, <2>1, <2>3, <3>1, <3>2 DEF LookUpLinks, LinkPoints
  <2> QED
    BY <2>2, <2>3
<1>9. CASE QueryLinks(a)
  <2>1. asked[a].ends = <<>> /\ UNCHANGED linksSlot
    BY <1>1, <1>9 DEF QueryLinks, AskedRight, LinkPoints
  <2>2. CASE GoOn(a, NoQuestion)
    BY <1>2, <1>5, <2>1, <2>2, NobodyAsks
  <2>3. CASE GoOn(a, [asked[a] EXCEPT !.at = "fill links", !.links = asked[a].key])
    <3>1. PICK question : question = [asked[a] EXCEPT !.at = "fill links", !.links = asked[a].key]
      OBVIOUS
    <3>2. /\ question \in Questions /\ question.at = "fill links" /\ question.ends = <<>>
          /\ question.links = question.key
      BY <1>1, <2>1, <3>1 DEF Questions, LinkPoints
    <3> QED
      BY <1>2, <1>5, <2>1, <2>3, <3>1, <3>2 DEF LinkPoints
  <2> QED
    BY <1>9, <2>2, <2>3 DEF QueryLinks
<1>10. CASE FillLinks(a)
  <2>1. asked[a].ends = <<>> /\ asked[a].links = asked[a].key /\ asked[a].key \in LinkKeys
    BY <1>1, <1>10 DEF FillLinks, AskedRight, LinkPoints, Questions, LinkKeys
  <2>2. CASE LinksCached(asked[a].key, asked[a].now)
    <3>1. /\ TellLinks(a, linksSlot.links) /\ UNCHANGED linksSlot
          /\ linksSlot.links = asked[a].key
      BY <1>1, <1>10, <2>2 DEF FillLinks, LinksCached
    <3> QED
      BY <1>1, <1>2, <1>4, <2>1, <3>1
  <2>3. CASE ~LinksCached(asked[a].key, asked[a].now)
    <3>1. /\ TellLinks(a, asked[a].links)
          /\ linksSlot' = [key |-> asked[a].key, links |-> asked[a].links,
                           expiresAt |-> asked[a].now + LinksTTL]
      BY <1>10, <2>3 DEF FillLinks
    <3>2. linksSlot'.key = asked[a].key /\ linksSlot'.links = asked[a].links
      BY <3>1
    <3> QED
      BY <1>2, <1>4, <2>1, <3>1, <3>2
  <2> QED
    BY <2>2, <2>3
<1> QED
  BY <1>2, <1>6, <1>7, <1>8, <1>9, <1>10

PeriodPoints == {"period", "query period", "fill period"}

\* What is told of a period has its place among the ends, and fits when the request came.
LEMMA PeriodTold ==
    ASSUME ResponsesInv, NEW a \in Askers, asked[a].at \in PeriodPoints, NEW end \in Int,
           end >= Align(asked[a].now, Bucket[DuePeriod(a)]), TellPeriod(a, end)
    PROVE  asked' \in [Askers -> Questions] /\ (\A b \in Askers : AskedRight(b)') /\ AnswersFit'
<1>1. /\ asked[a] \in Questions /\ AskedRight(a) /\ CachesRight
      /\ asked[a].now \in Nat /\ asked[a].links = asked[a].key
      /\ asked[a].ends \in Seq(Int) /\ Len(asked[a].ends) \in {0, 1}
      /\ \A p \in 1..Len(asked[a].ends) : asked[a].ends[p] >= Align(asked[a].now, Bucket[p])
  <2>1. asked[a] \in Questions /\ AskedRight(a) /\ CachesRight
    BY DEF ResponsesInv, CachesRight
  <2>2. /\ asked[a].now \in Nat /\ asked[a].links = asked[a].key
        /\ asked[a].ends \in Seq(Int) /\ Len(asked[a].ends) < Len(Bucket)
        /\ \A p \in 1..Len(asked[a].ends) : asked[a].ends[p] >= Align(asked[a].now, Bucket[p])
    BY <2>1 DEF AskedRight, PeriodPoints
  <2>3. Len(asked[a].ends) \in Nat /\ Len(Bucket) = 2
    BY <2>2, BucketsAre
  <2>4. PICK n \in Nat : n = Len(asked[a].ends)
    BY <2>3
  <2>5. n < 2
    BY <2>2, <2>3, <2>4
  <2>6. n \in {0, 1}
    BY <2>5
  <2> QED
    BY <2>1, <2>2, <2>4, <2>6
<1>2. PICK ends : ends = Append(asked[a].ends, end)
  OBVIOUS
<1>3. /\ ends \in Seq(Int) /\ Len(ends) = Len(asked[a].ends) + 1 /\ DOMAIN ends = 1..Len(ends)
      /\ \A p \in 1..Len(ends) : ends[p] >= Align(asked[a].now, Bucket[p])
  <2>1. /\ ends \in Seq(Int) /\ Len(ends) = Len(asked[a].ends) + 1
        /\ \A p \in 1..Len(asked[a].ends) : ends[p] = asked[a].ends[p]
        /\ ends[Len(asked[a].ends) + 1] = end
    BY <1>1, <1>2
  <2>2. ASSUME NEW p \in 1..Len(ends)
        PROVE  ends[p] >= Align(asked[a].now, Bucket[p])
    <3>1. CASE p \in 1..Len(asked[a].ends)
      BY <1>1, <2>1, <3>1
    <3>2. CASE p = Len(asked[a].ends) + 1
      BY <2>1, <3>2 DEF DuePeriod
    <3> QED
      BY <1>1, <2>1, <2>2, <3>1, <3>2
  <2> QED
    BY <2>1, <2>2
<1>4. PICK answer : answer = [asked[a] EXCEPT !.at = "told", !.ends = ends]
  OBVIOUS
<1>5. /\ answer.key = asked[a].key /\ answer.links = asked[a].links /\ answer.now = asked[a].now
      /\ answer.ends = ends
  BY <1>1, <1>4 DEF Questions
<1>6. IF DuePeriod(a) = Len(Bucket) THEN Tell(a, answer)
      ELSE GoOn(a, [answer EXCEPT !.at = "period"])
  BY <1>2, <1>4 DEF TellPeriod
<1>7. CASE DuePeriod(a) = Len(Bucket)
  <2>1. /\ asked' \in [Askers -> Questions] /\ told' = answer /\ asked'[a] = NoQuestion
        /\ \A b \in Askers \ {a} : AskedRight(b)'
    BY <1>1, <1>6, <1>7, NobodyAsks, AskedAndTold
  <2>2. AskedRight(a)'
    <3>1. asked'[a].at = "none" /\ asked'[a].ends = <<>> /\ asked'[a].now = 0
      BY <2>1, NobodyAsks
    <3> QED
      BY <3>1 DEF AskedRight, LinkPoints
  <2>3. AnswersFit'
    BY <1>1, <1>3, <1>5, <2>1 DEF AnswersFit
  <2> QED
    BY <2>1, <2>2, <2>3
<1>8. CASE DuePeriod(a) # Len(Bucket)
  <2>1. PICK question : question = [answer EXCEPT !.at = "period"]
    OBVIOUS
  <2>2. /\ question \in Questions /\ question.at = "period" /\ question.ends = ends
        /\ question.now = asked[a].now /\ question.links = question.key
    BY <1>1, <1>3, <1>4, <2>1 DEF Questions
  <2>3. /\ asked' \in [Askers -> Questions] /\ told' = NoQuestion /\ asked'[a] = question
        /\ \A b \in Askers \ {a} : AskedRight(b)'
    BY <1>1, <1>6, <1>8, <2>1, <2>2, AskedAndTold
  <2>4. Len(ends) < Len(Bucket)
    <3>1. PICK n \in {0, 1} : n = Len(asked[a].ends)
      BY <1>1
    <3>2. n + 1 # 2
      BY <1>8, <3>1, BucketsAre DEF DuePeriod
    <3>3. n = 0
      <4>1. n # 1
        BY <3>2
      <4>2. n = 0 \/ n = 1
        BY <3>1
      <4> QED
        BY <4>1, <4>2
    <3>4. Len(ends) = 1
      BY <1>3, <3>1, <3>3
    <3> QED
      BY <3>4, BucketsAre
  <2>5. AskedRight(a)'
    BY <1>1, <1>3, <2>2, <2>3, <2>4 DEF AskedRight, LinkPoints
  <2>6. AnswersFit'
    BY <2>3, NobodyAsks DEF AnswersFit
  <2> QED
    BY <2>3, <2>5, <2>6
<1> QED
  BY <1>7, <1>8

\* A request that goes on at a period, or gives up.
LEMMA PeriodGoesOn ==
    ASSUME ResponsesInv, NEW a \in Askers, UNCHANGED <<instant, clockSetbacks, linksSlot, periodCache>>,
           NEW question \in Questions, GoOn(a, question), AskedRight(a)'
    PROVE  ResponsesInv'
<1>1. /\ asked' \in [Askers -> Questions] /\ told' = NoQuestion
      /\ \A b \in Askers \ {a} : AskedRight(b)'
  BY AskedAndTold DEF ResponsesInv
<1>2. AnswersFit'
  BY <1>1, NobodyAsks DEF AnswersFit
<1> QED
  BY <1>1, <1>2 DEF ResponsesInv, CachesRight

\* The steps of a request about the activity.
LEMMA ActivityStep ==
    ASSUME ResponsesInv, NEW a \in Askers, UNCHANGED <<instant, clockSetbacks>>,
           AskActivity(a) \/ LookUpPeriod(a) \/ QueryPeriod(a) \/ FillPeriod(a)
    PROVE  ResponsesInv' /\ \A p \in Periods : periodCache'[p] >= periodCache[p]
<1>1. /\ asked[a] \in Questions /\ AskedRight(a) /\ CachesRight /\ instant \in Nat
      /\ periodCache \in [Periods -> Int] /\ UNCHANGED linksSlot
  BY DEF ResponsesInv, CachesRight, AskActivity, LookUpPeriod, QueryPeriod, FillPeriod
<1>2. ASSUME UNCHANGED periodCache
      PROVE  \A p \in Periods : periodCache'[p] >= periodCache[p]
  BY <1>1, <1>2
<1>3. asked[a].at \in PeriodPoints => DuePeriod(a) \in Periods /\ asked[a].now \in Nat
  <2>1. asked[a].at \in PeriodPoints =>
           asked[a].ends \in Seq(Int) /\ Len(asked[a].ends) < Len(Bucket) /\ asked[a].now \in Nat
    BY <1>1 DEF AskedRight, PeriodPoints
  <2> QED
    BY <2>1, BucketsAre DEF DuePeriod
<1>4. CASE AskActivity(a)
  <2>1. PICK question : question = [NoQuestion EXCEPT !.at = "period", !.now = instant]
    OBVIOUS
  <2>2. /\ question \in Questions /\ question.at = "period" /\ question.ends = <<>>
        /\ question.now = instant /\ question.links = question.key
    BY <1>1, <2>1, NobodyAsks DEF Questions
  <2>3. GoOn(a, question) /\ UNCHANGED periodCache
    BY <1>4, <2>1 DEF AskActivity
  <2>4. asked'[a] = question
    BY <1>1, <2>2, <2>3, AskedAndTold
  <2>5. AskedRight(a)'
    <3>1. /\ asked'[a].at = "period" /\ asked'[a].ends = <<>> /\ asked'[a].now \in Nat
          /\ asked'[a].links = asked'[a].key
      BY <1>1, <2>2, <2>4
    <3>2. <<>> \in Seq(Int) /\ Len(<<>>) = 0 /\ Len(Bucket) = 2
      BY BucketsAre
    <3>3. Len(asked'[a].ends) < Len(Bucket)
      BY <3>1, <3>2
    <3>4. \A p \in 1..Len(asked'[a].ends) : asked'[a].ends[p] >= Align(asked'[a].now, Bucket[p])
      BY <3>1, <3>2
    <3> QED
      BY <3>1, <3>2, <3>3, <3>4 DEF AskedRight, LinkPoints
  <2> QED
    BY <1>1, <1>2, <2>2, <2>3, <2>5, PeriodGoesOn
<1>5. CASE LookUpPeriod(a)
  <2>1. asked[a].at \in PeriodPoints /\ UNCHANGED periodCache
    BY <1>5 DEF LookUpPeriod, PeriodPoints
  <2>2. CASE PeriodCached(DuePeriod(a), asked[a].now)
    <3>1. TellPeriod(a, periodCache[DuePeriod(a)])
      BY <1>5, <2>2 DEF LookUpPeriod
    <3>2. /\ periodCache[DuePeriod(a)] \in Int
          /\ periodCache[DuePeriod(a)] >= Align(asked[a].now, Bucket[DuePeriod(a)])
      BY <1>1, <1>3, <2>1, <2>2, CachedIsComplete
    <3>3. asked' \in [Askers -> Questions] /\ (\A b \in Askers : AskedRight(b)') /\ AnswersFit'
      BY <2>1, <3>1, <3>2, PeriodTold
    <3> QED
      BY <1>1, <1>2, <2>1, <3>3 DEF ResponsesInv, CachesRight
  <2>3. CASE ~PeriodCached(DuePeriod(a), asked[a].now)
    <3>1. PICK question : question = [asked[a] EXCEPT !.at = "query period"]
      OBVIOUS
    <3>2. question \in Questions /\ question = [asked[a] EXCEPT !.at = "query period"]
          /\ question.at = "query period"
      BY <1>1, <3>1 DEF Questions
    <3>3. GoOn(a, question)
      BY <1>5, <2>3, <3>1 DEF LookUpPeriod
    <3>4. asked'[a] = question
      BY <1>1, <3>2, <3>3, AskedAndTold
    <3>5. /\ asked'[a].ends = asked[a].ends /\ asked'[a].now = asked[a].now
          /\ asked'[a].links = asked[a].links /\ asked'[a].key = asked[a].key
          /\ asked'[a].at = "query period"
      BY <1>1, <3>2, <3>4 DEF Questions
    <3>6. AskedRight(a)'
      BY <1>1, <2>1, <3>5 DEF AskedRight, PeriodPoints, LinkPoints
    <3> QED
      BY <1>1, <1>2, <2>1, <3>2, <3>3, <3>6, PeriodGoesOn
  <2> QED
    BY <2>2, <2>3
<1>6. CASE QueryPeriod(a)
  <2>1. asked[a].at \in PeriodPoints /\ UNCHANGED periodCache
    BY <1>6 DEF QueryPeriod, PeriodPoints
  <2>2. CASE GoOn(a, NoQuestion)
    <3>1. asked'[a] = NoQuestion
      BY <1>1, <2>2, NobodyAsks, AskedAndTold
    <3>2. asked'[a].at = "none" /\ asked'[a].ends = <<>> /\ asked'[a].now = 0
      BY <3>1, NobodyAsks
    <3>3. AskedRight(a)'
      BY <3>2 DEF AskedRight, LinkPoints
    <3> QED
      BY <1>1, <1>2, <2>1, <2>2, <3>3, NobodyAsks, PeriodGoesOn
  <2>3. CASE GoOn(a, [asked[a] EXCEPT !.at = "fill period"])
    <3>1. PICK question : question = [asked[a] EXCEPT !.at = "fill period"]
      OBVIOUS
    <3>2. question \in Questions /\ question.at = "fill period"
      BY <1>1, <3>1 DEF Questions
    <3>3. asked'[a] = question
      BY <1>1, <2>3, <3>1, <3>2, AskedAndTold
    <3>4. /\ asked'[a].ends = asked[a].ends /\ asked'[a].now = asked[a].now
          /\ asked'[a].links = asked[a].links /\ asked'[a].key = asked[a].key
          /\ asked'[a].at = "fill period"
      BY <1>1, <3>1, <3>3 DEF Questions
    <3>5. AskedRight(a)'
      BY <1>1, <2>1, <3>4 DEF AskedRight, PeriodPoints, LinkPoints
    <3> QED
      BY <1>1, <1>2, <2>1, <2>3, <3>1, <3>2, <3>5, PeriodGoesOn
  <2> QED
    BY <1>6, <2>2, <2>3 DEF QueryPeriod
<1>7. CASE FillPeriod(a)
  <2>1. asked[a].at \in PeriodPoints
    BY <1>7 DEF FillPeriod, PeriodPoints
  <2>2. CASE PeriodCached(DuePeriod(a), asked[a].now)
    <3>1. TellPeriod(a, periodCache[DuePeriod(a)]) /\ UNCHANGED periodCache
      BY <1>7, <2>2 DEF FillPeriod
    <3>2. /\ periodCache[DuePeriod(a)] \in Int
          /\ periodCache[DuePeriod(a)] >= Align(asked[a].now, Bucket[DuePeriod(a)])
      BY <1>1, <1>3, <2>1, <2>2, CachedIsComplete
    <3>3. asked' \in [Askers -> Questions] /\ (\A b \in Askers : AskedRight(b)') /\ AnswersFit'
      BY <2>1, <3>1, <3>2, PeriodTold
    <3> QED
      BY <1>1, <1>2, <3>1, <3>3 DEF ResponsesInv, CachesRight
  <2>3. CASE ~PeriodCached(DuePeriod(a), asked[a].now)
    <3>1. PICK p \in Periods : p = DuePeriod(a)
      BY <1>3, <2>1
    <3>2. PICK end : end = Align(asked[a].now, Bucket[p])
      OBVIOUS
    <3>3. periodCache' = [periodCache EXCEPT ![p] = end] /\ TellPeriod(a, end)
      BY <1>7, <2>3, <3>1, <3>2 DEF FillPeriod
    <3>4. end \in Nat /\ IsBoundary(p, end) /\ end >= periodCache[p]
      BY <1>1, <1>3, <2>1, <2>3, <3>1, <3>2, AlignedEnd, ReplacedIsOlder
    <3>5. asked' \in [Askers -> Questions] /\ (\A b \in Askers : AskedRight(b)') /\ AnswersFit'
      BY <2>1, <3>1, <3>2, <3>3, <3>4, PeriodTold
    <3>6. periodCache' \in [Periods -> Int] /\ periodCache'[p] = end
          /\ \A q \in Periods \ {p} : periodCache'[q] = periodCache[q]
      BY <1>1, <3>3, <3>4
    <3>7. \A q \in Periods : periodCache'[q] >= periodCache[q]
      BY <1>1, <3>4, <3>6
    <3>8. \A q \in Periods : periodCache'[q] # NoEnd => IsBoundary(q, periodCache'[q])
      BY <1>1, <3>4, <3>6 DEF CachesRight
    <3> QED
      BY <1>1, <3>5, <3>6, <3>7, <3>8 DEF ResponsesInv, CachesRight, IsBoundary
  <2> QED
    BY <2>2, <2>3
<1> QED
  BY <1>4, <1>5, <1>6, <1>7
\* The clock, which nobody in the middle of a request hears of.
LEMMA ClockStep ==
    ASSUME ResponsesInv, ClockGoesOn \/ ClockIsSetBack
    PROVE  ResponsesInv' /\ UNCHANGED periodCache
<1>1. /\ instant \in Nat /\ clockSetbacks \in Nat
      /\ told' = NoQuestion /\ UNCHANGED <<linksSlot, periodCache, asked>>
  BY DEF ResponsesInv, CachesRight, ClockGoesOn, ClockIsSetBack
<1>2. instant' \in Nat /\ clockSetbacks' \in Nat
  <2>1. CASE ClockGoesOn
    BY <1>1, <2>1 DEF ClockGoesOn
  <2>2. CASE ClockIsSetBack
    BY <1>1, <2>2 DEF ClockIsSetBack
  <2> QED
    BY <2>1, <2>2
<1>3. AnswersFit'
  BY <1>1, NobodyAsks DEF AnswersFit
<1>4. \A a \in Askers : AskedRight(a)'
  BY <1>1 DEF ResponsesInv, CachesRight, AskedRight
<1>5. CachesRight'
  BY <1>1, <1>2, <1>4 DEF ResponsesInv, CachesRight
<1> QED
  BY <1>1, <1>3, <1>5 DEF ResponsesInv

\* The caches start empty.
LEMMA ResponsesStart == ResponsesInit => ResponsesInv
<1>1. SUFFICES ASSUME ResponsesInit PROVE ResponsesInv
  OBVIOUS
<1>2. /\ instant = 0 /\ clockSetbacks = 0 /\ told = NoQuestion
      /\ linksSlot.links = NoKey /\ linksSlot.key = NoKey
      /\ periodCache = [p \in Periods |-> NoEnd] /\ asked = [a \in Askers |-> NoQuestion]
  BY <1>1 DEF ResponsesInit
<1>3. AnswersFit
  BY <1>2, NobodyAsks DEF AnswersFit
<1>4. \A a \in Askers : AskedRight(a)
  <2>1. ASSUME NEW a \in Askers PROVE AskedRight(a)
    <3>1. asked[a].at = "none" /\ asked[a].ends = <<>> /\ asked[a].now = 0
      BY <1>2, NobodyAsks
    <3> QED
      BY <3>1 DEF AskedRight, LinkPoints
  <2> QED
    BY <2>1
<1>5. CachesRight
  BY <1>2, <1>4, NobodyAsks DEF CachesRight, LinkKeys, NoEnd
<1> QED
  BY <1>3, <1>5 DEF ResponsesInv

\* What a step may do to the caches of the activity.
PeriodsGoOn == \A p \in Periods : periodCache'[p] >= periodCache[p]

\* A step that fills no period puts none back.
LEMMA PeriodsStay ==
    ASSUME ResponsesInv, UNCHANGED periodCache
    PROVE  PeriodsGoOn
BY DEF PeriodsGoOn, ResponsesInv, CachesRight

\* Every step keeps the invariant and never puts an older period in the place of a younger one.
LEMMA ResponsesGoOn ==
    ResponsesInv /\ [TopologyNext \/ ActivityNext]_responseVars =>
        ResponsesInv' /\ [PeriodsGoOn]_periodCache
<1>1. SUFFICES ASSUME ResponsesInv, [TopologyNext \/ ActivityNext]_responseVars
               PROVE  ResponsesInv' /\ PeriodsGoOn
  OBVIOUS
<1>2. CASE UNCHANGED responseVars
  <2>1. ResponsesInv'
    BY <1>1, <1>2 DEF responseVars, ResponsesInv, CachesRight, AskedRight, AnswersFit
  <2> QED
    BY <1>1, <1>2, <2>1, PeriodsStay DEF responseVars
<1>3. CASE ClockGoesOn \/ ClockIsSetBack
  BY <1>1, <1>3, ClockStep, PeriodsStay
<1>4. ASSUME NEW a \in Askers, UNCHANGED <<instant, clockSetbacks>>,
             \/ \E filter \in LinkFilters : AskLinks(a, filter)
             \/ ReadClock(a) \/ LookUpLinks(a) \/ QueryLinks(a) \/ FillLinks(a)
      PROVE  ResponsesInv' /\ PeriodsGoOn
  BY <1>1, <1>4, LinksStep, PeriodsStay
<1>5. ASSUME NEW a \in Askers, UNCHANGED <<instant, clockSetbacks>>,
             AskActivity(a) \/ LookUpPeriod(a) \/ QueryPeriod(a) \/ FillPeriod(a)
      PROVE  ResponsesInv' /\ PeriodsGoOn
  BY <1>1, <1>5, ActivityStep DEF PeriodsGoOn
<1> QED
  BY <1>1, <1>2, <1>3, <1>4, <1>5 DEF TopologyNext, ActivityNext

\* Whichever requests run at the same time, and wherever the clock is set to, a request is told
\* what answers its question, and the end of a period in the cache never goes back
\* (topology.go:47, activity.go:53).
THEOREM CachesAnswerRight == ResponsesSpec => ResponsesRight
<1>1. ResponsesInv => AnswersFit
  BY DEF ResponsesInv
<1>2. ResponsesSpec => []ResponsesInv
  BY ResponsesStart, ResponsesGoOn, PTL DEF ResponsesSpec
<1>3. ResponsesSpec => []AnswersFit
  BY <1>1, <1>2, PTL
<1>4. ResponsesSpec => [][PeriodsGoOn]_periodCache
  BY <1>2, ResponsesGoOn, PTL DEF ResponsesSpec
<1> QED
  BY <1>3, <1>4, PTL DEF ResponsesRight, PeriodsGoOn
----------------------------------------------------------------------------
(* The update check.  What a consumer has of a source, taken or waiting,   *)
(* is a run of numbers that follows the snapshot it joined at.  To show    *)
(* that a step keeps it one must know that the snapshot that is published  *)
(* is the next one (a source fetches again only after it published), and   *)
(* for what the consumer knows, that it never falls behind what it took.   *)

\* The entries of a source in a channel, their numbers, and that these rise.
Waiting(channel, s) == {i \in DOMAIN channel : channel[i][1] = s}
Numbers(channel, s) == {channel[i][2] : i \in Waiting(channel, s)}
Rising(channel, s) ==
    \A i, j \in Waiting(channel, s) : i < j => channel[i][2] < channel[j][2]

Channels == Seq(UpdateSources \X Nat)

\* A snapshot that is sent is one more of its source, and none of another.
LEMMA SentIsOneMore ==
    ASSUME NEW channel \in Channels, NEW s \in UpdateSources, NEW n \in Nat, NEW t \in UpdateSources
    PROVE  LET sent == Append(channel, <<s, n>>)
           IN  /\ sent \in Channels
               /\ t # s => Numbers(sent, t) = Numbers(channel, t)
               /\ t # s => (Rising(channel, t) => Rising(sent, t))
               /\ t = s => Numbers(sent, t) = Numbers(channel, t) \cup {n}
               /\ t = s /\ (\A m \in Numbers(channel, t) : m < n) /\ Rising(channel, t) =>
                      Rising(sent, t)
<1>1. PICK sent : sent = Append(channel, <<s, n>>)
  OBVIOUS
<1>2. PICK l \in Nat : l = Len(channel)
  BY DEF Channels
<1>3. /\ <<s, n>> \in UpdateSources \X Nat
      /\ sent \in Channels /\ DOMAIN channel = 1..l /\ DOMAIN sent = 1..l + 1
      /\ \A i \in 1..l : sent[i] = channel[i]
      /\ sent[l + 1] = <<s, n>>
  BY <1>1, <1>2 DEF Channels
<1>4. CASE t # s
  <2>1. Waiting(sent, t) = Waiting(channel, t)
    BY <1>3, <1>4 DEF Waiting
  <2>2. \A i \in Waiting(channel, t) : sent[i] = channel[i]
    BY <1>3 DEF Waiting
  <2>3. Numbers(sent, t) = Numbers(channel, t)
    BY <2>1, <2>2 DEF Numbers
  <2>4. Rising(channel, t) => Rising(sent, t)
    BY <2>1, <2>2 DEF Rising
  <2> QED
    BY <1>1, <1>3, <1>4, <2>3, <2>4
<1>5. CASE t = s
  <2>1. Waiting(sent, t) = Waiting(channel, t) \cup {l + 1}
    BY <1>3, <1>5 DEF Waiting
  <2>2. \A i \in Waiting(channel, t) : sent[i] = channel[i] /\ i \in 1..l
    BY <1>3 DEF Waiting
  <2>3. sent[l + 1][2] = n
    BY <1>3
  <2>4. Numbers(sent, t) = Numbers(channel, t) \cup {n}
    BY <2>1, <2>2, <2>3 DEF Numbers
  <2>5. ASSUME \A m \in Numbers(channel, t) : m < n, Rising(channel, t)
        PROVE  Rising(sent, t)
    <3>1. ASSUME NEW i \in Waiting(sent, t), NEW j \in Waiting(sent, t), i < j
          PROVE  sent[i][2] < sent[j][2]
      <4>1. i \in Waiting(channel, t)
        BY <1>2, <2>1, <2>2, <3>1
      <4>2. CASE j = l + 1
        BY <2>2, <2>3, <2>5, <4>1, <4>2 DEF Numbers
      <4>3. CASE j \in Waiting(channel, t)
        BY <2>2, <2>5, <3>1, <4>1, <4>3 DEF Rising
      <4> QED
        BY <2>1, <3>1, <4>2, <4>3
    <3> QED
      BY <3>1 DEF Rising
  <2> QED
    BY <1>1, <1>3, <1>5, <2>4, <2>5
<1> QED
  BY <1>4, <1>5

\* A snapshot that is received is the lowest of its source.
LEMMA ReceivedIsOneLess ==
    ASSUME NEW channel \in Channels, channel # <<>>, NEW t \in UpdateSources,
           NEW s, NEW n, s = Head(channel)[1], n = Head(channel)[2], Rising(channel, t)
    PROVE  /\ s \in UpdateSources /\ n \in Nat /\ Tail(channel) \in Channels
           /\ Rising(Tail(channel), t)
           /\ t # s => Numbers(Tail(channel), t) = Numbers(channel, t)
           /\ t = s => /\ n \in Numbers(channel, t)
                       /\ \A m \in Numbers(channel, t) : n <= m
                       /\ Numbers(Tail(channel), t) = Numbers(channel, t) \ {n}
<1>1. PICK l \in Nat : l = Len(channel)
  BY DEF Channels
<1>2. PICK rest : rest = Tail(channel)
  OBVIOUS
<1>3. /\ DOMAIN channel = 1..l /\ l >= 1 /\ channel[1] \in UpdateSources \X Nat
      /\ Head(channel) = channel[1]
      /\ rest \in Channels /\ DOMAIN rest = 1..l - 1
      /\ \A i \in 1..l - 1 : rest[i] = channel[i + 1]
  BY <1>1, <1>2 DEF Channels
<1>4. \A i \in 1..l : channel[i] \in UpdateSources \X Nat
  BY <1>1 DEF Channels
<1>5. \A i \in Waiting(rest, t) : i \in 1..l - 1 /\ i + 1 \in Waiting(channel, t)
                                   /\ rest[i] = channel[i + 1]
  BY <1>1, <1>3 DEF Waiting
<1>6. \A i \in Waiting(channel, t) : i # 1 =>
          i - 1 \in Waiting(rest, t) /\ rest[i - 1] = channel[i]
  <2>1. ASSUME NEW i \in Waiting(channel, t), i # 1
        PROVE  i - 1 \in Waiting(rest, t) /\ rest[i - 1] = channel[i]
    <3>1. i \in 1..l /\ i - 1 \in 1..l - 1 /\ (i - 1) + 1 = i
      BY <1>1, <1>3, <2>1 DEF Waiting
    <3> QED
      BY <1>3, <2>1, <3>1 DEF Waiting
  <2> QED
    BY <2>1
<1>7. Rising(rest, t)
  <2>1. ASSUME NEW i \in Waiting(rest, t), NEW j \in Waiting(rest, t), i < j
        PROVE  rest[i][2] < rest[j][2]
    <3>1. i + 1 < j + 1
      BY <1>1, <1>5, <2>1
    <3> QED
      BY <1>5, <3>1 DEF Rising
  <2> QED
    BY <2>1 DEF Rising
<1>8. CASE t # s
  <2>1. 1 \notin Waiting(channel, t)
    BY <1>3, <1>8 DEF Waiting
  <2>2. Numbers(rest, t) = Numbers(channel, t)
    BY <1>5, <1>6, <2>1 DEF Numbers
  <2> QED
    BY <1>2, <1>3, <1>7, <1>8, <2>2
<1>9. CASE t = s
  <2>1. 1 \in Waiting(channel, t) /\ channel[1][2] = n
    BY <1>1, <1>3, <1>9 DEF Waiting
  <2>2. \A i \in Waiting(channel, t) : i # 1 => n < channel[i][2] /\ channel[i][2] \in Nat
    <3>1. ASSUME NEW i \in Waiting(channel, t), i # 1
          PROVE  n < channel[i][2] /\ channel[i][2] \in Nat
      <4>1. i \in 1..l /\ 1 < i
        BY <1>1, <1>3, <3>1 DEF Waiting
      <4> QED
        BY <1>4, <2>1, <4>1 DEF Rising
    <3> QED
      BY <3>1
  <2>3. n \in Nat
    BY <1>3
  <2>4. n \in Numbers(channel, t) /\ \A m \in Numbers(channel, t) : n <= m
    BY <2>1, <2>2, <2>3 DEF Numbers
  <2>5. Numbers(rest, t) \subseteq Numbers(channel, t) \ {n}
    <3>1. ASSUME NEW i \in Waiting(rest, t)
          PROVE  rest[i][2] \in Numbers(channel, t) \ {n}
      <4>1. i + 1 \in Waiting(channel, t) /\ i + 1 # 1 /\ rest[i] = channel[i + 1]
        BY <1>1, <1>5, <3>1
      <4>2. n < channel[i + 1][2] /\ channel[i + 1][2] \in Nat
        BY <2>2, <4>1
      <4> QED
        BY <2>3, <4>1, <4>2 DEF Numbers
    <3> QED
      BY <3>1 DEF Numbers
  <2>6. Numbers(channel, t) \ {n} \subseteq Numbers(rest, t)
    BY <1>6, <2>1 DEF Numbers
  <2> QED
    BY <1>2, <1>3, <1>7, <1>9, <2>4, <2>5, <2>6
<1> QED
  BY <1>8, <1>9
\* What a consumer has of a source, up to the snapshot "last".
Run(c, s, last) ==
    /\ last \in LastTaken(c, s)..published[s]
    /\ Numbers(consumer[c].channel, s) = LastTaken(c, s) + 1..last
    /\ c \in listed => consumer[c].at = "open" /\ last = published[s]

ConsumerRight(c) ==
    /\ consumer[c].at = "new" =>
          /\ consumer[c].channel = <<>> /\ ~consumer[c].looked /\ c \notin listed
          /\ \A s \in UpdateSources : consumer[c].received[s] = 0
    /\ \A s \in UpdateSources : consumer[c].joined[s] <= published[s]
    /\ \A i \in DOMAIN consumer[c].channel : consumer[c].channel[i][1] \in Consumers[c]
    /\ \A s \in Consumers[c] :
          /\ Rising(consumer[c].channel, s)
          /\ \E last \in Nat : Run(c, s, last)
          /\ consumer[c].received[s] <= consumer[c].known[s]
          /\ consumer[c].looked => consumer[c].joined[s] <= consumer[c].known[s]

ConsumerStates == [at : {"new", "open", "closed"}, channel : Channels, looked : BOOLEAN,
                   joined : [UpdateSources -> Nat], received : [UpdateSources -> Nat],
                   known : [UpdateSources -> Nat]]

UpdatesTypeOK ==
    /\ cached \in [UpdateSources -> Nat] /\ published \in [UpdateSources -> Nat]
    /\ listed \subseteq DOMAIN Consumers
    /\ consumer \in [DOMAIN Consumers -> ConsumerStates]

\* A source is at most one snapshot ahead of what it published.
PublishedFollows == \A s \in UpdateSources : cached[s] \in {published[s], published[s] + 1}

UpdatesInv ==
    /\ UpdatesTypeOK /\ PublishedFollows
    /\ \A c \in DOMAIN Consumers : ConsumerRight(c)

\* A consumer subscribes to sources there are.
LEMMA SubscribesToSources ==
    \A c \in DOMAIN Consumers : Consumers[c] \subseteq UpdateSources
<1>1. Consumers \in [DOMAIN Consumers -> {{s} : s \in UpdateSources} \cup {UpdateSources}]
  BY UpdatesAssumption
<1>2. \A c \in DOMAIN Consumers : Consumers[c] \in {{s} : s \in UpdateSources} \cup {UpdateSources}
  BY <1>1
<1> QED
  BY <1>2

\* Where the numbers form a run, both properties follow.
LEMMA RunsTell == UpdatesInv => UpdatesTold
<1>1. SUFFICES ASSUME UpdatesInv PROVE UpdatesTold
  OBVIOUS
<1>2. DeliveredWithoutGap
  <2>1. ASSUME NEW c \in DOMAIN Consumers, NEW s \in Consumers[c]
        PROVE  LET channel == consumer[c].channel
                   waiting == {i \in DOMAIN channel : channel[i][1] = s}
               IN  /\ \E last \in LastTaken(c, s)..published[s] :
                         /\ {channel[i][2] : i \in waiting} = LastTaken(c, s) + 1..last
                         /\ c \in listed => consumer[c].at = "open" /\ last = published[s]
                   /\ \A i, j \in waiting : i < j => channel[i][2] < channel[j][2]
    <3>1. PICK last \in Nat : Run(c, s, last)
      BY <1>1, <2>1 DEF UpdatesInv, ConsumerRight
    <3>2. Rising(consumer[c].channel, s)
      BY <1>1, <2>1 DEF UpdatesInv, ConsumerRight
    <3> QED
      BY <3>1, <3>2 DEF Run, Rising, Numbers, Waiting
  <2> QED
    BY <2>1 DEF DeliveredWithoutGap
<1>3. SubscribeThenLook
  <2>1. ASSUME NEW c \in listed, NEW s \in UpdateSources, consumer[c].looked, s \in Consumers[c],
               published[s] = cached[s]
        PROVE  \/ consumer[c].known[s] >= cached[s]
               \/ \E i \in DOMAIN consumer[c].channel : consumer[c].channel[i] = <<s, cached[s]>>
    <3>1. /\ c \in DOMAIN Consumers /\ ConsumerRight(c) /\ consumer[c] \in ConsumerStates
          /\ published[s] \in Nat
      BY <1>1 DEF UpdatesInv, UpdatesTypeOK
    <3>2. PICK last \in Nat : Run(c, s, last)
      BY <2>1, <3>1 DEF ConsumerRight
    <3>3. last = published[s]
      BY <3>2 DEF Run
    <3>4. /\ consumer[c].known[s] \in Nat /\ consumer[c].received[s] \in Nat
          /\ consumer[c].joined[s] \in Nat /\ consumer[c].channel \in Channels
      BY <3>1 DEF ConsumerStates
    <3>5. LastTaken(c, s) \in Nat /\ LastTaken(c, s) <= consumer[c].known[s]
      <4>1. /\ consumer[c].received[s] <= consumer[c].known[s]
            /\ consumer[c].joined[s] <= consumer[c].known[s]
        BY <2>1, <3>1 DEF ConsumerRight
      <4> QED
        BY <3>4, <4>1 DEF LastTaken
    <3>6. CASE LastTaken(c, s) = last
      BY <2>1, <3>3, <3>4, <3>5, <3>6
    <3>7. CASE LastTaken(c, s) # last
      <4>1. last \in LastTaken(c, s) + 1..last
        BY <3>1, <3>2, <3>3, <3>5, <3>7 DEF Run
      <4>2. last \in Numbers(consumer[c].channel, s)
        BY <3>2, <4>1 DEF Run
      <4>3. PICK i \in DOMAIN consumer[c].channel :
                consumer[c].channel[i][1] = s /\ consumer[c].channel[i][2] = last
        BY <4>2 DEF Numbers, Waiting
      <4>4. consumer[c].channel[i] \in UpdateSources \X Nat
        BY <3>4, <4>3 DEF Channels
      <4>5. consumer[c].channel[i] = <<s, cached[s]>>
        BY <2>1, <3>3, <4>3, <4>4
      <4> QED
        BY <4>5
    <3> QED
      BY <3>6, <3>7
  <2> QED
    BY <2>1 DEF SubscribeThenLook
<1> QED
  BY <1>2, <1>3 DEF UpdatesTold

\* Nobody has subscribed yet.
LEMMA UpdatesStart == UpdatesInit => UpdatesInv
<1>1. SUFFICES ASSUME UpdatesInit PROVE UpdatesInv
  OBVIOUS
<1>2. /\ cached = [s \in UpdateSources |-> 0] /\ published = [s \in UpdateSources |-> 0]
      /\ listed = {} /\ consumer = [c \in DOMAIN Consumers |-> NewConsumer]
  BY <1>1 DEF UpdatesInit
<1>3. /\ NewConsumer \in ConsumerStates /\ NewConsumer.at = "new" /\ NewConsumer.channel = <<>>
      /\ ~NewConsumer.looked
      /\ \A s \in UpdateSources : /\ NewConsumer.joined[s] = 0 /\ NewConsumer.received[s] = 0
                                  /\ NewConsumer.known[s] = 0
  BY DEF NewConsumer, ConsumerStates, Channels
<1>4. UpdatesTypeOK
  BY <1>2, <1>3 DEF UpdatesTypeOK
<1>5. PublishedFollows
  BY <1>2 DEF PublishedFollows
<1>6. ASSUME NEW c \in DOMAIN Consumers
      PROVE  ConsumerRight(c)
  <2>1. consumer[c] = NewConsumer /\ c \notin listed
    BY <1>2
  <2>2. ASSUME NEW s \in Consumers[c]
        PROVE  Rising(consumer[c].channel, s) /\ Run(c, s, 0)
    <3>1. s \in UpdateSources
      BY <1>6, SubscribesToSources
    <3>2. Waiting(consumer[c].channel, s) = {}
      BY <1>3, <2>1 DEF Waiting
    <3>3. LastTaken(c, s) = 0 /\ published[s] = 0
      BY <1>2, <1>3, <2>1, <3>1 DEF LastTaken
    <3>4. Numbers(consumer[c].channel, s) = 0 + 1..0
      BY <3>2 DEF Numbers
    <3> QED
      BY <2>1, <3>2, <3>3, <3>4 DEF Rising, Run
  <2>3. \A s \in Consumers[c] : \E last \in Nat : Run(c, s, last)
    BY <2>2
  <2> QED
    BY <1>2, <1>3, <1>6, <2>1, <2>2, <2>3, SubscribesToSources DEF ConsumerRight
<1> QED
  BY <1>4, <1>5, <1>6 DEF UpdatesInv
\* What a step does not touch stays right.
LEMMA ConsumerStays ==
    ASSUME UpdatesInv, NEW c \in DOMAIN Consumers, consumer'[c] = consumer[c],
           c \in listed' => c \in listed, UNCHANGED published
    PROVE  ConsumerRight(c)'
<1>1. ConsumerRight(c)
  BY DEF UpdatesInv
<1>2. ASSUME NEW s, NEW last \in Nat, Run(c, s, last)
      PROVE  Run(c, s, last)'
  BY <1>2 DEF Run, LastTaken
<1>3. \A s \in Consumers[c] : \E last \in Nat : Run(c, s, last)'
  BY <1>1, <1>2 DEF ConsumerRight
<1> QED
  BY <1>1, <1>3 DEF ConsumerRight

\* A step of one consumer.
LEMMA OneConsumer ==
    ASSUME UpdatesInv, NEW c \in DOMAIN Consumers, NEW state \in ConsumerStates,
           consumer' = [consumer EXCEPT ![c] = state], UNCHANGED <<cached, published>>,
           listed' \in {listed, listed \cup {c}, listed \ {c}}, ConsumerRight(c)'
    PROVE  UpdatesInv'
<1>1. /\ consumer' \in [DOMAIN Consumers -> ConsumerStates]
      /\ \A d \in DOMAIN Consumers \ {c} : consumer'[d] = consumer[d]
  BY DEF UpdatesInv, UpdatesTypeOK
<1>2. listed' \subseteq DOMAIN Consumers /\ \A d \in listed' : d \in listed \/ d = c
  BY DEF UpdatesInv, UpdatesTypeOK
<1>3. UpdatesTypeOK' /\ PublishedFollows'
  BY <1>1, <1>2 DEF UpdatesInv, UpdatesTypeOK, PublishedFollows
<1>4. ASSUME NEW d \in DOMAIN Consumers \ {c}
      PROVE  ConsumerRight(d)'
  BY <1>1, <1>2, <1>4, ConsumerStays
<1> QED
  BY <1>3, <1>4 DEF UpdatesInv

LEMMA FetchKeeps ==
    ASSUME UpdatesInv, NEW s \in UpdateSources, Fetch(s)
    PROVE  UpdatesInv'
<1>1. /\ cached' = [cached EXCEPT ![s] = @ + 1] /\ published[s] = cached[s]
      /\ UNCHANGED <<published, listed, consumer>>
  BY DEF Fetch
<1>2. UpdatesTypeOK' /\ PublishedFollows'
  BY <1>1 DEF UpdatesInv, UpdatesTypeOK, PublishedFollows
<1>3. \A c \in DOMAIN Consumers : ConsumerRight(c)'
  BY <1>1, ConsumerStays
<1> QED
  BY <1>2, <1>3 DEF UpdatesInv

LEMMA SubscribeKeeps ==
    ASSUME UpdatesInv, NEW c \in DOMAIN Consumers, Subscribe(c)
    PROVE  UpdatesInv'
<1>1. PICK state : state = [consumer[c] EXCEPT !.at = "open", !.joined = published]
  OBVIOUS
<1>2. /\ consumer[c] \in ConsumerStates /\ ConsumerRight(c) /\ consumer[c].at = "new"
      /\ published \in [UpdateSources -> Nat]
  BY DEF UpdatesInv, UpdatesTypeOK, Subscribe
<1>3. /\ consumer' = [consumer EXCEPT ![c] = state] /\ listed' = listed \cup {c}
      /\ UNCHANGED <<cached, published>>
  BY <1>1 DEF Subscribe
<1>4. /\ state \in ConsumerStates /\ state.at = "open" /\ state.joined = published
      /\ state.channel = <<>> /\ ~state.looked /\ state.received = consumer[c].received
      /\ state.known = consumer[c].known
      /\ \A s \in UpdateSources : state.received[s] = 0 /\ state.known[s] \in Nat
  BY <1>1, <1>2 DEF ConsumerStates, ConsumerRight
<1>5. consumer'[c] = state
  BY <1>3 DEF UpdatesInv, UpdatesTypeOK
<1>6. ASSUME NEW s \in Consumers[c], NEW last \in Nat, last = published[s]
      PROVE  Run(c, s, last)' /\ Rising(consumer[c].channel, s)'
  <2>1. s \in UpdateSources /\ published[s] \in Nat
    BY <1>2, SubscribesToSources
  <2>2. LastTaken(c, s)' = published[s]
    BY <1>4, <1>5, <2>1 DEF LastTaken
  <2>3. Waiting(consumer'[c].channel, s) = {}
    BY <1>4, <1>5 DEF Waiting
  <2>4. Numbers(consumer'[c].channel, s) = published[s] + 1..published[s]
    BY <2>1, <2>3 DEF Numbers
  <2> QED
    BY <1>3, <1>4, <1>5, <1>6, <2>1, <2>2, <2>3, <2>4 DEF Run, Rising
<1>7. \A s \in Consumers[c] :
          Rising(consumer[c].channel, s)' /\ \E last \in Nat : Run(c, s, last)'
  <2>1. ASSUME NEW s \in Consumers[c]
        PROVE  Rising(consumer[c].channel, s)' /\ \E last \in Nat : Run(c, s, last)'
    <3>1. PICK last \in Nat : last = published[s]
      BY <1>2, SubscribesToSources
    <3> QED
      BY <1>6, <3>1
  <2> QED
    BY <2>1
<1>8. ConsumerRight(c)'
  <2>1. \A s \in UpdateSources : consumer'[c].joined[s] <= published'[s]
    BY <1>2, <1>3, <1>4, <1>5
  <2>2. \A s \in Consumers[c] : consumer'[c].received[s] <= consumer'[c].known[s]
    BY <1>4, <1>5, SubscribesToSources
  <2> QED
    BY <1>4, <1>5, <1>6, <1>7, <2>1, <2>2 DEF ConsumerRight
<1> QED
  BY <1>3, <1>4, <1>8, OneConsumer

LEMMA LookKeeps ==
    ASSUME UpdatesInv, NEW c \in DOMAIN Consumers, LookAtCache(c)
    PROVE  UpdatesInv'
<1>1. PICK known : known = [s \in UpdateSources |->
          IF s \in Consumers[c] /\ cached[s] > consumer[c].known[s] THEN cached[s]
          ELSE consumer[c].known[s]]
  OBVIOUS
<1>2. PICK state : state = [consumer[c] EXCEPT !.looked = TRUE, !.known = known]
  OBVIOUS
<1>3. /\ consumer[c] \in ConsumerStates /\ ConsumerRight(c) /\ consumer[c].at = "open"
      /\ published \in [UpdateSources -> Nat] /\ cached \in [UpdateSources -> Nat]
      /\ PublishedFollows
  BY DEF UpdatesInv, UpdatesTypeOK, LookAtCache
<1>4. /\ consumer' = [consumer EXCEPT ![c] = state] /\ UNCHANGED <<cached, published, listed>>
  BY <1>1, <1>2 DEF LookAtCache
<1>5. /\ \A s \in UpdateSources : known[s] \in Nat /\ known[s] >= consumer[c].known[s]
      /\ \A s \in Consumers[c] : known[s] >= cached[s]
      /\ known \in [UpdateSources -> Nat]
  BY <1>1, <1>3, SubscribesToSources DEF ConsumerStates
<1>6. /\ state \in ConsumerStates /\ state.at = "open" /\ state.joined = consumer[c].joined
      /\ state.channel = consumer[c].channel /\ state.received = consumer[c].received
      /\ state.known = known
  BY <1>2, <1>3, <1>5 DEF ConsumerStates
<1>7. consumer'[c] = state
  BY <1>4 DEF UpdatesInv, UpdatesTypeOK
<1>8. \A s \in Consumers[c] : \E last \in Nat : Run(c, s, last)'
  <2>1. ASSUME NEW s \in Consumers[c]
        PROVE  \E last \in Nat : Run(c, s, last)'
    <3>1. PICK last \in Nat : Run(c, s, last)
      BY <1>3, <2>1 DEF ConsumerRight
    <3>2. Run(c, s, last)'
      BY <1>3, <1>4, <1>6, <1>7, <3>1 DEF Run, LastTaken
    <3> QED
      BY <3>2
  <2> QED
    BY <2>1
<1>9. ASSUME NEW s \in Consumers[c]
      PROVE  consumer'[c].received[s] <= known[s] /\ consumer'[c].joined[s] <= known[s]
  <2>1. /\ s \in UpdateSources /\ consumer[c].received[s] \in Nat /\ consumer[c].joined[s] \in Nat
        /\ consumer[c].known[s] \in Nat /\ cached[s] \in Nat /\ published[s] \in Nat
    BY <1>3, SubscribesToSources DEF ConsumerStates
  <2>2. /\ consumer[c].received[s] <= consumer[c].known[s]
        /\ consumer[c].joined[s] <= published[s] /\ published[s] <= cached[s]
    BY <1>3, <1>9, <2>1 DEF ConsumerRight, PublishedFollows
  <2> QED
    BY <1>5, <1>6, <1>7, <2>1, <2>2
<1>10. ConsumerRight(c)'
  BY <1>3, <1>4, <1>6, <1>7, <1>8, <1>9 DEF ConsumerRight
<1> QED
  BY <1>4, <1>6, <1>10, OneConsumer

LEMMA UnsubscribeKeeps ==
    ASSUME UpdatesInv, NEW c \in DOMAIN Consumers, Unsubscribe(c)
    PROVE  UpdatesInv'
<1>1. PICK state : state = [consumer[c] EXCEPT !.at = "closed"]
  OBVIOUS
<1>2. consumer[c] \in ConsumerStates /\ ConsumerRight(c)
  BY DEF UpdatesInv, UpdatesTypeOK
<1>3. /\ consumer' = [consumer EXCEPT ![c] = state] /\ listed' = listed \ {c}
      /\ UNCHANGED <<cached, published>>
  BY <1>1 DEF Unsubscribe
<1>4. /\ state \in ConsumerStates /\ state.at = "closed" /\ state.joined = consumer[c].joined
      /\ state.channel = consumer[c].channel /\ state.received = consumer[c].received
      /\ state.known = consumer[c].known /\ state.looked = consumer[c].looked
  BY <1>1, <1>2 DEF ConsumerStates
<1>5. consumer'[c] = state
  BY <1>3 DEF UpdatesInv, UpdatesTypeOK
<1>6. \A s \in Consumers[c] : \E last \in Nat : Run(c, s, last)'
  <2>1. ASSUME NEW s \in Consumers[c]
        PROVE  \E last \in Nat : Run(c, s, last)'
    <3>1. PICK last \in Nat : Run(c, s, last)
      BY <1>2, <2>1 DEF ConsumerRight
    <3>2. Run(c, s, last)'
      BY <1>3, <1>4, <1>5, <3>1 DEF Run, LastTaken
    <3> QED
      BY <3>2
  <2> QED
    BY <2>1
<1>7. ConsumerRight(c)'
  BY <1>2, <1>3, <1>4, <1>5, <1>6 DEF ConsumerRight
<1> QED
  BY <1>3, <1>4, <1>7, OneConsumer
LEMMA ReceiveKeeps ==
    ASSUME UpdatesInv, NEW c \in DOMAIN Consumers, Receive(c)
    PROVE  UpdatesInv'
<1>1. /\ consumer[c] \in ConsumerStates /\ ConsumerRight(c) /\ consumer[c].at # "new"
      /\ published \in [UpdateSources -> Nat]
      /\ consumer[c].channel \in Channels /\ consumer[c].channel # <<>>
  BY DEF UpdatesInv, UpdatesTypeOK, Receive, ConsumerStates
<1>2. PICK s, n : s = Head(consumer[c].channel)[1] /\ n = Head(consumer[c].channel)[2]
  OBVIOUS
<1>3. /\ s \in Consumers[c] /\ s \in UpdateSources /\ n \in Nat
      /\ Tail(consumer[c].channel) \in Channels
      /\ n \in Numbers(consumer[c].channel, s)
      /\ \A m \in Numbers(consumer[c].channel, s) : n <= m
      /\ Numbers(Tail(consumer[c].channel), s) = Numbers(consumer[c].channel, s) \ {n}
  <2>1. 1 \in DOMAIN consumer[c].channel /\ Head(consumer[c].channel) = consumer[c].channel[1]
    BY <1>1 DEF Channels
  <2>2. s \in Consumers[c] /\ s \in UpdateSources
    BY <1>1, <1>2, <2>1, SubscribesToSources DEF ConsumerRight
  <2>3. Rising(consumer[c].channel, s)
    BY <1>1, <2>2 DEF ConsumerRight
  <2> QED
    BY <1>1, <1>2, <2>2, <2>3, ReceivedIsOneLess
<1>4. PICK state : state = [consumer[c] EXCEPT !.channel = Tail(@), !.received[s] = n,
                                               !.known[s] = IF n > @ THEN n ELSE @]
  OBVIOUS
<1>5. /\ consumer' = [consumer EXCEPT ![c] = state] /\ UNCHANGED <<cached, published, listed>>
  BY <1>2, <1>4 DEF Receive
<1>6. /\ state \in ConsumerStates /\ state.at = consumer[c].at /\ state.joined = consumer[c].joined
      /\ state.looked = consumer[c].looked
      /\ state.channel = Tail(consumer[c].channel)
      /\ state.received = [consumer[c].received EXCEPT ![s] = n]
      /\ state.known = [consumer[c].known EXCEPT ![s] = IF n > @ THEN n ELSE @]
  BY <1>1, <1>3, <1>4 DEF ConsumerStates
<1>7. consumer'[c] = state
  BY <1>5 DEF UpdatesInv, UpdatesTypeOK
<1>8. \A i \in DOMAIN state.channel : state.channel[i][1] \in Consumers[c]
  <2>1. \A i \in DOMAIN Tail(consumer[c].channel) :
            /\ i + 1 \in DOMAIN consumer[c].channel
            /\ Tail(consumer[c].channel)[i] = consumer[c].channel[i + 1]
    BY <1>1 DEF Channels
  <2> QED
    BY <1>1, <1>6, <2>1 DEF ConsumerRight
<1>9. ASSUME NEW t \in Consumers[c]
      PROVE  /\ Rising(consumer[c].channel, t)'
             /\ \E last \in Nat : Run(c, t, last)'
  <2>1. t \in UpdateSources /\ Rising(consumer[c].channel, t)
    BY <1>1, <1>9, SubscribesToSources DEF ConsumerRight
  <2>2. PICK last \in Nat : Run(c, t, last)
    BY <1>1, <1>9 DEF ConsumerRight
  <2>3. Rising(state.channel, t)
    BY <1>1, <1>2, <1>6, <2>1, ReceivedIsOneLess
  <2>4. /\ consumer[c].received[t] \in Nat /\ consumer[c].joined[t] \in Nat
        /\ LastTaken(c, t) \in Nat /\ published[t] \in Nat
    BY <1>1, <2>1 DEF ConsumerStates, LastTaken
  <2>5. CASE t # s
    <3>1. Numbers(state.channel, t) = Numbers(consumer[c].channel, t)
      BY <1>1, <1>2, <1>6, <2>1, <2>5, ReceivedIsOneLess
    <3>2. LastTaken(c, t)' = LastTaken(c, t)
      BY <1>1, <1>6, <1>7, <2>1, <2>5 DEF LastTaken, ConsumerStates
    <3>3. Run(c, t, last)'
      BY <1>5, <1>6, <1>7, <2>2, <3>1, <3>2 DEF Run
    <3> QED
      BY <1>7, <2>3, <3>3
  <2>6. CASE t = s
    <3>1. PICK taken \in Nat : taken = LastTaken(c, t)
      BY <2>4
    <3>2. /\ Numbers(consumer[c].channel, t) = taken + 1..last
          /\ last \in taken..published[t]
          /\ c \in listed => consumer[c].at = "open" /\ last = published[t]
      BY <2>2, <3>1 DEF Run
    <3>3. n = taken + 1 /\ n <= last
      <4>1. n \in taken + 1..last
        BY <1>3, <2>6, <3>2
      <4>2. taken + 1 \in taken + 1..last
        BY <4>1
      <4>3. n <= taken + 1
        BY <1>3, <2>6, <3>2, <4>2
      <4> QED
        BY <1>3, <4>1, <4>3
    <3>4. LastTaken(c, t)' = n
      <4>1. consumer'[c].received[t] = n /\ n # 0
        BY <1>1, <1>6, <1>7, <2>1, <2>6, <3>3 DEF ConsumerStates
      <4> QED
        BY <4>1 DEF LastTaken
    <3>5. Numbers(state.channel, t) = n + 1..last
      <4>1. Numbers(state.channel, t) = (taken + 1..last) \ {n}
        BY <1>3, <1>6, <2>6, <3>2
      <4> QED
        BY <1>3, <3>3, <4>1
    <3>6. last \in n..published[t]
      BY <1>3, <2>4, <3>2, <3>3
    <3>7. Run(c, t, last)'
      BY <1>5, <1>6, <1>7, <3>2, <3>4, <3>5, <3>6 DEF Run
    <3> QED
      BY <1>7, <2>3, <3>7
  <2> QED
    BY <2>5, <2>6
<1>10. ASSUME NEW t \in Consumers[c]
       PROVE  /\ consumer'[c].received[t] <= consumer'[c].known[t]
              /\ consumer'[c].looked => consumer'[c].joined[t] <= consumer'[c].known[t]
  <2>1. /\ t \in UpdateSources /\ consumer[c].received[t] \in Nat /\ consumer[c].joined[t] \in Nat
        /\ consumer[c].known[t] \in Nat
    BY <1>1, SubscribesToSources DEF ConsumerStates
  <2>2. /\ consumer[c].received[t] <= consumer[c].known[t]
        /\ consumer[c].looked => consumer[c].joined[t] <= consumer[c].known[t]
    BY <1>1 DEF ConsumerRight
  <2>3. CASE t # s
    <3>1. /\ consumer'[c].received[t] = consumer[c].received[t]
          /\ consumer'[c].known[t] = consumer[c].known[t]
      BY <1>1, <1>6, <1>7, <2>1, <2>3 DEF ConsumerStates
    <3> QED
      BY <1>6, <1>7, <2>2, <3>1
  <2>4. CASE t = s
    <3>1. /\ consumer'[c].received[t] = n
          /\ consumer'[c].known[t] = IF n > consumer[c].known[t] THEN n ELSE consumer[c].known[t]
      BY <1>1, <1>6, <1>7, <2>1, <2>4 DEF ConsumerStates
    <3> QED
      BY <1>3, <1>6, <1>7, <2>1, <2>2, <3>1
  <2> QED
    BY <2>3, <2>4
<1>11. ConsumerRight(c)'
  BY <1>1, <1>5, <1>6, <1>7, <1>8, <1>9, <1>10 DEF ConsumerRight
<1> QED
  BY <1>5, <1>6, <1>11, OneConsumer

\* The snapshot that is published is the next of its source, whose run it goes on for those
\* who have room, and ends for those who have not.
LEMMA PublishKeeps ==
    ASSUME UpdatesInv, NEW s \in UpdateSources, Publish(s)
    PROVE  UpdatesInv'
<1>1. PICK concerned : concerned = {c \in listed : s \in Consumers[c]}
  OBVIOUS
<1>2. PICK open : open = {c \in concerned : Len(consumer[c].channel) < ChannelBuffer}
  OBVIOUS
<1>3. PICK n \in Nat : n = cached[s] /\ published[s] \in Nat /\ n = published[s] + 1
  BY DEF UpdatesInv, UpdatesTypeOK, PublishedFollows, Publish
<1>4. /\ published' = [published EXCEPT ![s] = n] /\ UNCHANGED cached
      /\ listed' = listed \ (concerned \ open)
      /\ consumer' = [c \in DOMAIN Consumers |->
             IF c \in open THEN [consumer[c] EXCEPT !.channel = Append(@, <<s, n>>)]
             ELSE consumer[c]]
  BY <1>1, <1>2, <1>3 DEF Publish
<1>5. /\ published \in [UpdateSources -> Nat] /\ published' \in [UpdateSources -> Nat]
      /\ published'[s] = n /\ \A t \in UpdateSources \ {s} : published'[t] = published[t]
  BY <1>3, <1>4 DEF UpdatesInv, UpdatesTypeOK
<1>6. \A c \in DOMAIN Consumers : consumer[c] \in ConsumerStates /\ ConsumerRight(c)
  BY DEF UpdatesInv, UpdatesTypeOK
<1>7. ASSUME NEW c \in open
      PROVE  /\ consumer'[c] \in ConsumerStates /\ c \in listed /\ c \in DOMAIN Consumers
             /\ s \in Consumers[c] /\ consumer[c].channel \in Channels
             /\ consumer'[c].channel = Append(consumer[c].channel, <<s, n>>)
             /\ consumer'[c].at = consumer[c].at /\ consumer'[c].looked = consumer[c].looked
             /\ consumer'[c].joined = consumer[c].joined
             /\ consumer'[c].received = consumer[c].received
             /\ consumer'[c].known = consumer[c].known
  <2>1. c \in listed /\ c \in DOMAIN Consumers /\ s \in Consumers[c]
    BY <1>1, <1>2, <1>7 DEF UpdatesInv, UpdatesTypeOK
  <2>2. consumer'[c] = [consumer[c] EXCEPT !.channel = Append(@, <<s, n>>)]
    BY <1>4, <1>7, <2>1
  <2>3. consumer[c] \in ConsumerStates /\ consumer[c].channel \in Channels
    BY <1>6, <2>1 DEF ConsumerStates
  <2>4. Append(consumer[c].channel, <<s, n>>) \in Channels
    BY <1>3, <2>3 DEF Channels
  <2> QED
    BY <2>1, <2>2, <2>3, <2>4 DEF ConsumerStates
<1>8. ASSUME NEW c \in DOMAIN Consumers, c \notin open
      PROVE  consumer'[c] = consumer[c] /\ (c \in listed' => c \in listed /\ s \notin Consumers[c])
  BY <1>1, <1>2, <1>4, <1>8
<1>9. UpdatesTypeOK'
  <2>1. listed' \subseteq DOMAIN Consumers
    BY <1>4 DEF UpdatesInv, UpdatesTypeOK
  <2>2. \A c \in DOMAIN Consumers : consumer'[c] \in ConsumerStates
    BY <1>6, <1>7, <1>8
  <2>3. consumer' \in [DOMAIN Consumers -> ConsumerStates]
    BY <1>4, <2>2
  <2> QED
    BY <1>4, <1>5, <2>1, <2>3 DEF UpdatesInv, UpdatesTypeOK
<1>10. PublishedFollows'
  BY <1>3, <1>4, <1>5 DEF UpdatesInv, PublishedFollows
<1>11. \A c \in DOMAIN Consumers : \A t \in UpdateSources :
           consumer[c].joined[t] \in Nat /\ consumer[c].joined[t] <= published'[t]
  <2>1. ASSUME NEW c \in DOMAIN Consumers, NEW t \in UpdateSources
        PROVE  consumer[c].joined[t] \in Nat /\ consumer[c].joined[t] <= published'[t]
    <3>1. /\ consumer[c].joined[t] \in Nat /\ consumer[c].joined[t] <= published[t]
          /\ published[t] \in Nat
      BY <1>5, <1>6, <2>1 DEF ConsumerStates, ConsumerRight
    <3> QED
      BY <1>3, <1>5, <3>1
  <2> QED
    BY <2>1
<1>12. ASSUME NEW c \in DOMAIN Consumers, c \notin open
       PROVE  ConsumerRight(c)'
  <2>1. consumer'[c] = consumer[c] /\ (c \in listed' => c \in listed /\ s \notin Consumers[c])
    BY <1>8, <1>12
  <2>2. ASSUME NEW t \in Consumers[c]
        PROVE  \E last \in Nat : Run(c, t, last)'
    <3>1. PICK last \in Nat : Run(c, t, last)
      BY <1>6, <1>12, <2>2 DEF ConsumerRight
    <3>2. LastTaken(c, t)' = LastTaken(c, t) /\ LastTaken(c, t) \in Nat /\ t \in UpdateSources
      <4>1. t \in UpdateSources /\ consumer[c] \in ConsumerStates
        BY <1>6, <1>12, <2>2, SubscribesToSources
      <4> QED
        BY <2>1, <4>1 DEF LastTaken, ConsumerStates
    <3>3. last \in LastTaken(c, t)..published'[t] /\ (t # s => published'[t] = published[t])
      BY <1>3, <1>5, <3>1, <3>2 DEF Run
    <3>4. Run(c, t, last)'
      BY <2>1, <2>2, <3>1, <3>2, <3>3 DEF Run
    <3> QED
      BY <3>4
  <2>3. \A t \in Consumers[c] : \E last \in Nat : Run(c, t, last)'
    BY <2>2
  <2> QED
    BY <1>6, <1>11, <1>12, <2>1, <2>3 DEF ConsumerRight
<1>13. ASSUME NEW c \in open
       PROVE  ConsumerRight(c)'
  <2>1. c \in DOMAIN Consumers /\ ConsumerRight(c) /\ consumer[c] \in ConsumerStates
    BY <1>6, <1>7, <1>13
  <2>0. PICK channel \in Channels :
            consumer[c].channel = channel /\ consumer'[c].channel = Append(channel, <<s, n>>)
    BY <1>7, <1>13
  <2>2. \A i \in DOMAIN consumer'[c].channel : consumer'[c].channel[i][1] \in Consumers[c]
    <3>1. PICK l \in Nat : l = Len(channel)
      BY DEF Channels
    <3>2. /\ DOMAIN consumer'[c].channel = 1..l + 1 /\ DOMAIN channel = 1..l
          /\ consumer'[c].channel[l + 1] = <<s, n>>
          /\ \A i \in 1..l : consumer'[c].channel[i] = channel[i]
      BY <1>3, <2>0, <3>1 DEF Channels
    <3>3. s \in Consumers[c] /\ \A i \in 1..l : channel[i][1] \in Consumers[c]
      BY <1>7, <1>13, <2>0, <2>1, <3>2 DEF ConsumerRight
    <3> QED
      BY <3>1, <3>2, <3>3
  <2>3. ASSUME NEW t \in Consumers[c]
        PROVE  Rising(consumer[c].channel, t)' /\ \E last \in Nat : Run(c, t, last)'
    <3>1. PICK last \in Nat : Run(c, t, last)
      BY <2>1, <2>3 DEF ConsumerRight
    <3>2. /\ t \in UpdateSources /\ Rising(consumer[c].channel, t)
          /\ consumer[c].at = "open" /\ last = published[t] /\ c \in listed
      BY <1>7, <1>13, <2>1, <2>3, <3>1, SubscribesToSources DEF Run, ConsumerRight
    <3>3. PICK taken \in Nat : taken = LastTaken(c, t) /\ LastTaken(c, t)' = taken
      BY <1>7, <1>13, <2>1, <3>2 DEF LastTaken, ConsumerStates
    <3>4. Numbers(consumer[c].channel, t) = taken + 1..last /\ taken <= last
      BY <3>1, <3>3 DEF Run
    <3>5. CASE t # s
      <4>1. /\ Numbers(consumer'[c].channel, t) = Numbers(consumer[c].channel, t)
            /\ Rising(consumer'[c].channel, t)
        BY <1>3, <2>0, <3>2, <3>5, SentIsOneMore
      <4>2. published'[t] = published[t]
        BY <1>5, <3>2, <3>5
      <4>3. Run(c, t, last)'
        BY <1>7, <1>13, <3>1, <3>2, <3>3, <3>4, <4>1, <4>2 DEF Run
      <4> QED
        BY <4>1, <4>3
    <3>6. CASE t = s
      <4>1. last + 1 = n
        BY <1>3, <3>2, <3>6
      <4>2. \A m \in Numbers(consumer[c].channel, t) : m < n
        BY <3>4, <4>1
      <4>3. /\ Numbers(consumer'[c].channel, t) = Numbers(consumer[c].channel, t) \cup {n}
            /\ Rising(consumer'[c].channel, t)
        BY <1>3, <2>0, <3>2, <3>6, <4>2, SentIsOneMore
      <4>4. Numbers(consumer'[c].channel, t) = taken + 1..n /\ n \in taken..n
        BY <3>3, <3>4, <4>1, <4>3
      <4>5. Run(c, t, n)'
        BY <1>5, <1>7, <1>13, <3>2, <3>3, <3>6, <4>4 DEF Run
      <4> QED
        BY <1>3, <4>3, <4>5
    <3> QED
      BY <3>5, <3>6
  <2>4. consumer'[c].at # "new"
    <3>1. PICK last \in Nat : Run(c, s, last)
      BY <1>7, <1>13, <2>1 DEF ConsumerRight
    <3> QED
      BY <1>7, <1>13, <3>1 DEF Run
  <2> QED
    BY <1>7, <1>11, <1>13, <2>1, <2>2, <2>3, <2>4 DEF ConsumerRight
<1>14. \A c \in DOMAIN Consumers : ConsumerRight(c)'
  BY <1>12, <1>13
<1> QED
  BY <1>9, <1>10, <1>14 DEF UpdatesInv

\* Every step of the manager and of its consumers keeps the invariant.
LEMMA UpdatesGoOn == UpdatesInv /\ [UpdatesNext]_updateVars => UpdatesInv'
<1>1. SUFFICES ASSUME UpdatesInv, [UpdatesNext]_updateVars PROVE UpdatesInv'
  OBVIOUS
<1>2. CASE UNCHANGED updateVars
  <2>1. \A c \in DOMAIN Consumers : ConsumerRight(c)'
    BY <1>1, <1>2, ConsumerStays DEF updateVars
  <2> QED
    BY <1>1, <1>2, <2>1 DEF updateVars, UpdatesInv, UpdatesTypeOK, PublishedFollows
<1>3. ASSUME NEW s \in UpdateSources, Fetch(s) \/ Publish(s)
      PROVE  UpdatesInv'
  BY <1>1, <1>3, FetchKeeps, PublishKeeps
<1>4. ASSUME NEW c \in DOMAIN Consumers,
             Subscribe(c) \/ LookAtCache(c) \/ Receive(c) \/ Unsubscribe(c)
      PROVE  UpdatesInv'
  BY <1>1, <1>4, SubscribeKeeps, LookKeeps, ReceiveKeeps, UnsubscribeKeeps
<1> QED
  BY <1>1, <1>2, <1>3, <1>4 DEF UpdatesNext

\* However often a source publishes while consumers come, fall behind, are pruned and leave,
\* what each gets is without a gap, no channel in the list is closed, and one that looks at
\* the cache after it subscribed misses nothing until it is pruned (manager.go:438).
THEOREM UpdatesAreTold == UpdatesSpec => []UpdatesTold
<1>1. UpdatesSpec => []UpdatesInv
  BY UpdatesStart, UpdatesGoOn, PTL DEF UpdatesSpec
<1> QED
  BY <1>1, RunsTell, PTL

\* The same of the behaviours that the run checks, where the update check and the schema are
\* two of the parts of the service, for any number of sources, consumers and schema steps.
THEOREM ServiceTellsAndStarts == MCSpec => []TellsAndStarts
<1>1. MCInit => UpdatesInv /\ SchemaInv
  BY UpdatesStart, SchemaStarts DEF MCInit
<1>2. [MCNext]_<<part, vars, responseVars, updateVars, schemaVars>> =>
          [UpdatesNext]_updateVars /\ [SchemaNext]_schemaVars
  BY DEF MCNext
<1>3. MCSpec => [](UpdatesInv /\ SchemaInv)
  BY <1>1, <1>2, UpdatesGoOn, SchemaGoesOn, PTL DEF MCSpec
<1>4. UpdatesInv /\ SchemaInv => TellsAndStarts
  BY RunsTell DEF TellsAndStarts, SchemaInv
<1> QED
  BY <1>3, <1>4, PTL

=============================================================================
