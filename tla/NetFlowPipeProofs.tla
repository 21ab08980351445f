-------------------------- MODULE NetFlowPipeProofs --------------------------
(***************************************************************************)
(* Theorems about NetFlowPipe for any workers, exporters and template ids, *)
(* and any number of packets.                                              *)
(*                                                                         *)
(* TypeOK alone is not inductive: the number of a job's packet must be one *)
(* of a system.  Numbering says what makes the number a new one: no other  *)
(* packet in hand has it, and nothing refers yet to the system it would    *)
(* give.  On it rest the ownership of systems and of the templates.        *)
(* The same numbers name the sampling rate systems, which have an          *)
(* invariant of their own, RateInv.                                        *)
(*                                                                         *)
(* What several workers can lose, a template or a rate, is lost to one     *)
(* race only, two creations of a system for the same key.  The last        *)
(* theorems have its absence as their hypothesis; with one worker it       *)
(* cannot happen.                                                          *)
(***************************************************************************)
EXTENDS NetFlowPipe, TLAPS

Busy(w) == ~At(w, "idle")

\* The packets in hand have numbers given out, each one its own.
Numbered ==
  /\ \A w \in Workers : Busy(w) => job[w].number \in 1..packets
  /\ \A v, w \in Workers : v # w /\ Busy(v) /\ Busy(w) =>
                             job[v].number # job[w].number

Searching(w) == At(w, "lookup") \/ At(w, "create")
Holding(w) == Busy(w) /\ ~Searching(w)

\* A job holds a template system exactly when it is past the lookup.
HoldsWhenPast ==
  \A w \in Workers : job[w].sys # NoSys <=> Holding(w)

\* The system n is not in use: nothing refers to it and it is empty.
Unused(n) ==
  /\ \A e \in Exporters : templates[e] # n
  /\ \A w \in Workers : job[w].sys # n
  /\ n \in Systems => defined[n] = {}

\* Systems yet to be created are not in use.
FreshUnused ==
  /\ \A n \in Systems : n > packets => Unused(n)
  /\ \A w \in Workers : Searching(w) => Unused(job[w].number)

OwnTemplatesInHand ==
  \A w \in Workers :
    job[w].sys # NoSys => defined[job[w].sys] \subseteq learned[job[w].src]

RateSystemInHand == \A w \in Workers : At(w, "rate") => job[w].rateSys # NoSys

IInv == /\ TypeOK /\ Numbered /\ HoldsWhenPast /\ RateSystemInHand /\ FreshUnused
        /\ SystemsAreApart /\ OnlyOwnTemplates /\ OwnTemplatesInHand

-----------------------------------------------------------------------------
(* Values *)

\* The record of a worker without a call is a job that holds nothing.
LEMMA NoJobFacts ==
  NoJob \in Jobs /\ NoJob.at = "idle" /\ NoJob.sys = NoSys
<1>1. (CHOOSE e \in Exporters : TRUE) \in Exporters
  BY ConstantsAssumption
<1>2. <<>> \in Seq(FlowSets)
  OBVIOUS
<1>3. 0 \in 0..MaxPackets
  BY ConstantsAssumption
<1> QED
  BY <1>1, <1>2, <1>3 DEF NoJob, NewJob, Jobs

\* A call starts as a job that searches for its template system.
LEMMA NewJobFacts ==
  ASSUME NEW n \in 0..MaxPackets, NEW e \in Exporters, NEW s \in Seq(FlowSets)
  PROVE  /\ NewJob(n, e, s) \in Jobs
         /\ NewJob(n, e, s).at = "lookup" /\ NewJob(n, e, s).number = n
         /\ NewJob(n, e, s).src = e /\ NewJob(n, e, s).sys = NoSys
  BY DEF NewJob, Jobs

\* The flow set a job is at, and what is left after it.
LEMMA FlowSetType ==
  ASSUME NEW j \in Jobs, j.sets # <<>>
  PROVE  /\ Head(j.sets).id \in Ids /\ Head(j.sets).defines \in BOOLEAN
         /\ Tail(j.sets) \in Seq(FlowSets)
<1>1. j.sets \in Seq(FlowSets)
  BY DEF Jobs
<1>2. Head(j.sets) \in FlowSets /\ Tail(j.sets) \in Seq(FlowSets)
  BY <1>1
<1> QED
  BY <1>2 DEF FlowSets

\* The steps of a call change these fields of its job, and it stays a job.
LEMMA JobMoves ==
  ASSUME NEW j \in Jobs, NEW y \in Systems \cup {NoSys}
  PROVE  /\ \A a \in {"create", "decode"} :
               [j EXCEPT !.at = a, !.sys = y] \in Jobs
         /\ \A a \in {"createSampling", "rate"} :
               [j EXCEPT !.at = a, !.rateSys = y] \in Jobs
         /\ [j EXCEPT !.at = "sampling"] \in Jobs
         /\ \A r \in BOOLEAN : [j EXCEPT !.at = "send", !.rated = r] \in Jobs
  BY DEF Jobs

LEMMA JobSets ==
  ASSUME NEW j \in Jobs, NEW s \in Seq(FlowSets), NEW m \in SUBSET Ids,
         NEW o \in BOOLEAN
  PROVE  /\ [j EXCEPT !.sets = s] \in Jobs
         /\ [j EXCEPT !.sets = s, !.missing = m, !.option = o] \in Jobs
  BY DEF Jobs

-----------------------------------------------------------------------------
(* Types *)

LEMMA InitTypes == Init => TypeOK
  BY NoJobFacts, ConstantsAssumption
     DEF Init, TypeOK, NoSys, NothingSure

LEMMA TypesStep ==
  IInv /\ [Next]_vars => TypeOK'
<1> SUFFICES ASSUME IInv, [Next]_vars PROVE TypeOK'
  OBVIOUS
<1> USE ConstantsAssumption DEF TypeOK, NoSys, Systems
<1>0. /\ TypeOK
      /\ \A w \in Workers : job[w] \in Jobs
  BY DEF IInv
<1>a. ASSUME NEW w \in Workers, Return(w)
      PROVE  job' \in [Workers -> Jobs]
             /\ sure' \in [Workers -> [ids : SUBSET Ids, rate : BOOLEAN]]
  BY <1>0, <1>a, NoJobFacts DEF Return, Become, NothingSure
<1>b. ASSUME NEW w \in Workers, NEW j \in Jobs, Become(w, j)
      PROVE  job' \in [Workers -> Jobs]
  BY <1>0, <1>b DEF Become
<1>1. ASSUME NEW w \in Workers, NEW e \in Exporters, NEW s \in PacketSets,
             Accept(w, e, s)
      PROVE  TypeOK'
  <2>1. packets' \in 0..MaxPackets /\ s \in Seq(FlowSets)
    BY <1>0, <1>1 DEF Accept
  <2>2. NewJob(packets', e, s) \in Jobs
    BY <2>1, NewJobFacts
  <2>3. [ids |-> learned[e], rate |-> HostOf(e) \in rateLearned]
          \in [ids : SUBSET Ids, rate : BOOLEAN]
    BY <1>0
  <2> QED
    BY <1>0, <1>1, <2>1, <2>2, <2>3 DEF Accept, Become, cacheVars
<1>2. ASSUME NEW w \in Workers, LookupTemplates(w) PROVE TypeOK'
  <2> DEFINE y == templates[job[w].src]
             a == IF y = NoSys THEN "create" ELSE "decode"
  <2>1. y \in Systems \cup {NoSys} /\ a \in {"create", "decode"}
    BY <1>0 DEF Jobs
  <2>2. [job[w] EXCEPT !.at = a, !.sys = y] \in Jobs
    BY <1>0, <2>1, JobMoves
  <2>3. job' \in [Workers -> Jobs]
    BY <1>2, <1>b, <2>2 DEF LookupTemplates
  <2> QED
    BY <1>0, <1>2, <2>3 DEF LookupTemplates, cacheVars
<1>3. ASSUME NEW w \in Workers, CreateTemplates(w) PROVE TypeOK'
  <2>1. job[w].number \in Systems
    BY <1>0, <1>3 DEF IInv, Numbered, Busy, At, CreateTemplates
  <2>2. [job[w] EXCEPT !.at = "decode", !.sys = job[w].number] \in Jobs
    BY <1>0, <2>1, JobMoves
  <2>3. job' \in [Workers -> Jobs]
    BY <1>3, <1>b, <2>2 DEF CreateTemplates
  <2>4. templates' \in [Exporters -> Systems \cup {NoSys}]
    BY <1>0, <1>3, <2>1 DEF CreateTemplates
  <2> QED
    BY <1>0, <1>3, <2>3, <2>4 DEF CreateTemplates
<1>4. ASSUME NEW w \in Workers, AddTemplate(w) PROVE TypeOK'
  <2>1. /\ Head(job[w].sets).id \in Ids
        /\ Tail(job[w].sets) \in Seq(FlowSets)
    BY <1>0, <1>4, FlowSetType DEF AddTemplate, AddTemplateAs, AtFlowSet
  <2>2. [job[w] EXCEPT !.sets = Tail(@)] \in Jobs
    BY <1>0, <2>1, JobSets
  <2>3. job' \in [Workers -> Jobs]
    BY <1>4, <1>b, <2>2 DEF AddTemplate, AddTemplateAs
  <2>4. defined' \in [Systems -> SUBSET Ids]
    BY <1>0, <1>4, <2>1 DEF AddTemplate, AddTemplateAs
  <2>5. learned' \in [Exporters -> SUBSET Ids]
    BY <1>0, <1>4, <2>1 DEF AddTemplate, AddTemplateAs
  <2>6. sure' \in [Workers -> [ids : SUBSET Ids, rate : BOOLEAN]]
    BY <1>0, <1>4, <2>1 DEF AddTemplate, AddTemplateAs
  <2> QED
    BY <1>0, <1>4, <2>3, <2>4, <2>5, <2>6 DEF AddTemplate, AddTemplateAs
<1>5. ASSUME NEW w \in Workers, DecodeData(w) PROVE TypeOK'
  <2>1. /\ Head(job[w].sets).id \in Ids
        /\ Tail(job[w].sets) \in Seq(FlowSets)
    BY <1>0, <1>5, FlowSetType DEF DecodeData, AtFlowSet
  <2> DEFINE id == Head(job[w].sets).id
             found == id \in defined[job[w].sys]
             j == [job[w] EXCEPT !.sets = Tail(@),
                                 !.missing = IF found THEN @ ELSE @ \cup {id},
                                 !.option = @ \/ (found /\ id \in OptionIds)]
  <2>2. /\ (IF found THEN job[w].missing ELSE job[w].missing \cup {id})
             \in SUBSET Ids
        /\ (job[w].option \/ (found /\ id \in OptionIds)) \in BOOLEAN
    BY <1>0, <2>1 DEF Jobs
  <2>3. j \in Jobs
    BY <1>0, <2>1, <2>2, JobSets
  <2>4. job' \in [Workers -> Jobs]
    BY <1>5, <1>b, <2>3 DEF DecodeData
  <2> QED
    BY <1>0, <1>5, <2>4 DEF DecodeData, cacheVars
<1>6. ASSUME NEW w \in Workers, Malformed(w) PROVE TypeOK'
  BY <1>0, <1>6, <1>a DEF Malformed, cacheVars
<1>7. ASSUME NEW w \in Workers, UnknownTemplate(w) PROVE TypeOK'
  BY <1>0, <1>7, <1>a DEF UnknownTemplate, cacheVars
<1>8. ASSUME NEW w \in Workers, Decoded(w) PROVE TypeOK'
  <2>1. [job[w] EXCEPT !.at = "sampling"] \in Jobs
    BY <1>0, JobMoves
  <2>2. job' \in [Workers -> Jobs]
    BY <1>8, <1>b, <2>1 DEF Decoded
  <2> QED
    BY <1>0, <1>8, <2>2 DEF Decoded, cacheVars
<1>9. ASSUME NEW w \in Workers, DecodeV5(w) PROVE TypeOK'
  <2>1. [job[w] EXCEPT !.at = "send", !.rated = TRUE] \in Jobs
    BY <1>0, JobMoves
  <2>2. job' \in [Workers -> Jobs]
    BY <1>9, <1>b, <2>1 DEF DecodeV5
  <2> QED
    BY <1>0, <1>9, <2>2 DEF DecodeV5, cacheVars
<1>10. ASSUME NEW w \in Workers, LookupSampling(w) PROVE TypeOK'
  <2> DEFINE y == sampling[HostOf(job[w].src)]
             a == IF y = NoSys THEN "createSampling" ELSE "rate"
  <2>1. HostOf(job[w].src) \in Hosts
    BY <1>0 DEF Jobs
  <2>2. y \in Systems \cup {NoSys} /\ a \in {"createSampling", "rate"}
    BY <1>0, <2>1
  <2>3. [job[w] EXCEPT !.at = a, !.rateSys = y] \in Jobs
    BY <1>0, <2>2, JobMoves
  <2>4. job' \in [Workers -> Jobs]
    BY <1>10, <1>b, <2>3 DEF LookupSampling
  <2> QED
    BY <1>0, <1>10, <2>4 DEF LookupSampling, cacheVars
<1>11. ASSUME NEW w \in Workers, CreateSampling(w) PROVE TypeOK'
  <2>1. job[w].number \in Systems
    BY <1>0, <1>11 DEF IInv, Numbered, Busy, At, CreateSampling
  <2>2. [job[w] EXCEPT !.at = "rate", !.rateSys = job[w].number] \in Jobs
    BY <1>0, <2>1, JobMoves
  <2>3. job' \in [Workers -> Jobs]
    BY <1>11, <1>b, <2>2 DEF CreateSampling
  <2>4. sampling' \in [Hosts -> Systems \cup {NoSys}]
    BY <1>0, <1>11, <2>1 DEF CreateSampling
  <2> QED
    BY <1>0, <1>11, <2>3, <2>4 DEF CreateSampling
<1>12. ASSUME NEW w \in Workers, ApplyRate(w) PROVE TypeOK'
  <2>1. job[w].rateSys \in Systems
    BY <1>0, <1>12 DEF IInv, RateSystemInHand, ApplyRate, Jobs
  <2>2. rates' \subseteq Systems
    BY <1>0, <1>12, <2>1 DEF ApplyRate
  <2>3. HostOf(job[w].src) \in Hosts
    BY <1>0 DEF Jobs
  <2>4. rateLearned' \subseteq Hosts
    BY <1>0, <1>12, <2>3 DEF ApplyRate
  <2>5. job' \in [Workers -> Jobs]
    <3> DEFINE r == job[w].option \/ job[w].rateSys \in rates
    <3>1. r \in BOOLEAN
      BY <1>0 DEF Jobs
    <3>2. [job[w] EXCEPT !.at = "send", !.rated = r] \in Jobs
      BY <1>0, <3>1, JobMoves
    <3> QED
      BY <1>12, <1>b, <3>2 DEF ApplyRate
  <2> QED
    BY <1>0, <1>12, <2>2, <2>4, <2>5 DEF ApplyRate
<1>13. ASSUME NEW w \in Workers, ProduceFails(w) PROVE TypeOK'
  BY <1>0, <1>13, <1>a DEF ProduceFails, cacheVars
<1>14. ASSUME NEW w \in Workers, FormatSend(w) PROVE TypeOK'
  BY <1>0, <1>14, <1>a DEF FormatSend, cacheVars
<1>15. CASE UNCHANGED vars
  BY <1>0, <1>15 DEF vars, cacheVars
<1> QED
  BY <1>1, <1>2, <1>3, <1>4, <1>5, <1>6, <1>7, <1>8, <1>9, <1>10, <1>11, <1>12,
     <1>13, <1>14, <1>15 DEF Next, DecodeFlow

-----------------------------------------------------------------------------
(* The shapes of the steps, as far as template systems are concerned *)

Others(w) == \A v \in Workers : v # w => job'[v] = job[v]
OthersSure(w) == \A v \in Workers : v # w => sure'[v] = sure[v]
SameCall(w) == /\ job'[w].number = job[w].number
               /\ job'[w].src = job[w].src

Accepts(w) ==
  /\ Others(w) /\ ~Busy(w) /\ At(w, "lookup")'
  /\ packets < MaxPackets /\ packets' = packets + 1
  /\ job'[w].number = packets' /\ job'[w].sys = NoSys
  /\ OthersSure(w) /\ sure'[w].ids = learned[job'[w].src]
  /\ UNCHANGED <<templates, defined, learned>>
Looks(w) ==
  /\ Others(w) /\ SameCall(w) /\ At(w, "lookup")
  /\ job'[w].sys = templates[job[w].src]
  /\ job'[w].at = IF job'[w].sys = NoSys THEN "create" ELSE "decode"
  /\ UNCHANGED <<templates, defined, packets, learned, sure>>
Creates(w) ==
  /\ Others(w) /\ SameCall(w) /\ At(w, "create") /\ At(w, "decode")'
  /\ job'[w].sys = job[w].number
  /\ templates' = [templates EXCEPT ![job[w].src] = job[w].number]
  /\ UNCHANGED <<defined, packets, learned, sure>>
Stays(w) ==
  /\ Others(w) /\ SameCall(w) /\ job'[w].sys = job[w].sys
  /\ Holding(w) /\ Holding(w)'
  /\ UNCHANGED <<templates, packets>>
Works(w) == Stays(w) /\ UNCHANGED <<defined, learned, sure>>
Adds(w) ==
  /\ Stays(w)
  /\ \E id \in Ids :
       /\ defined' = [defined EXCEPT ![job[w].sys] = @ \cup {id}]
       /\ learned' = [learned EXCEPT ![job[w].src] = @ \cup {id}]
       /\ OthersSure(w) /\ sure'[w].ids = sure[w].ids \cup {id}
Ends(w) ==
  /\ Others(w) /\ job'[w].at = "idle" /\ job'[w].sys = NoSys
  /\ OthersSure(w) /\ sure'[w].ids = {}
  /\ UNCHANGED <<templates, defined, packets, learned>>

Shape(w) == \/ Accepts(w) \/ Looks(w) \/ Creates(w) \/ Works(w) \/ Adds(w)
            \/ Ends(w)

LEMMA Shapes ==
  ASSUME TypeOK, NEW w \in Workers,
         \/ \E e \in Exporters, s \in PacketSets : Accept(w, e, s)
         \/ DecodeFlow(w)
  PROVE  Shape(w)
<1> USE DEF At, Become, Others, SameCall, Holding, Searching, Busy, Stays
<1>0. /\ job \in [Workers -> Jobs] /\ job[w] \in Jobs
      /\ sure \in [Workers -> [ids : SUBSET Ids, rate : BOOLEAN]]
  BY DEF TypeOK
<1>a. ASSUME Return(w), UNCHANGED <<cacheVars, packets, learned>>
      PROVE  Ends(w)
  BY <1>0, <1>a, NoJobFacts DEF Return, Ends, OthersSure, NothingSure, cacheVars
<1>1. ASSUME NEW e \in Exporters, NEW s \in PacketSets, Accept(w, e, s)
      PROVE  Accepts(w)
  <2>1. packets' \in 0..MaxPackets /\ s \in Seq(FlowSets)
    BY <1>1, ConstantsAssumption DEF TypeOK, Accept
  <2>2. OthersSure(w) /\ sure'[w].ids = learned[e]
    BY <1>0, <1>1 DEF Accept, OthersSure
  <2>3. job'[w] = NewJob(packets', e, s) /\ Others(w)
    BY <1>0, <1>1 DEF Accept
  <2> QED
    BY <1>1, <2>1, <2>2, <2>3, NewJobFacts DEF Accept, Accepts, cacheVars
<1>2. CASE LookupTemplates(w)
  <2> DEFINE y == templates[job[w].src]
             a == IF y = NoSys THEN "create" ELSE "decode"
  <2>1. job' = [job EXCEPT ![w] = [job[w] EXCEPT !.at = a, !.sys = y]]
    BY <1>2 DEF LookupTemplates
  <2>2. job'[w] = [job[w] EXCEPT !.at = a, !.sys = y] /\ Others(w)
    BY <1>0, <2>1
  <2>3. job'[w].at = a /\ job'[w].sys = y /\ SameCall(w)
    BY <1>0, <2>2 DEF Jobs
  <2> QED
    BY <1>2, <2>2, <2>3 DEF LookupTemplates, Looks, Shape, cacheVars
<1>3. CASE CreateTemplates(w)
  BY <1>0, <1>3 DEF CreateTemplates, Creates, Shape, Jobs
<1>4. CASE AddTemplate(w)
  <2>1. Head(job[w].sets).id \in Ids
    BY <1>0, <1>4, FlowSetType DEF AddTemplate, AddTemplateAs, AtFlowSet
  <2>2. Stays(w)
    BY <1>0, <1>4 DEF AddTemplate, AddTemplateAs, AtFlowSet, Jobs
  <2> DEFINE id == Head(job[w].sets).id
  <2>3. OthersSure(w) /\ sure'[w].ids = sure[w].ids \cup {id}
    BY <1>0, <1>4 DEF AddTemplate, AddTemplateAs, OthersSure
  <2>4. /\ defined' = [defined EXCEPT ![job[w].sys] = @ \cup {id}]
        /\ learned' = [learned EXCEPT ![job[w].src] = @ \cup {id}]
    BY <1>4 DEF AddTemplate, AddTemplateAs
  <2> QED
    BY <2>1, <2>2, <2>3, <2>4 DEF Adds, Shape
<1>5. CASE DecodeData(w)
  BY <1>0, <1>5 DEF DecodeData, AtFlowSet, Works, Shape, Jobs, cacheVars
<1>6. CASE Malformed(w) \/ UnknownTemplate(w) \/ ProduceFails(w) \/ FormatSend(w)
  BY <1>a, <1>6
     DEF Malformed, UnknownTemplate, ProduceFails, FormatSend, Shape, cacheVars
<1>7. CASE Decoded(w)
  BY <1>0, <1>7 DEF Decoded, Works, Shape, Jobs, cacheVars
<1>11. CASE DecodeV5(w)
  BY <1>0, <1>11 DEF DecodeV5, Works, Shape, Jobs, cacheVars
<1>8. CASE LookupSampling(w)
  BY <1>0, <1>8 DEF LookupSampling, Works, Shape, Jobs, cacheVars
<1>9. CASE CreateSampling(w)
  BY <1>0, <1>9 DEF CreateSampling, Works, Shape, Jobs
<1>10. CASE ApplyRate(w)
  BY <1>0, <1>10 DEF ApplyRate, Works, Shape, Jobs
<1> QED
  BY <1>1, <1>2, <1>3, <1>4, <1>5, <1>6, <1>7, <1>8, <1>9, <1>10,
     <1>11 DEF DecodeFlow, Shape

\* The fields of a job that the following lemmas compare.
LEMMA JobFields ==
  ASSUME TypeOK, NEW w \in Workers
  PROVE  /\ job[w].number \in 0..MaxPackets /\ job[w].src \in Exporters
         /\ job[w].sys \in 0..MaxPackets
  BY ConstantsAssumption DEF TypeOK, Jobs, Systems, NoSys

-----------------------------------------------------------------------------
(* Each invariant is preserved by each shape *)

LEMMA NumberedStep ==
  ASSUME TypeOK, Numbered, NEW w \in Workers, Shape(w)
  PROVE  Numbered'
<1> USE DEF Numbered, Busy, At, Others, SameCall
<1>0. packets \in 0..MaxPackets /\ MaxPackets \in Nat
  BY ConstantsAssumption DEF TypeOK
<1>1. CASE Accepts(w)
  BY <1>0, <1>1 DEF Accepts
<1>2. CASE Looks(w) \/ Creates(w)
  BY <1>0, <1>2 DEF Looks, Creates
<1>3. CASE Works(w) \/ Adds(w)
  BY <1>0, <1>3 DEF Works, Adds, Stays, Holding
<1>4. CASE Ends(w)
  BY <1>0, <1>4 DEF Ends
<1> QED
  BY <1>1, <1>2, <1>3, <1>4 DEF Shape

LEMMA HoldsWhenPastStep ==
  ASSUME TypeOK, Numbered, HoldsWhenPast, NEW w \in Workers, Shape(w)
  PROVE  HoldsWhenPast'
<1> USE DEF HoldsWhenPast, Holding, Searching, Busy, At, Others
<1>1. CASE Accepts(w)
  BY <1>1 DEF Accepts
<1>2. CASE Looks(w)
  BY <1>2 DEF Looks
<1>3. CASE Creates(w)
  <2>1. job[w].number # NoSys
    BY <1>3 DEF Creates, Numbered, NoSys
  <2> QED
    BY <1>3, <2>1 DEF Creates
<1>4. CASE Works(w) \/ Adds(w)
  BY <1>4 DEF Works, Adds, Stays
<1>5. CASE Ends(w)
  BY <1>5 DEF Ends
<1> QED
  BY <1>1, <1>2, <1>3, <1>4, <1>5 DEF Shape

LEMMA FreshUnusedStep ==
  ASSUME TypeOK, Numbered, HoldsWhenPast, FreshUnused, NEW w \in Workers,
         Shape(w)
  PROVE  FreshUnused'
<1> USE DEF Others
<1>0. /\ packets \in 0..MaxPackets /\ MaxPackets \in Nat
      /\ \A v \in Workers : Searching(v) => job[v].number \in 1..packets
      /\ \A v \in Workers : v # w /\ Searching(v) /\ Busy(w) =>
                              job[v].number # job[w].number
  BY ConstantsAssumption DEF TypeOK, Numbered, Searching, Busy, At
<1>1. CASE Accepts(w)
  <2>1. ASSUME NEW n \in Systems, Unused(n) PROVE Unused(n)'
    BY <1>1, <2>1 DEF Accepts, Unused, Systems, NoSys
  <2>2. \A n \in Systems : n > packets' => n > packets
    BY <1>0, <1>1 DEF Accepts, Systems
  <2>3. job'[w].number \in Systems /\ job'[w].number > packets
    BY <1>0, <1>1 DEF Accepts, Systems
  <2>4. \A v \in Workers : v # w /\ Searching(v)' =>
                             Searching(v) /\ job'[v].number = job[v].number
    BY <1>1 DEF Accepts, Searching, At
  <2>5. \A v \in Workers : Searching(v) => job[v].number \in Systems
    BY <1>0 DEF Systems
  <2> QED
    BY <2>1, <2>2, <2>3, <2>4, <2>5 DEF FreshUnused
<1>2. CASE Looks(w)
  <2>1. job[w].src \in Exporters
    BY JobFields
  <2>2. ASSUME NEW n, Unused(n) PROVE Unused(n)'
    BY <1>2, <2>1, <2>2 DEF Looks, Unused
  <2>3. \A v \in Workers : Searching(v)' =>
                             Searching(v) /\ job'[v].number = job[v].number
    BY <1>2 DEF Looks, Searching, At, SameCall
  <2> QED
    BY <1>2, <2>2, <2>3 DEF FreshUnused, Looks
<1>3. CASE Creates(w)
  <2>1. ASSUME NEW n, Unused(n), n # job[w].number PROVE Unused(n)'
    BY <1>3, <2>1 DEF Creates, Unused, TypeOK
  <2>2. \A n \in Systems : n > packets' => n > packets /\ n # job[w].number
    BY <1>0, <1>3 DEF Creates, Systems, Searching
  <2>3. \A v \in Workers : Searching(v)' =>
          /\ Searching(v) /\ job'[v].number = job[v].number
          /\ job[v].number # job[w].number
    BY <1>0, <1>3 DEF Creates, Searching, At, SameCall, Busy
  <2> QED
    BY <2>1, <2>2, <2>3 DEF FreshUnused
<1>4. CASE Works(w) \/ Adds(w)
  <2>1. ASSUME NEW n, Unused(n) PROVE Unused(n)'
    BY <1>4, <2>1 DEF Works, Adds, Stays, Unused, TypeOK
  <2>2. \A v \in Workers : Searching(v)' =>
                             Searching(v) /\ job'[v].number = job[v].number
    BY <1>4 DEF Works, Adds, Stays, Searching, Holding, At, SameCall
  <2>3. packets' = packets
    BY <1>4 DEF Works, Adds, Stays
  <2> QED
    BY <2>1, <2>2, <2>3 DEF FreshUnused
<1>5. CASE Ends(w)
  <2>1. ASSUME NEW n, Unused(n), n # NoSys PROVE Unused(n)'
    BY <1>5, <2>1 DEF Ends, Unused
  <2>2. \A v \in Workers : Searching(v)' =>
          /\ Searching(v) /\ job'[v].number = job[v].number
          /\ job[v].number # NoSys
    BY <1>0, <1>5 DEF Ends, Searching, At, NoSys
  <2>3. \A n \in Systems : n # NoSys
    BY DEF Systems, NoSys
  <2> QED
    BY <1>5, <2>1, <2>2, <2>3 DEF FreshUnused, Ends
<1> QED
  BY <1>1, <1>2, <1>3, <1>4, <1>5 DEF Shape

LEMMA SystemsAreApartStep ==
  ASSUME TypeOK, HoldsWhenPast, FreshUnused, SystemsAreApart,
         NEW w \in Workers, Shape(w)
  PROVE  SystemsAreApart'
<1> USE DEF SystemsAreApart, Others, SameCall
<1>0. \A v \in Workers : job[v].src \in Exporters
  BY JobFields
<1>1. CASE Accepts(w)
  BY <1>1 DEF Accepts
<1>2. CASE Looks(w)
  BY <1>0, <1>2 DEF Looks
<1>3. CASE Creates(w)
  <2>1. /\ \A e \in Exporters : templates[e] # job[w].number
        /\ \A v \in Workers : job[v].sys # job[w].number
    BY <1>3 DEF Creates, FreshUnused, Searching, Unused
  <2>2. job[w].src \in Exporters /\ DOMAIN templates = Exporters
    BY <1>0 DEF TypeOK
  <2> QED
    BY <1>3, <2>1, <2>2 DEF Creates
<1>4. CASE Works(w) \/ Adds(w)
  BY <1>4 DEF Works, Adds, Stays
<1>5. CASE Ends(w)
  BY <1>5 DEF Ends
<1> QED
  BY <1>1, <1>2, <1>3, <1>4, <1>5 DEF Shape

LEMMA OwnTemplatesStep ==
  ASSUME TypeOK, Numbered, HoldsWhenPast, FreshUnused, SystemsAreApart,
         OnlyOwnTemplates, OwnTemplatesInHand, NEW w \in Workers, Shape(w)
  PROVE  OnlyOwnTemplates' /\ OwnTemplatesInHand'
<1> USE DEF OnlyOwnTemplates, OwnTemplatesInHand, Others, SameCall
<1>0. \A v \in Workers : job[v].src \in Exporters
  BY JobFields
<1>1. CASE Accepts(w)
  BY <1>1 DEF Accepts
<1>2. CASE Looks(w)
  BY <1>0, <1>2 DEF Looks
<1>3. CASE Creates(w)
  <2>1. job[w].number \in Systems
    <3>1. job[w].number \in 1..packets /\ packets \in 0..MaxPackets
      BY <1>3 DEF Creates, Numbered, Busy, At, TypeOK
    <3> QED
      BY <3>1, ConstantsAssumption DEF Systems
  <2>2. defined[job[w].number] = {}
    BY <1>3, <2>1 DEF Creates, FreshUnused, Searching, Unused
  <2> QED
    BY <1>0, <1>3, <2>2 DEF Creates, TypeOK
<1>4. CASE Works(w)
  BY <1>4 DEF Works, Stays
<1>5. CASE Adds(w)
  <2>1. PICK id \in Ids :
          /\ defined' = [defined EXCEPT ![job[w].sys] = @ \cup {id}]
          /\ learned' = [learned EXCEPT ![job[w].src] = @ \cup {id}]
    BY <1>5 DEF Adds
  <2>2. job[w].sys # NoSys
    BY <1>5 DEF Adds, Stays, HoldsWhenPast
  <2>3. ASSUME NEW y \in Systems, NEW e \in Exporters,
               defined[y] \subseteq learned[e],
               y = job[w].sys => e = job[w].src
        PROVE  defined'[y] \subseteq learned'[e]
    BY <2>1, <2>3 DEF TypeOK
  <2>4. \A e \in Exporters : templates'[e] # NoSys =>
          /\ templates[e] = templates'[e] /\ templates[e] \in Systems
          /\ templates[e] = job[w].sys => e = job[w].src
    BY <1>5, <2>2 DEF Adds, Stays, SystemsAreApart, TypeOK
  <2>5. \A v \in Workers : job[v].sys \in Systems \cup {NoSys}
    BY DEF TypeOK, Jobs
  <2>6. \A v \in Workers : job'[v].sys # NoSys =>
          /\ job'[v].sys = job[v].sys /\ job'[v].src = job[v].src
          /\ job[v].sys \in Systems
          /\ job[v].sys = job[w].sys => job[v].src = job[w].src
    BY <1>5, <2>2, <2>5 DEF Adds, Stays, SystemsAreApart
  <2> QED
    BY <1>0, <2>3, <2>4, <2>6
<1>6. CASE Ends(w)
  BY <1>6 DEF Ends
<1> QED
  BY <1>1, <1>2, <1>3, <1>4, <1>5, <1>6 DEF Shape

LEMMA RateSystemStep ==
  ASSUME TypeOK, Numbered, RateSystemInHand, NEW w \in Workers,
         \/ \E e \in Exporters, s \in PacketSets : Accept(w, e, s)
         \/ DecodeFlow(w)
  PROVE  RateSystemInHand'
<1> USE DEF RateSystemInHand, At, Become
<1>0. job \in [Workers -> Jobs] /\ job[w] \in Jobs
  BY DEF TypeOK
<1>a. ASSUME NEW j, Become(w, j), j.at = "rate" => j.rateSys # NoSys
      PROVE  RateSystemInHand'
  BY <1>0, <1>a
<1>1. ASSUME NEW e \in Exporters, NEW s \in PacketSets, Accept(w, e, s)
      PROVE  RateSystemInHand'
  BY <1>1, <1>a DEF Accept, NewJob
<1>2. CASE LookupTemplates(w)
  <2> DEFINE y == templates[job[w].src]
             a == IF y = NoSys THEN "create" ELSE "decode"
             j == [job[w] EXCEPT !.at = a, !.sys = y]
  <2>1. j.at # "rate"
    BY <1>0 DEF Jobs
  <2>2. Become(w, j)
    BY <1>2 DEF LookupTemplates
  <2> QED
    BY <1>a, <2>1, <2>2
<1>3. CASE CreateTemplates(w)
  BY <1>0, <1>3 DEF CreateTemplates, Jobs
<1>4. CASE AddTemplate(w)
  BY <1>0, <1>4 DEF AddTemplate, AddTemplateAs, AtFlowSet, Jobs
<1>5. CASE DecodeData(w)
  BY <1>0, <1>5 DEF DecodeData, AtFlowSet, Jobs
<1>6. CASE Malformed(w) \/ UnknownTemplate(w) \/ ProduceFails(w) \/ FormatSend(w)
  BY <1>a, <1>6, NoJobFacts
     DEF Malformed, UnknownTemplate, ProduceFails, FormatSend, Return
<1>7. CASE Decoded(w)
  BY <1>0, <1>7 DEF Decoded, Jobs
<1>8. CASE DecodeV5(w)
  BY <1>0, <1>8 DEF DecodeV5, Jobs
<1>9. CASE LookupSampling(w)
  <2> DEFINE y == sampling[HostOf(job[w].src)]
             a == IF y = NoSys THEN "createSampling" ELSE "rate"
             j == [job[w] EXCEPT !.at = a, !.rateSys = y]
  <2>1. j.at = "rate" => j.rateSys # NoSys
    BY <1>0 DEF Jobs
  <2>2. Become(w, j)
    BY <1>9 DEF LookupSampling
  <2> QED
    BY <1>a, <2>1, <2>2
<1>10. CASE CreateSampling(w)
  <2>1. job[w].number # NoSys
    BY <1>10 DEF CreateSampling, Numbered, Busy, NoSys
  <2> QED
    BY <1>0, <1>10, <2>1 DEF CreateSampling, Jobs
<1>11. CASE ApplyRate(w)
  BY <1>0, <1>11 DEF ApplyRate, Jobs
<1> QED
  BY <1>1, <1>2, <1>3, <1>4, <1>5, <1>6, <1>7, <1>8, <1>9, <1>10, <1>11
     DEF DecodeFlow

LEMMA InitInvariant == Init => IInv
<1> SUFFICES ASSUME Init PROVE IInv
  OBVIOUS
<1>1. TypeOK
  BY InitTypes
<1>2. /\ \A w \in Workers : job[w].at = "idle" /\ job[w].sys = NoSys
      /\ \A e \in Exporters : templates[e] = NoSys
      /\ \A n \in Systems : defined[n] = {} /\ n # NoSys
  BY NoJobFacts DEF Init, Systems, NoSys
<1> QED
  BY <1>1, <1>2
     DEF IInv, Numbered, HoldsWhenPast, RateSystemInHand, FreshUnused, Unused,
         SystemsAreApart, OnlyOwnTemplates, OwnTemplatesInHand, Busy, Searching,
         Holding, At

LEMMA NextInvariant == IInv /\ [Next]_vars => IInv'
<1> SUFFICES ASSUME IInv, [Next]_vars PROVE IInv'
  OBVIOUS
<1>1. TypeOK'
  BY TypesStep
<1>2. CASE Next
  <2>1. PICK w \in Workers :
          \/ \E e \in Exporters, s \in PacketSets : Accept(w, e, s)
          \/ DecodeFlow(w)
    BY <1>2 DEF Next
  <2>2. Shape(w)
    BY <2>1, Shapes DEF IInv
  <2> QED
    BY <1>1, <2>1, <2>2, NumberedStep, HoldsWhenPastStep, RateSystemStep,
       FreshUnusedStep, SystemsAreApartStep, OwnTemplatesStep DEF IInv
<1>3. CASE UNCHANGED vars
  BY <1>1, <1>3
     DEF IInv, vars, cacheVars, Numbered, HoldsWhenPast, RateSystemInHand,
         FreshUnused, Unused, SystemsAreApart, OnlyOwnTemplates,
         OwnTemplatesInHand, Busy, Searching, Holding, At
<1> QED
  BY <1>2, <1>3

THEOREM Invariance == Spec => []IInv
  BY InitInvariant, NextInvariant, PTL DEF Spec

-----------------------------------------------------------------------------
(* The properties *)

\* The caches, the jobs of DecodeFlow and the history keep their types.
THEOREM PipeTypes == Spec => []TypeOK
<1>1. IInv => TypeOK
  BY DEF IInv
<1> QED
  BY <1>1, Invariance, PTL

\* No two exporters share a template system, and no call of DecodeFlow holds one
\* of another exporter, however lookups and creations interleave
\* (pipe.go:151-161).
THEOREM ApartSystems == Spec => []SystemsAreApart
<1>1. IInv => SystemsAreApart
  BY DEF IInv
<1> QED
  BY <1>1, Invariance, PTL

\* The system that decodes an exporter's packets holds only templates that this
\* exporter has sent (pipe.go:151-161, netflow.go:317-396).
THEOREM OwnTemplatesOnly == Spec => []OnlyOwnTemplates
<1>1. IInv => OnlyOwnTemplates
  BY DEF IInv
<1> QED
  BY <1>1, Invariance, PTL

\* Once an exporter has a system and no worker is about to create another, it keeps
\* the system and every template in it: templates are lost only to the race of
\* two creations (pipe.go:153-161).
THEOREM CreationsSettle == Spec => SystemsSettle
<1> DEFINE Settling ==
      \A e \in Exporters :
        Settled(e) => /\ templates'[e] = templates[e]
                      /\ defined[templates[e]] \subseteq defined'[templates[e]]
                      /\ \A w \in Workers : job'[w].src = e => job'[w].at # "create"
<1>1. ASSUME TypeOK, HoldsWhenPast, NEW w \in Workers, Shape(w) PROVE Settling
  <2> SUFFICES ASSUME NEW e \in Exporters, Settled(e)
               PROVE  /\ templates'[e] = templates[e]
                      /\ defined[templates[e]] \subseteq defined'[templates[e]]
                      /\ \A v \in Workers : job'[v].src = e => job'[v].at # "create"
    OBVIOUS
  <2> USE DEF Settled, Others, SameCall, At
  <2>0. job[w].src \in Exporters /\ templates[e] \in Systems
    BY <1>1, JobFields DEF TypeOK
  <2>1. CASE Accepts(w)
    BY <1>1, <2>1 DEF Accepts
  <2>2. CASE Looks(w)
    BY <1>1, <2>0, <2>2 DEF Looks
  <2>3. CASE Creates(w)
    BY <1>1, <2>0, <2>3 DEF Creates, TypeOK
  <2>4. CASE Works(w)
    BY <1>1, <2>4 DEF Works, Stays, Holding, Searching
  <2>5. CASE Adds(w)
    BY <1>1, <2>0, <2>5 DEF Adds, Stays, Holding, Searching, TypeOK
  <2>6. CASE Ends(w)
    BY <1>1, <2>6 DEF Ends
  <2> QED
    BY <1>1, <2>1, <2>2, <2>3, <2>4, <2>5, <2>6 DEF Shape
<1>2. IInv /\ [Next]_vars => [Settling]_vars
  <2> SUFFICES ASSUME IInv, Next PROVE Settling
    OBVIOUS
  <2>1. PICK w \in Workers :
          \/ \E e \in Exporters, s \in PacketSets : Accept(w, e, s)
          \/ DecodeFlow(w)
    BY DEF Next
  <2>2. Shape(w)
    BY <2>1, Shapes DEF IInv
  <2> QED
    BY <1>1, <2>2 DEF IInv
<1> QED
  BY <1>2, Invariance, PTL DEF Spec, SystemsSettle
-----------------------------------------------------------------------------
(* Templates without a race                                                *)
(*                                                                         *)
(* A template is lost when two calls have both found no template system    *)
(* for their exporter and both create one: the second replaces the system  *)
(* the first has put its templates in. The theorems say that this is the   *)
(* only way, for any number of workers.                                    *)

TemplateRace ==
  \E v, w \in Workers :
    v # w /\ At(v, "create") /\ At(w, "create") /\ job[v].src = job[w].src

\* Who is about to create a system is right that there is none.
CreatesFirst == \A w \in Workers : At(w, "create") => templates[job[w].src] = NoSys

\* A job that holds a system holds the one its exporter's next packet will find.
HoldsCurrent ==
  \A w \in Workers : job[w].sys # NoSys => templates[job[w].src] = job[w].sys

\* An exporter without a system has not sent a template.
NothingLearnedYet == \A e \in Exporters : templates[e] = NoSys => learned[e] = {}

SureIsLearned == \A w \in Workers : sure[w].ids \subseteq learned[job[w].src]

StoreInv == /\ CreatesFirst /\ HoldsCurrent /\ NothingLearnedYet
            /\ StoredIsRetrievable /\ SureIsLearned

LEMMA StoreInit == Init => StoreInv
<1> SUFFICES ASSUME Init PROVE StoreInv
  OBVIOUS
<1>1. /\ \A w \in Workers : job[w].at = "idle" /\ job[w].sys = NoSys
      /\ \A w \in Workers : sure[w].ids = {}
      /\ \A e \in Exporters : templates[e] = NoSys /\ learned[e] = {}
  BY NoJobFacts DEF Init, NothingSure
<1> QED
  BY <1>1 DEF StoreInv, CreatesFirst, HoldsCurrent, NothingLearnedYet,
              StoredIsRetrievable, SureIsLearned, At

\* The steps of a worker while no two creations race.
LEMMA StoreStep ==
  ASSUME TypeOK, Numbered, HoldsWhenPast, ~TemplateRace, StoreInv,
         NEW w \in Workers, Shape(w)
  PROVE  StoreInv'
<1> USE DEF StoreInv, CreatesFirst, HoldsCurrent, NothingLearnedYet,
            StoredIsRetrievable, SureIsLearned, Others, OthersSure, SameCall, At
<1>0. /\ \A v \in Workers : job[v].src \in Exporters
      /\ \A e \in Exporters : templates[e] \in Systems \cup {NoSys}
      /\ templates \in [Exporters -> Systems \cup {NoSys}]
      /\ learned \in [Exporters -> SUBSET Ids]
      /\ defined \in [Systems -> SUBSET Ids]
  BY JobFields DEF TypeOK
<1>1. CASE Accepts(w)
  BY <1>1 DEF Accepts
<1>2. CASE Looks(w)
  BY <1>0, <1>2 DEF Looks
<1>3. CASE Creates(w)
  <2>1. \A e \in Exporters : templates'[e] = IF e = job[w].src THEN job[w].number
                                             ELSE templates[e]
    BY <1>0, <1>3 DEF Creates
  <2>2. templates[job[w].src] = NoSys /\ learned[job[w].src] = {}
    BY <1>0, <1>3 DEF Creates
  <2>3. CreatesFirst'
    BY <1>0, <1>3, <2>1 DEF Creates, TemplateRace
  <2>4. HoldsCurrent'
    BY <1>0, <1>3, <2>1, <2>2 DEF Creates
  <2>5. NothingLearnedYet' /\ StoredIsRetrievable' /\ SureIsLearned'
    BY <1>0, <1>3, <2>1, <2>2 DEF Creates
  <2> QED
    BY <2>3, <2>4, <2>5
<1>4. CASE Works(w)
  BY <1>4 DEF Works, Stays, Holding, Searching
<1>5. CASE Adds(w)
  <2>1. PICK id \in Ids :
          /\ defined' = [defined EXCEPT ![job[w].sys] = @ \cup {id}]
          /\ learned' = [learned EXCEPT ![job[w].src] = @ \cup {id}]
          /\ OthersSure(w) /\ sure'[w].ids = sure[w].ids \cup {id}
    BY <1>5 DEF Adds
  <2>2. /\ job[w].sys # NoSys /\ templates[job[w].src] = job[w].sys
        /\ job[w].sys \in Systems
    BY <1>0, <1>5 DEF Adds, Stays, HoldsWhenPast
  <2>3. /\ \A e \in Exporters : learned'[e] = IF e = job[w].src
                                              THEN learned[e] \cup {id} ELSE learned[e]
        /\ \A y \in Systems : defined'[y] = IF y = job[w].sys
                                            THEN defined[y] \cup {id} ELSE defined[y]
    BY <1>0, <2>1
  <2>4. templates' = templates /\ \A v \in Workers : job'[v].src = job[v].src
    BY <1>5 DEF Adds, Stays
  <2>5. CreatesFirst' /\ HoldsCurrent'
    BY <1>5, <2>4 DEF Adds, Stays, Holding, Searching
  <2>6. NothingLearnedYet'
    <3>1. job[w].sys # NoSys
      BY <2>2
    <3>2. \A e \in Exporters : templates'[e] = NoSys => e # job[w].src /\ learned[e] = {}
      BY <2>2, <2>4, <3>1
    <3> QED
      BY <2>3, <3>2
  <2>7. StoredIsRetrievable'
    <3> SUFFICES ASSUME NEW e \in Exporters, templates[e] # NoSys
                 PROVE  learned'[e] \subseteq defined'[templates[e]]
      BY <2>4
    <3>1. templates[e] \in Systems /\ learned[e] \subseteq defined[templates[e]]
      BY <1>0
    <3>2. /\ learned'[e] \subseteq learned[e] \cup {id}
          /\ e # job[w].src => learned'[e] = learned[e]
      BY <2>3
    <3>3. ASSUME NEW y \in Systems
          PROVE  /\ defined[y] \subseteq defined'[y]
                 /\ y = job[w].sys => id \in defined'[y]
      <4>1. defined'[y] = IF y = job[w].sys THEN defined[y] \cup {id} ELSE defined[y]
        BY <2>3
      <4> QED
        BY <4>1
    <3>4. /\ defined[templates[e]] \subseteq defined'[templates[e]]
          /\ templates[e] = job[w].sys => id \in defined'[templates[e]]
      BY <3>1, <3>3
    <3> QED
      BY <2>2, <3>1, <3>2, <3>4
  <2>8. SureIsLearned'
    BY <1>0, <2>1, <2>3, <2>4
  <2> QED
    BY <2>5, <2>6, <2>7, <2>8
<1>6. CASE Ends(w)
  BY <1>6 DEF Ends
<1> QED
  BY <1>1, <1>2, <1>3, <1>4, <1>5, <1>6 DEF Shape

LEMMA StoreNext == IInv /\ ~TemplateRace /\ StoreInv /\ [Next]_vars => StoreInv'
<1> SUFFICES ASSUME IInv, ~TemplateRace, StoreInv, [Next]_vars PROVE StoreInv'
  OBVIOUS
<1>1. CASE Next
  <2>1. PICK w \in Workers :
          \/ \E e \in Exporters, s \in PacketSets : Accept(w, e, s)
          \/ DecodeFlow(w)
    BY <1>1 DEF Next
  <2>2. Shape(w)
    BY <2>1, Shapes DEF IInv
  <2> QED
    BY <2>2, StoreStep DEF IInv
<1>2. CASE UNCHANGED vars
  BY <1>2 DEF vars, cacheVars, StoreInv, CreatesFirst, HoldsCurrent, At,
              NothingLearnedYet, StoredIsRetrievable, SureIsLearned
<1> QED
  BY <1>1, <1>2

THEOREM StoreInvariance == Spec /\ []~TemplateRace => []StoreInv
  BY StoreInit, StoreNext, Invariance, PTL DEF Spec

\* Unless two creations for one exporter race, every template an exporter has sent
\* is in the system its next packet will be decoded with, however many workers
\* decode its packets at once (pipe.go:153-161, templates.go:18).
THEOREM RetrievableWithoutRace == Spec /\ []~TemplateRace => []StoredIsRetrievable
<1>1. StoreInv => StoredIsRetrievable
  BY DEF StoreInv
<1> QED
  BY <1>1, StoreInvariance, PTL

\* Unless two creations for one exporter race, no data set is skipped for want of a
\* template that was stored before its packet was taken, or that stands before it
\* in its packet (netflow.go:317-396).
THEOREM FoundWithoutRace == Spec /\ []~TemplateRace => SureTemplatesAreFound
<1> DEFINE Found == \A w \in Workers :
                      job'[w].missing \cap sure[w].ids \subseteq job[w].missing
<1>1. ASSUME TypeOK, HoldsWhenPast, StoreInv, NEW w \in Workers,
             \/ \E e \in Exporters, s \in PacketSets : Accept(w, e, s)
             \/ DecodeFlow(w)
      PROVE  Found
  <2> USE DEF Become, At
  <2>0. job \in [Workers -> Jobs] /\ job[w] \in Jobs
    BY <1>1 DEF TypeOK
  <2>a. ASSUME NEW j, Become(w, j),
               j.missing \cap sure[w].ids \subseteq job[w].missing
        PROVE  Found
    BY <2>0, <2>a
  <2>b. ASSUME NEW j, Become(w, j), j.missing = job[w].missing \/ j.missing = {}
        PROVE  Found
    BY <2>a, <2>b
  <2>1. ASSUME NEW e \in Exporters, NEW s \in PacketSets, Accept(w, e, s)
        PROVE  Found
    BY <2>1, <2>b DEF Accept, NewJob
  <2>2. CASE LookupTemplates(w)
    <3> DEFINE y == templates[job[w].src]
               a == IF y = NoSys THEN "create" ELSE "decode"
               j == [job[w] EXCEPT !.at = a, !.sys = y]
    <3>1. j.missing = job[w].missing
      BY <2>0 DEF Jobs
    <3> QED
      BY <2>2, <2>b, <3>1 DEF LookupTemplates
  <2>3. CASE CreateTemplates(w)
    BY <2>0, <2>3 DEF CreateTemplates, Jobs
  <2>4. CASE AddTemplate(w)
    BY <2>0, <2>4 DEF AddTemplate, AddTemplateAs, Jobs
  <2>5. CASE DecodeData(w)
    <3> DEFINE id == Head(job[w].sets).id
               found == id \in defined[job[w].sys]
               m == IF found THEN job[w].missing ELSE job[w].missing \cup {id}
               j == [job[w] EXCEPT !.sets = Tail(@),
                                   !.missing = IF found THEN @ ELSE @ \cup {id},
                                   !.option = @ \/ (found /\ id \in OptionIds)]
    <3>1. j.missing = m
      BY <2>0 DEF Jobs
    <3>2. job[w].sys # NoSys /\ job[w].src \in Exporters
      BY <1>1, <2>0, <2>5 DEF DecodeData, AtFlowSet, HoldsWhenPast, Holding,
                             Searching, Busy, Jobs
    <3>3. templates[job[w].src] = job[w].sys
      BY <1>1, <3>2 DEF StoreInv, HoldsCurrent
    <3>4. sure[w].ids \subseteq defined[job[w].sys]
      BY <1>1, <3>2, <3>3 DEF StoreInv, SureIsLearned, StoredIsRetrievable
    <3>5. m \cap sure[w].ids \subseteq job[w].missing
      BY <3>4
    <3>6. Become(w, j)
      BY <2>5 DEF DecodeData
    <3> QED
      BY <2>a, <3>1, <3>5, <3>6
  <2>6. CASE Malformed(w) \/ UnknownTemplate(w) \/ ProduceFails(w) \/ FormatSend(w)
    <3>1. NoJob.missing = {}
      BY DEF NoJob, NewJob
    <3> QED
      BY <2>6, <2>b, <3>1
         DEF Malformed, UnknownTemplate, ProduceFails, FormatSend, Return
  <2>7. CASE Decoded(w)
    BY <2>0, <2>7 DEF Decoded, Jobs
  <2>8. CASE DecodeV5(w)
    BY <2>0, <2>8 DEF DecodeV5, Jobs
  <2>9. CASE LookupSampling(w)
    BY <2>0, <2>9 DEF LookupSampling, Jobs
  <2>10. CASE CreateSampling(w)
    BY <2>0, <2>10 DEF CreateSampling, Jobs
  <2>11. CASE ApplyRate(w)
    BY <2>0, <2>11 DEF ApplyRate, Jobs
  <2> QED
    BY <1>1, <2>1, <2>2, <2>3, <2>4, <2>5, <2>6, <2>7, <2>8, <2>9, <2>10, <2>11
       DEF DecodeFlow
<1>2. IInv /\ StoreInv /\ [Next]_vars => [Found]_vars
  BY <1>1 DEF IInv, Next
<1> QED
  BY <1>2, Invariance, StoreInvariance, PTL DEF Spec, SureTemplatesAreFound
-----------------------------------------------------------------------------
(* Sampling rates                                                          *)
(*                                                                         *)
(* The second cache is filled in the same two sections of its lock. Its    *)
(* systems belong to hosts, and what is kept in one is a rate.             *)

HostIn(w) == HostOf(job[w].src)
SearchingRate(w) == Busy(w) /\ ~At(w, "rate") /\ ~At(w, "send")

\* Only a job that is past the lookup holds a sampling rate system.
HoldsRateSystemWhenPast ==
  \A w \in Workers : job[w].rateSys # NoSys => At(w, "rate") \/ At(w, "send")

UnusedRate(n) ==
  /\ \A h \in Hosts : sampling[h] # n
  /\ \A w \in Workers : job[w].rateSys # n
  /\ n \notin rates

FreshRateUnused ==
  /\ \A n \in Systems : n > packets => UnusedRate(n)
  /\ \A w \in Workers : SearchingRate(w) => UnusedRate(job[w].number)

\* A sampling rate system belongs to one host.
RateSystemsAreApart ==
  /\ \A h, g \in Hosts : h # g /\ sampling[h] # NoSys => sampling[h] # sampling[g]
  /\ \A v, w \in Workers :
       job[v].rateSys # NoSys /\ HostIn(v) # HostIn(w) => job[v].rateSys # job[w].rateSys
  /\ \A w \in Workers, h \in Hosts :
       job[w].rateSys # NoSys /\ HostIn(w) # h => sampling[h] # job[w].rateSys

\* A rate is kept only for a host that has sent it.
OnlyOwnRates ==
  /\ \A h \in Hosts : sampling[h] \in rates => h \in rateLearned
  /\ \A w \in Workers : job[w].rateSys \in rates => HostIn(w) \in rateLearned

RateInv == /\ HoldsRateSystemWhenPast /\ FreshRateUnused /\ RateSystemsAreApart
           /\ OnlyOwnRates

\* The shapes of the steps, as far as sampling rates are concerned.
KeepsRates == UNCHANGED <<sampling, rates, rateLearned>>
SameSureRates == \A v \in Workers : sure'[v].rate = sure[v].rate

AcceptsRate(w) ==
  /\ Others(w) /\ ~Busy(w) /\ At(w, "lookup")'
  /\ packets < MaxPackets /\ packets' = packets + 1
  /\ job'[w].number = packets' /\ job'[w].rateSys = NoSys
  /\ OthersSure(w) /\ sure'[w].rate = (HostIn(w)' \in rateLearned)
  /\ KeepsRates
DecodesRate(w) ==
  /\ Others(w) /\ SameCall(w) /\ job'[w].rateSys = job[w].rateSys
  /\ At(w, "lookup") \/ At(w, "create") \/ At(w, "decode")
  /\ \/ SearchingRate(w)' /\ ~At(w, "createSampling")'
     \/ At(w, "send")' /\ job'[w].rated
  /\ KeepsRates /\ SameSureRates /\ UNCHANGED packets
LooksRate(w) ==
  /\ Others(w) /\ SameCall(w) /\ At(w, "sampling")
  /\ job'[w].rateSys = sampling[HostIn(w)]
  /\ job'[w].at = IF job'[w].rateSys = NoSys THEN "createSampling" ELSE "rate"
  /\ KeepsRates /\ SameSureRates /\ UNCHANGED packets
CreatesRate(w) ==
  /\ Others(w) /\ SameCall(w) /\ At(w, "createSampling") /\ At(w, "rate")'
  /\ job'[w].rateSys = job[w].number
  /\ sampling' = [sampling EXCEPT ![HostIn(w)] = job[w].number]
  /\ SameSureRates /\ UNCHANGED <<rates, rateLearned, packets>>
AppliesRate(w) ==
  /\ Others(w) /\ SameCall(w) /\ job'[w].rateSys = job[w].rateSys
  /\ At(w, "rate") /\ At(w, "send")'
  /\ job'[w].rated = (job[w].option \/ job[w].rateSys \in rates)
  /\ rates' = IF job[w].option THEN rates \cup {job[w].rateSys} ELSE rates
  /\ rateLearned' = IF job[w].option THEN rateLearned \cup {HostIn(w)} ELSE rateLearned
  /\ SameSureRates /\ UNCHANGED <<sampling, packets>>
EndsRate(w) ==
  /\ Others(w) /\ job'[w].at = "idle" /\ job'[w].rateSys = NoSys
  /\ OthersSure(w) /\ sure'[w].rate = FALSE
  /\ KeepsRates /\ UNCHANGED packets

RateShape(w) ==
  \/ AcceptsRate(w) \/ DecodesRate(w) \/ LooksRate(w) \/ CreatesRate(w)
  \/ AppliesRate(w) \/ EndsRate(w)

LEMMA RateShapes ==
  ASSUME TypeOK, NEW w \in Workers,
         \/ \E e \in Exporters, s \in PacketSets : Accept(w, e, s)
         \/ DecodeFlow(w)
  PROVE  RateShape(w)
<1> USE DEF At, Become, Others, SameCall, Busy, HostIn, SearchingRate, KeepsRates,
            SameSureRates
<1>0. /\ job \in [Workers -> Jobs] /\ job[w] \in Jobs
      /\ sure \in [Workers -> [ids : SUBSET Ids, rate : BOOLEAN]]
  BY DEF TypeOK
<1>a. ASSUME Return(w), UNCHANGED <<cacheVars, packets, learned, rateLearned>>
      PROVE  EndsRate(w)
  <2>1. NoJob.rateSys = NoSys
    BY DEF NoJob, NewJob
  <2> QED
    BY <1>0, <1>a, <2>1, NoJobFacts
       DEF Return, EndsRate, OthersSure, NothingSure, cacheVars
<1>1. ASSUME NEW e \in Exporters, NEW s \in PacketSets, Accept(w, e, s)
      PROVE  AcceptsRate(w)
  <2>1. packets' \in 0..MaxPackets /\ s \in Seq(FlowSets)
    BY <1>1, ConstantsAssumption DEF TypeOK, Accept
  <2>2. OthersSure(w) /\ sure'[w].rate = (HostOf(e) \in rateLearned)
    BY <1>0, <1>1 DEF Accept, OthersSure
  <2>3. job'[w] = NewJob(packets', e, s) /\ Others(w)
    BY <1>0, <1>1 DEF Accept
  <2>4. NewJob(packets', e, s).rateSys = NoSys
    BY DEF NewJob
  <2> QED
    BY <1>1, <2>1, <2>2, <2>3, <2>4, NewJobFacts DEF Accept, AcceptsRate, cacheVars
<1>2. CASE LookupTemplates(w)
  <2> DEFINE y == templates[job[w].src]
             a == IF y = NoSys THEN "create" ELSE "decode"
             j == [job[w] EXCEPT !.at = a, !.sys = y]
  <2>1. job' = [job EXCEPT ![w] = j]
    BY <1>2 DEF LookupTemplates
  <2>2. job'[w] = j /\ Others(w)
    BY <1>0, <2>1
  <2>3. /\ job'[w].at \in {"create", "decode"} /\ SameCall(w)
        /\ job'[w].rateSys = job[w].rateSys
    BY <1>0, <2>2 DEF Jobs
  <2> QED
    BY <1>2, <2>2, <2>3 DEF LookupTemplates, DecodesRate, RateShape, cacheVars
<1>3. CASE CreateTemplates(w)
  BY <1>0, <1>3 DEF CreateTemplates, DecodesRate, RateShape, Jobs
<1>4. CASE AddTemplate(w)
  <2>1. SameSureRates
    BY <1>0, <1>4 DEF AddTemplate, AddTemplateAs
  <2> QED
    BY <1>0, <1>4, <2>1
       DEF AddTemplate, AddTemplateAs, AtFlowSet, DecodesRate, RateShape, Jobs
<1>5. CASE DecodeData(w)
  BY <1>0, <1>5 DEF DecodeData, AtFlowSet, DecodesRate, RateShape, Jobs, cacheVars
<1>6. CASE Malformed(w) \/ UnknownTemplate(w) \/ ProduceFails(w) \/ FormatSend(w)
  BY <1>a, <1>6
     DEF Malformed, UnknownTemplate, ProduceFails, FormatSend, RateShape, cacheVars
<1>7. CASE Decoded(w)
  BY <1>0, <1>7 DEF Decoded, DecodesRate, RateShape, Jobs, cacheVars
<1>8. CASE DecodeV5(w)
  BY <1>0, <1>8 DEF DecodeV5, DecodesRate, RateShape, Jobs, cacheVars
<1>9. CASE LookupSampling(w)
  <2> DEFINE y == sampling[HostOf(job[w].src)]
             a == IF y = NoSys THEN "createSampling" ELSE "rate"
             j == [job[w] EXCEPT !.at = a, !.rateSys = y]
  <2>1. job' = [job EXCEPT ![w] = j]
    BY <1>9 DEF LookupSampling
  <2>2. job'[w] = j /\ Others(w)
    BY <1>0, <2>1
  <2>3. job'[w].at = a /\ job'[w].rateSys = y /\ SameCall(w)
    BY <1>0, <2>2 DEF Jobs
  <2> QED
    BY <1>9, <2>2, <2>3 DEF LookupSampling, LooksRate, RateShape, cacheVars
<1>10. CASE CreateSampling(w)
  BY <1>0, <1>10 DEF CreateSampling, CreatesRate, RateShape, Jobs
<1>11. CASE ApplyRate(w)
  <2>1. Others(w) /\ SameCall(w) /\ job'[w].rateSys = job[w].rateSys /\ At(w, "send")'
        /\ job'[w].rated = (job[w].option \/ job[w].rateSys \in rates)
    BY <1>0, <1>11 DEF ApplyRate, Jobs
  <2> QED
    BY <1>11, <2>1 DEF ApplyRate, AppliesRate, RateShape
<1> QED
  BY <1>1, <1>2, <1>3, <1>4, <1>5, <1>6, <1>7, <1>8, <1>9, <1>10,
     <1>11 DEF DecodeFlow, RateShape
LEMMA HostFacts ==
  ASSUME TypeOK, NEW w \in Workers
  PROVE  /\ HostIn(w) \in Hosts /\ job[w].rateSys \in Systems \cup {NoSys}
         /\ job[w].src \in Exporters
  BY ConstantsAssumption DEF TypeOK, Jobs, HostIn

LEMMA HoldsRateSystemStep ==
  ASSUME HoldsRateSystemWhenPast, NEW w \in Workers, RateShape(w)
  PROVE  HoldsRateSystemWhenPast'
<1> USE DEF HoldsRateSystemWhenPast, At, Others
<1>1. CASE AcceptsRate(w) \/ EndsRate(w)
  BY <1>1 DEF AcceptsRate, EndsRate
<1>2. CASE DecodesRate(w)
  BY <1>2 DEF DecodesRate, SearchingRate, Busy
<1>3. CASE LooksRate(w)
  BY <1>3 DEF LooksRate
<1>4. CASE CreatesRate(w) \/ AppliesRate(w)
  BY <1>4 DEF CreatesRate, AppliesRate
<1> QED
  BY <1>1, <1>2, <1>3, <1>4 DEF RateShape

LEMMA FreshRateStep ==
  ASSUME TypeOK, Numbered, RateSystemInHand, HoldsRateSystemWhenPast,
         FreshRateUnused, NEW w \in Workers, RateShape(w)
  PROVE  FreshRateUnused'
<1> USE DEF Others
<1>0. /\ packets \in 0..MaxPackets /\ MaxPackets \in Nat
      /\ \A v \in Workers : SearchingRate(v) => job[v].number \in 1..packets
      /\ \A v \in Workers : v # w /\ SearchingRate(v) /\ Busy(w) =>
                              job[v].number # job[w].number
  BY ConstantsAssumption DEF TypeOK, Numbered, SearchingRate
<1>a. \A v \in Workers : SearchingRate(v) => job[v].number # NoSys
  BY <1>0 DEF NoSys
<1>b. \A n \in Systems : n # NoSys
  BY DEF Systems, NoSys
<1>1. CASE AcceptsRate(w)
  <2>1. ASSUME NEW n, UnusedRate(n), n # NoSys PROVE UnusedRate(n)'
    BY <1>1, <2>1 DEF AcceptsRate, UnusedRate, KeepsRates
  <2>2. \A n \in Systems : n > packets' => n > packets
    BY <1>0, <1>1 DEF AcceptsRate, Systems
  <2>3. job'[w].number \in Systems /\ job'[w].number > packets
    BY <1>0, <1>1 DEF AcceptsRate, Systems
  <2>4. \A v \in Workers : v # w /\ SearchingRate(v)' =>
                             SearchingRate(v) /\ job'[v].number = job[v].number
    BY <1>1 DEF AcceptsRate, SearchingRate, Busy, At
  <2> QED
    BY <1>a, <1>b, <2>1, <2>2, <2>3, <2>4 DEF FreshRateUnused
<1>2. CASE DecodesRate(w)
  <2>1. ASSUME NEW n, UnusedRate(n) PROVE UnusedRate(n)'
    BY <1>2, <2>1 DEF DecodesRate, UnusedRate, KeepsRates
  <2>2. \A v \in Workers : SearchingRate(v)' =>
                             SearchingRate(v) /\ job'[v].number = job[v].number
    BY <1>2 DEF DecodesRate, SearchingRate, Busy, At, SameCall
  <2> QED
    BY <1>2, <2>1, <2>2 DEF FreshRateUnused, DecodesRate
<1>3. CASE LooksRate(w)
  <2>1. ASSUME NEW n, UnusedRate(n) PROVE UnusedRate(n)'
    BY <1>3, <2>1, HostFacts DEF LooksRate, UnusedRate, KeepsRates
  <2>2. \A v \in Workers : SearchingRate(v)' =>
                             SearchingRate(v) /\ job'[v].number = job[v].number
    BY <1>3 DEF LooksRate, SearchingRate, Busy, At, SameCall
  <2> QED
    BY <1>3, <2>1, <2>2 DEF FreshRateUnused, LooksRate
<1>4. CASE CreatesRate(w)
  <2>1. ASSUME NEW n, UnusedRate(n), n # job[w].number PROVE UnusedRate(n)'
    BY <1>4, <2>1 DEF CreatesRate, UnusedRate, TypeOK
  <2>2. \A n \in Systems : n > packets' => n > packets /\ n # job[w].number
    BY <1>0, <1>4 DEF CreatesRate, Systems, SearchingRate, Busy, At
  <2>3. \A v \in Workers : SearchingRate(v)' =>
          /\ SearchingRate(v) /\ job'[v].number = job[v].number
          /\ job[v].number # job[w].number
    BY <1>0, <1>4 DEF CreatesRate, SearchingRate, At, SameCall, Busy
  <2> QED
    BY <2>1, <2>2, <2>3 DEF FreshRateUnused
<1>5. CASE AppliesRate(w)
  <2>1. ASSUME NEW n, UnusedRate(n) PROVE UnusedRate(n)'
    BY <1>5, <2>1 DEF AppliesRate, UnusedRate
  <2>2. \A v \in Workers : SearchingRate(v)' =>
                             SearchingRate(v) /\ job'[v].number = job[v].number
    BY <1>5 DEF AppliesRate, SearchingRate, Busy, At, SameCall
  <2> QED
    BY <1>5, <2>1, <2>2 DEF FreshRateUnused, AppliesRate
<1>6. CASE EndsRate(w)
  <2>1. ASSUME NEW n, UnusedRate(n), n # NoSys PROVE UnusedRate(n)'
    BY <1>6, <2>1 DEF EndsRate, UnusedRate, KeepsRates
  <2>2. \A v \in Workers : SearchingRate(v)' =>
          SearchingRate(v) /\ job'[v].number = job[v].number
    BY <1>6 DEF EndsRate, SearchingRate, Busy, At
  <2> QED
    BY <1>6, <1>a, <1>b, <2>1, <2>2 DEF FreshRateUnused, EndsRate
<1> QED
  BY <1>1, <1>2, <1>3, <1>4, <1>5, <1>6 DEF RateShape

LEMMA RateSystemsApartStep ==
  ASSUME TypeOK, Numbered, FreshRateUnused, RateSystemsAreApart,
         NEW w \in Workers, RateShape(w)
  PROVE  RateSystemsAreApart'
<1> USE DEF RateSystemsAreApart, Others, SameCall, HostIn
<1>0. \A v \in Workers : HostIn(v) \in Hosts
  BY HostFacts
<1>1. CASE AcceptsRate(w)
  BY <1>1 DEF AcceptsRate, KeepsRates
<1>2. CASE DecodesRate(w)
  BY <1>2 DEF DecodesRate, KeepsRates
<1>3. CASE LooksRate(w)
  BY <1>0, <1>3 DEF LooksRate, KeepsRates
<1>4. CASE CreatesRate(w)
  <2>1. /\ \A h \in Hosts : sampling[h] # job[w].number
        /\ \A v \in Workers : job[v].rateSys # job[w].number
    BY <1>4 DEF CreatesRate, FreshRateUnused, SearchingRate, UnusedRate, Busy, At
  <2>2. \A h \in Hosts : sampling'[h] = IF h = HostIn(w) THEN job[w].number
                                        ELSE sampling[h]
    BY <1>4 DEF CreatesRate, TypeOK
  <2> QED
    BY <1>0, <1>4, <2>1, <2>2 DEF CreatesRate
<1>5. CASE AppliesRate(w)
  BY <1>5 DEF AppliesRate
<1>6. CASE EndsRate(w)
  BY <1>6 DEF EndsRate, KeepsRates
<1> QED
  BY <1>1, <1>2, <1>3, <1>4, <1>5, <1>6 DEF RateShape

LEMMA OnlyOwnRatesStep ==
  ASSUME TypeOK, Numbered, RateSystemInHand, FreshRateUnused, RateSystemsAreApart,
         OnlyOwnRates, NEW w \in Workers, RateShape(w)
  PROVE  OnlyOwnRates'
<1> USE DEF OnlyOwnRates, Others, SameCall, HostIn
<1>0. /\ \A v \in Workers : HostIn(v) \in Hosts
      /\ NoSys \notin rates
  BY HostFacts DEF TypeOK, Systems, NoSys
<1>1. CASE AcceptsRate(w)
  BY <1>0, <1>1 DEF AcceptsRate, KeepsRates
<1>2. CASE DecodesRate(w)
  BY <1>2 DEF DecodesRate, KeepsRates
<1>3. CASE LooksRate(w)
  BY <1>0, <1>3 DEF LooksRate, KeepsRates
<1>4. CASE CreatesRate(w)
  <2>1. job[w].number \notin rates
    BY <1>4 DEF CreatesRate, FreshRateUnused, SearchingRate, UnusedRate, Busy, At
  <2>2. \A h \in Hosts : sampling'[h] = IF h = HostIn(w) THEN job[w].number
                                        ELSE sampling[h]
    BY <1>4 DEF CreatesRate, TypeOK
  <2> QED
    BY <1>0, <1>4, <2>1, <2>2 DEF CreatesRate
<1>5. CASE AppliesRate(w)
  <2>1. job[w].rateSys # NoSys
    BY <1>5 DEF AppliesRate, RateSystemInHand
  <2>2. /\ \A h \in Hosts : sampling[h] = job[w].rateSys => h = HostIn(w)
        /\ \A v \in Workers : job[v].rateSys = job[w].rateSys => HostIn(v) = HostIn(w)
    BY <2>1 DEF RateSystemsAreApart
  <2> QED
    BY <1>0, <1>5, <2>2 DEF AppliesRate
<1>6. CASE EndsRate(w)
  BY <1>0, <1>6 DEF EndsRate, KeepsRates
<1> QED
  BY <1>1, <1>2, <1>3, <1>4, <1>5, <1>6 DEF RateShape

LEMMA RateInit == Init => RateInv
<1> SUFFICES ASSUME Init PROVE RateInv
  OBVIOUS
<1>0. NoJob.rateSys = NoSys
  BY DEF NoJob, NewJob
<1>1. /\ \A w \in Workers : job[w].at = "idle" /\ job[w].rateSys = NoSys
      /\ \A h \in Hosts : sampling[h] = NoSys
      /\ \A n \in Systems : n # NoSys
      /\ rates = {}
  BY <1>0, NoJobFacts DEF Init, Systems, NoSys
<1> QED
  BY <1>1 DEF RateInv, HoldsRateSystemWhenPast, FreshRateUnused, UnusedRate,
              RateSystemsAreApart, OnlyOwnRates, SearchingRate, Busy, At

LEMMA RateNext == IInv /\ RateInv /\ [Next]_vars => RateInv'
<1> SUFFICES ASSUME IInv, RateInv, [Next]_vars PROVE RateInv'
  OBVIOUS
<1>1. CASE Next
  <2>1. PICK w \in Workers :
          \/ \E e \in Exporters, s \in PacketSets : Accept(w, e, s)
          \/ DecodeFlow(w)
    BY <1>1 DEF Next
  <2>2. RateShape(w)
    BY <2>1, RateShapes DEF IInv
  <2> QED
    BY <2>2, HoldsRateSystemStep, FreshRateStep, RateSystemsApartStep,
       OnlyOwnRatesStep DEF IInv, RateInv
<1>2. CASE UNCHANGED vars
  BY <1>2 DEF vars, cacheVars, RateInv, HoldsRateSystemWhenPast, FreshRateUnused,
              UnusedRate, RateSystemsAreApart, OnlyOwnRates, SearchingRate, Busy,
              At, HostIn
<1> QED
  BY <1>1, <1>2

THEOREM RateInvariance == Spec => []RateInv
  BY RateInit, RateNext, Invariance, PTL DEF Spec
\* A message carries a rate only if its own host has sent one, in this packet or
\* before: no host's packets are scaled by the rate of another (proto.go:30-43,
\* producer_nf.go:753-757).
OwnRates ==
  [][\A w \in Workers :
       ApplyRate(w) /\ job'[w].rated => HostOf(job[w].src) \in rateLearned']_vars

THEOREM OwnRatesOnly == Spec => OwnRates
<1> DEFINE Own == \A w \in Workers :
                    ApplyRate(w) /\ job'[w].rated => HostOf(job[w].src) \in rateLearned'
<1>1. ASSUME TypeOK, OnlyOwnRates, NEW w \in Workers, ApplyRate(w), job'[w].rated
      PROVE  HostOf(job[w].src) \in rateLearned'
  <2>1. job \in [Workers -> Jobs] /\ job[w] \in Jobs
    BY <1>1 DEF TypeOK
  <2>2. job'[w].rated = (job[w].option \/ job[w].rateSys \in rates)
    BY <1>1, <2>1 DEF ApplyRate, Become, Jobs
  <2>3. CASE job[w].option
    BY <1>1, <2>3 DEF ApplyRate
  <2>4. CASE ~job[w].option /\ job[w].rateSys \in rates
    BY <1>1, <2>4 DEF ApplyRate, OnlyOwnRates, HostIn
  <2> QED
    BY <1>1, <2>2, <2>3, <2>4
<1>2. IInv /\ RateInv /\ [Next]_vars => [Own]_vars
  BY <1>1 DEF IInv, RateInv
<1> QED
  BY <1>2, Invariance, RateInvariance, PTL DEF Spec, OwnRates

-----------------------------------------------------------------------------
(* Rates without a race                                                    *)

RateRace ==
  \E v, w \in Workers :
    v # w /\ At(v, "createSampling") /\ At(w, "createSampling") /\ HostIn(v) = HostIn(w)

\* Who is about to create a rate system is right that its host has none.
CreatesFirstRate ==
  \A w \in Workers : At(w, "createSampling") => sampling[HostIn(w)] = NoSys

\* A rate is applied in the system that the host's next packet will find.
HoldsCurrentRate ==
  \A w \in Workers : At(w, "rate") => sampling[HostIn(w)] = job[w].rateSys

\* A rate once sent is kept.
RatesAreKept == \A h \in rateLearned : sampling[h] # NoSys /\ sampling[h] \in rates

SureRateIsLearned == \A w \in Workers : sure[w].rate => HostIn(w) \in rateLearned

KeptInv == /\ CreatesFirstRate /\ HoldsCurrentRate /\ RatesAreKept
           /\ SureRateIsLearned /\ SureRateIsApplied

LEMMA KeptInit == Init => KeptInv
<1> SUFFICES ASSUME Init PROVE KeptInv
  OBVIOUS
<1>1. /\ \A w \in Workers : job[w].at = "idle" /\ sure[w].rate = FALSE
      /\ rateLearned = {}
  BY NoJobFacts DEF Init, NothingSure
<1> QED
  BY <1>1 DEF KeptInv, CreatesFirstRate, HoldsCurrentRate, RatesAreKept,
              SureRateIsLearned, SureRateIsApplied, At

LEMMA KeptStep ==
  ASSUME TypeOK, RateSystemInHand, ~RateRace, KeptInv, NEW w \in Workers, RateShape(w)
  PROVE  KeptInv'
<1> USE DEF KeptInv, CreatesFirstRate, HoldsCurrentRate, RatesAreKept,
            SureRateIsLearned, SureRateIsApplied, Others, OthersSure, SameSureRates,
            SameCall, KeepsRates, HostIn, At
<1>0. /\ \A v \in Workers : HostIn(v) \in Hosts
      /\ sampling \in [Hosts -> Systems \cup {NoSys}] /\ rateLearned \subseteq Hosts
  BY HostFacts DEF TypeOK
<1>1. CASE AcceptsRate(w)
  BY ZenonT(40), <1>1 DEF AcceptsRate
<1>2. CASE DecodesRate(w)
  BY <1>2 DEF DecodesRate, SearchingRate, Busy
<1>3. CASE LooksRate(w)
  BY <1>3 DEF LooksRate
<1>4. CASE CreatesRate(w)
  <2>1. \A h \in Hosts : sampling'[h] = IF h = HostIn(w) THEN job[w].number
                                        ELSE sampling[h]
    BY <1>0, <1>4 DEF CreatesRate
  <2>2. sampling[HostIn(w)] = NoSys /\ HostIn(w) \notin rateLearned
    BY <1>4 DEF CreatesRate
  <2>3. CreatesFirstRate'
    BY <1>0, <1>4, <2>1 DEF CreatesRate, RateRace
  <2>4. HoldsCurrentRate'
    BY <1>0, <1>4, <2>1, <2>2 DEF CreatesRate, RateSystemInHand
  <2>5. RatesAreKept'
    BY <1>0, <1>4, <2>1, <2>2 DEF CreatesRate
  <2>6. SureRateIsLearned' /\ SureRateIsApplied'
    BY <1>4 DEF CreatesRate
  <2> QED
    BY <2>3, <2>4, <2>5, <2>6
<1>5. CASE AppliesRate(w)
  <2>1. sampling[HostIn(w)] = job[w].rateSys /\ job[w].rateSys # NoSys
    BY <1>5 DEF AppliesRate, RateSystemInHand
  <2>2. CreatesFirstRate' /\ HoldsCurrentRate'
    BY <1>5 DEF AppliesRate
  <2>3. RatesAreKept'
    BY <1>5, <2>1 DEF AppliesRate
  <2>4. SureRateIsLearned'
    BY <1>5 DEF AppliesRate
  <2>5. SureRateIsApplied'
    BY <1>5, <2>1 DEF AppliesRate
  <2> QED
    BY <2>2, <2>3, <2>4, <2>5
<1>6. CASE EndsRate(w)
  BY <1>6 DEF EndsRate
<1> QED
  BY <1>1, <1>2, <1>3, <1>4, <1>5, <1>6 DEF RateShape

LEMMA KeptNext == IInv /\ ~RateRace /\ KeptInv /\ [Next]_vars => KeptInv'
<1> SUFFICES ASSUME IInv, ~RateRace, KeptInv, [Next]_vars PROVE KeptInv'
  OBVIOUS
<1>1. CASE Next
  <2>1. PICK w \in Workers :
          \/ \E e \in Exporters, s \in PacketSets : Accept(w, e, s)
          \/ DecodeFlow(w)
    BY <1>1 DEF Next
  <2>2. RateShape(w)
    BY <2>1, RateShapes DEF IInv
  <2> QED
    BY <2>2, KeptStep DEF IInv
<1>2. CASE UNCHANGED vars
  BY <1>2 DEF vars, cacheVars, KeptInv, CreatesFirstRate, HoldsCurrentRate,
              RatesAreKept, SureRateIsLearned, SureRateIsApplied, At, HostIn
<1> QED
  BY <1>1, <1>2

\* Unless two creations of a rate system for one host race, the messages of a packet
\* taken after its host has sent a sampling rate carry a rate (proto.go:30-43,
\* producer_nf.go:753-765).
THEOREM RateAppliedWithoutRace == Spec /\ []~RateRace => []SureRateIsApplied
<1>1. KeptInv => SureRateIsApplied
  BY DEF KeptInv
<1> QED
  BY <1>1, KeptInit, KeptNext, Invariance, PTL DEF Spec

\* One worker races with nobody: with a single worker templates are never lost and
\* rates are always applied.
THEOREM OneWorkerKeepsAll ==
  ASSUME \A v, w \in Workers : v = w
  PROVE  Spec => /\ []StoredIsRetrievable
                 /\ SureTemplatesAreFound
                 /\ []SureRateIsApplied
<1>1. ~TemplateRace /\ ~RateRace
  BY DEF TemplateRace, RateRace
<1> QED
  BY <1>1, RetrievableWithoutRace, FoundWithoutRace, RateAppliedWithoutRace, PTL
=============================================================================
