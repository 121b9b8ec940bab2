-------------------------- MODULE MCSettings_proofs ---------------------------
(***************************************************************************)
(* Proofs about the settings, for every choice of fields, of the build, of *)
(* the number of starts and of the base folders: a setter finds its node,  *)
(* a solver is the one the settings name and what was set is there after a *)
(* restart (SettingsInv); a path fits the caller's array and its folders   *)
(* are there (PathInv); asking for a colour leaves the others alone        *)
(* (ColoursInv).                                                           *)
(***************************************************************************)
EXTENDS MCSettings, Sequences, FiniteSetTheorems, SequenceTheorems, TLAPS

(***************************************************************************)
(* The settings.                                                           *)
(***************************************************************************)
Schema(f) == Settings!Schema(f)
Values(f) == Settings!Values(f)
Solvers == Settings!Solvers \cap SomeFields

Node == [type : {"integer", "float", "boolean", "string", "none"}, val : 0..3]
Table == [SomeFields -> Node]
Colours == [is : {"none", "notArray", "array"}, at : Seq(Settings!Entries)]
Stored ==
    [state : {"absent", "torn", "whole"}, kind : [Settings!Tables -> {"table", "missing", "other"}],
     node : Table, colours : Colours]

\* A node of the field, or none.
NodeOf(f, n) == n.val \in Values(f) /\ (n.type = "none" => n.val = 0)

\* A node of no other type than the field's.
Proper(f, n) == n.type \in {"none", Schema(f).type}

SettingsTypes ==
    /\ file \in Stored /\ mTbl \in Table /\ colours \in Colours
    /\ \A f \in SomeFields : NodeOf(f, file.node[f]) /\ NodeOf(f, mTbl[f])
    /\ phase \in {"off", "running", "saving", "refused"}
    /\ solver \in [Solvers -> 0..3] /\ \A s \in Solvers : solver[s] \in Values(s)
    /\ got \subseteq SomeFields /\ edited \subseteq SomeFields /\ undefined \subseteq SomeFields
    /\ may \in [SomeFields -> SUBSET (0..3)] /\ saved \in [SomeFields -> SUBSET (0..3)]
    /\ \A f \in SomeFields : may[f] \subseteq Values(f) /\ saved[f] \subseteq Values(f)
    /\ asked = Settings!Idle /\ depth = 0 /\ starts \in 0..MaxStarts

\* A file that parses has for each field a value that it may have, unless somebody
\* gave the field another type.
Read == [f \in SomeFields |-> Settings!initSubTable(f)]
FileKept ==
    file.state # "torn" => \A f \in SomeFields : Proper(f, Read[f]) => Settings!Value(Read, f) \in saved[f]

\* So has the table in memory, whose nodes keep the type they were read with.
TableKept ==
    phase \in {"running", "saving"} =>
        /\ \A f \in SomeFields : f \in edited <=> ~ Proper(f, mTbl[f])
        /\ \A f \in got : mTbl[f].type # "none"
        /\ \A f \in SomeFields \ edited :
              /\ Settings!Value(mTbl, f) \in may[f]
              /\ ~ Settings!Replaced(f, Settings!Value(mTbl, f))

\* A solver is of the value that the table has, and one this build can make.
SolversMade ==
    phase = "running" =>
        \A s \in Solvers \ undefined :
            solver[s] = Settings!Value(mTbl, s) /\ Settings!Makes(s, solver[s])

\* While it is written, the file does not parse.
FileTorn == phase = "saving" => file.state = "torn"

SettingsInv == SettingsTypes /\ FileKept /\ FileTorn /\ TableKept /\ SolversMade /\ Settings!SettersDefined

\* Each field has a type and is in a table.
LEMMA SchemaIsField ==
  ASSUME NEW f \in SomeFields
  PROVE  /\ Schema(f).type \in {"integer", "float", "boolean"}
         /\ Schema(f).table \in Settings!Tables
<1> DEFINE IsField(x) == x.type \in {"integer", "float", "boolean"} /\ x.table \in Settings!Tables
<1>1. PICK p \in Settings!Sections : f \in DOMAIN p
  BY SettingsAssumption DEF Settings!ConfigAssumption
<1>2. \A r \in Settings!Sections : f \in DOMAIN r => IsField(r[f])
  <2> SUFFICES ASSUME NEW r \in Settings!Sections, f \in DOMAIN r
               PROVE  IsField(r[f])
    OBVIOUS
  <2>1. CASE r = Settings!SolverFields
    BY <2>1 DEF Settings!SolverFields, Settings!Field, Settings!Tables
  <2>2. CASE r = Settings!ViewFields
    BY <2>2 DEF Settings!ViewFields, Settings!Field, Settings!Tables
  <2>3. CASE r = Settings!ShowFields
    BY <2>3 DEF Settings!ShowFields, Settings!Field, Settings!Tables
  <2>4. CASE r = Settings!AnalysisNumbers
    BY <2>4 DEF Settings!AnalysisNumbers, Settings!Field, Settings!Tables
  <2>5. CASE r = Settings!AnalysisTimes
    BY <2>5 DEF Settings!AnalysisTimes, Settings!Field, Settings!Tables
  <2> QED
    BY <2>1, <2>2, <2>3, <2>4, <2>5 DEF Settings!Sections
<1> DEFINE q == CHOOSE r \in Settings!Sections : f \in DOMAIN r
<1>3. q \in Settings!Sections /\ f \in DOMAIN q
  BY <1>1
<1> QED
  BY <1>2, <1>3 DEF Schema, Settings!Schema

\* The values of a field, the default among them.
LEMMA ValuesOfField ==
  ASSUME NEW f
  PROVE  Values(f) \subseteq 0..3 /\ 0 \in Values(f)
BY DEF Values, Settings!Values, Settings!Deep, Settings!Unknown, Settings!Solvers

\* A field's type is read, and what is read is a value of the field.
LEMMA ValueOfNode ==
  ASSUME NEW f \in SomeFields, NEW tbl \in Table, NodeOf(f, tbl[f])
  PROVE  /\ Settings!Value(tbl, f) \in Values(f)
         /\ tbl[f].type = "none" => Settings!Value(tbl, f) = 0
         /\ tbl[f].type = Schema(f).type => Settings!Value(tbl, f) = tbl[f].val
BY SchemaIsField, ValuesOfField
   DEF Settings!Value, Settings!Readable, Settings!Converted, Schema, NodeOf, Table, Node

\* What is read depends on the field's own node.
LEMMA ValueOfSame ==
  ASSUME NEW f, NEW a, NEW b, a[f] = b[f]
  PROVE  Settings!Value(a, f) = Settings!Value(b, f)
BY DEF Settings!Value, Settings!Readable

\* What a solver's list offers can be made and is not replaced.
LEMMA OfferedIsMade ==
  ASSUME NEW f, NEW v \in Settings!Offered(f)
  PROVE  v \in Values(f) /\ Settings!Makes(f, v) /\ ~ Settings!Replaced(f, v)
BY DEF Settings!Offered, Settings!Makes, Settings!Replaced, Settings!Deep, Settings!Unknown, Values

\* An empty table is put in the place of what is no table.
LEMMA ReadIsTable ==
  ASSUME SettingsTypes
  PROVE  Read \in Table /\ \A f \in SomeFields : NodeOf(f, Read[f])
BY SchemaIsField, ValuesOfField
   DEF SettingsTypes, Read, Settings!initSubTable, Stored, Table, Node, NodeOf, Settings!None, Schema

\* What is no array has no entries.
LEMMA ColoursOfFile ==
  ASSUME NEW arrays, arrays \subseteq Seq(Settings!Entries),
         NEW c \in [is : {"none", "notArray"}, at : {<<>>}] \cup [is : {"array"}, at : arrays]
  PROVE  c \in Colours /\ (c.is # "array" => c.at = <<>>)
<1>1. CASE c \in [is : {"none", "notArray"}, at : {<<>>}]
  <2>1. c.at = <<>> /\ <<>> \in Seq(Settings!Entries)
    BY <1>1
  <2> QED
    BY <1>1, <2>1 DEF Colours
<1>2. CASE c \in [is : {"array"}, at : arrays]
  BY <1>2 DEF Colours
<1> QED
  BY <1>1, <1>2

\* Before the first start the file is what somebody wrote.
LEMMA SettingsInit ==
  ASSUME Settings!Init
  PROVE  SettingsInv
<1> USE DEF Settings!Init
<1>1. \A f \in SomeFields : \A n \in Settings!Nodes(f) : n \in Node /\ NodeOf(f, n)
  BY ValuesOfField DEF Settings!Nodes, Settings!None, Settings!Types, Node, NodeOf, Values
<1>2. Settings!NoColours \in Colours
  BY DEF Settings!NoColours, Colours
<1>3. Settings!Colours \subseteq Colours
  <2> DEFINE arrays == UNION {[1..n -> Settings!Entries] : n \in 0..Settings!Cardinality({})}
  <2>1. arrays \subseteq Seq(Settings!Entries)
    OBVIOUS
  <2> HIDE DEF arrays
  <2> QED
    BY <2>1, ColoursOfFile DEF Settings!Colours, arrays
<1>4. [f \in SomeFields |-> Settings!None] \in Table /\ \A f \in SomeFields : NodeOf(f, Settings!None)
  BY ValuesOfField DEF Table, Node, Settings!None, NodeOf
<1>5. file \in Stored /\ \A f \in SomeFields : NodeOf(f, file.node[f])
  <2>1. CASE file = Settings!Absent
    BY <2>1, <1>2, <1>4 DEF Settings!Absent, Stored
  <2>2. CASE file \in Settings!Files
    <3>1. file.node \in Table /\ \A f \in SomeFields : NodeOf(f, file.node[f])
      BY <2>2, <1>1 DEF Settings!Files, Table
    <3>2. file.kind \in [Settings!Tables -> {"table", "missing", "other"}]
      BY <2>2 DEF Settings!Files, Settings!Tables
    <3> QED
      BY <2>2, <3>1, <3>2, <1>3 DEF Settings!Files, Stored
  <2> QED
    BY <2>1, <2>2
<1>6. \A f \in SomeFields : Read[f] \in Node /\ NodeOf(f, Read[f])
  BY <1>4, <1>5, SchemaIsField DEF Read, Settings!initSubTable, Stored, Table, Node, Settings!None
<1>7. \A f \in SomeFields : Settings!Value(Read, f) \in Values(f)
  BY <1>6, ValueOfNode DEF Read, Table
<1>8. saved \in [SomeFields -> SUBSET (0..3)] /\ \A f \in SomeFields : saved[f] = {Settings!Value(Read, f)}
  BY <1>7, ValuesOfField DEF Read
<1>9. SettingsTypes
  <2>1. solver \in [Solvers -> 0..3] /\ \A s \in Solvers : solver[s] \in Values(s)
    BY ValuesOfField DEF Solvers
  <2>2. starts \in 0..MaxStarts
    BY SettingsAssumption DEF Settings!ConfigAssumption
  <2> QED
    BY <1>2, <1>4, <1>5, <1>7, <1>8, <2>1, <2>2 DEF SettingsTypes
<1>10. FileKept
  BY <1>8 DEF FileKept
<1> QED
  BY <1>9, <1>10 DEF SettingsInv, TableKept, SolversMade, FileTorn, Settings!SettersDefined

\* Start: the table is the file's with the defaults of what the constructors read.
LEMMA StartStep ==
  ASSUME SettingsInv, Settings!Start
  PROVE  SettingsInv'
<1> USE DEF SettingsInv
<1> DEFINE atStart == SomeFields \cap Settings!ReadAtStart
           got1 == [f \in SomeFields |-> Settings!Get(Read, f)]
           tbl == [f \in SomeFields |-> IF f \in atStart THEN Settings!Filtered(got1[f], f)[f] ELSE Read[f]]
<1>1. file' = file /\ asked' = asked /\ depth' = depth /\ saved' = saved /\ starts' \in 0..MaxStarts
      /\ phase = "off" /\ Read' = Read
  BY SettingsAssumption DEF Settings!Start, SettingsTypes, Read, Settings!initSubTable, Settings!ConfigAssumption
<1>2. FileKept'
  BY <1>1 DEF FileKept, Settings!Value, Settings!Readable
<1>3. CASE file.state = "torn"
  <2>1. phase' = "refused" /\ UNCHANGED <<mTbl, colours, solver, got, may, edited, undefined>>
    BY <1>3 DEF Settings!Start
  <2> QED
    BY <1>1, <1>2, <2>1 DEF SettingsTypes, TableKept, SolversMade, FileTorn, Settings!SettersDefined
<1>4. CASE file.state # "torn"
  <2>1. /\ mTbl' = tbl
        /\ colours' = Settings!LoadedColours
        /\ edited' = {f \in SomeFields : Read[f].type \notin {"none", Schema(f).type}}
        /\ undefined' = {f \in atStart : Settings!Replaced(f, Settings!Value(Read, f)) /\ ~ Settings!Settable(Read, f)}
        /\ got' = atStart
        /\ may' = [f \in SomeFields |-> {IF Settings!Replaced(f, v) THEN 0 ELSE v : v \in saved[f]}]
        /\ solver' = [s \in DOMAIN solver |-> Settings!Value(tbl, s)]
        /\ phase' = IF \A s \in DOMAIN solver : Settings!Makes(s, Settings!Value(tbl, s))
                    THEN "running" ELSE "refused"
    BY <1>4 DEF Settings!Start, Read, Schema
  <2>2. Read \in Table /\ \A f \in SomeFields : NodeOf(f, Read[f])
    BY ReadIsTable
  \* Each getter gives a node that is missing its default, and replaces the one value.
  <2>3. ASSUME NEW f \in SomeFields
        PROVE  /\ got1[f] \in Table
               /\ got1[f][f].type = IF Read[f].type = "none" THEN Schema(f).type ELSE Read[f].type
               /\ got1[f][f].val = Read[f].val
               /\ Settings!Value(got1[f], f) = Settings!Value(Read, f)
               /\ NodeOf(f, got1[f][f])
    <3>1. CASE Read[f] = Settings!None
      <4>1. got1[f] = [Read EXCEPT ![f] = Settings!Default(f)]
        BY <3>1 DEF Settings!Get
      <4>2. got1[f] \in Table /\ got1[f][f] = [type |-> Schema(f).type, val |-> 0]
        BY <4>1, <2>2, SchemaIsField DEF Settings!Default, Table, Node, Schema
      <4> QED
        BY <3>1, <4>2, <2>2, SchemaIsField, ValuesOfField, ValueOfNode DEF NodeOf, Settings!None
    <3>2. CASE Read[f] # Settings!None
      <4>1. got1[f] = Read
        BY <3>2 DEF Settings!Get
      <4>2. Read[f].type # "none"
        BY <3>2, <2>2 DEF NodeOf, Settings!None, Table, Node
      <4> QED
        BY <4>1, <4>2, <2>2
    <3> QED
      BY <3>1, <3>2
  <2>4. ASSUME NEW f \in atStart
        PROVE  /\ tbl[f] \in Node /\ NodeOf(f, tbl[f])
               /\ tbl[f].type = got1[f][f].type
               /\ tbl[f].val = IF /\ Settings!Replaced(f, Settings!Value(Read, f))
                                  /\ got1[f][f].type = Schema(f).type
                               THEN 0 ELSE Read[f].val
    <3>1. f \in SomeFields /\ tbl[f] = Settings!Filtered(got1[f], f)[f]
      OBVIOUS
    <3> HIDE DEF got1, tbl
    <3> QED
      BY <2>3, <3>1, ValuesOfField DEF Settings!Filtered, Settings!Settable, Schema, Table, Node, NodeOf
  <2>5. tbl \in Table /\ \A f \in SomeFields : NodeOf(f, tbl[f])
    <3>1. \A f \in SomeFields : tbl[f] \in Node /\ NodeOf(f, tbl[f])
      BY <2>2, <2>4 DEF Table
    <3> QED
      BY <3>1 DEF Table
  <2> HIDE DEF got1, tbl
  <2>6. \A f \in SomeFields : Settings!Value(tbl, f) \in Values(f)
    BY <2>5, ValueOfNode
  <2>7. SettingsTypes'
    <3>1. solver' \in [Solvers -> 0..3] /\ \A s \in Solvers : solver'[s] \in Values(s)
      BY <2>1, <2>6, ValuesOfField DEF SettingsTypes, Solvers
    <3>2. colours' \in Colours
      BY <2>1 DEF SettingsTypes, Settings!LoadedColours, Settings!NoColours, Stored, Colours
    <3>3. may' \in [SomeFields -> SUBSET (0..3)] /\ \A f \in SomeFields : may'[f] \subseteq Values(f)
      BY <2>1, ValuesOfField DEF SettingsTypes
    <3> QED
      BY <1>1, <2>1, <2>5, <3>1, <3>2, <3>3 DEF SettingsTypes
  <2>8. TableKept'
    <3>1. \A f \in SomeFields : f \in edited' <=> ~ Proper(f, tbl[f])
      BY <2>1, <2>3, <2>4, <2>2, SchemaIsField DEF Proper, tbl
    <3>2. \A f \in atStart : tbl[f].type # "none"
      BY <2>3, <2>4, SchemaIsField
    <3>3. ASSUME NEW f \in SomeFields, f \notin edited'
          PROVE  /\ Settings!Value(tbl, f) \in may'[f]
                 /\ ~ Settings!Replaced(f, Settings!Value(tbl, f))
      <4>1. Proper(f, Read[f]) /\ Proper(f, tbl[f])
        BY <2>1, <3>1, <3>3 DEF Proper
      <4>2. Settings!Value(Read, f) \in saved[f] /\ Settings!Value(Read, f) = Read[f].val
        BY <4>1, <1>4, <2>2, ValueOfNode DEF FileKept, Proper, NodeOf
      <4>3. Settings!Value(tbl, f) = tbl[f].val
        BY <4>1, <2>5, ValueOfNode DEF Proper, NodeOf
      <4>4. tbl[f].val = IF Settings!Replaced(f, Read[f].val) THEN 0 ELSE Read[f].val
        <5>1. CASE f \in atStart
          BY <5>1, <4>1, <4>2, <2>3, <2>4, SchemaIsField DEF Proper
        <5>2. CASE f \notin atStart
          BY <5>2 DEF tbl, Settings!Replaced, Settings!ReadAtStart, Settings!Solvers
        <5> QED
          BY <5>1, <5>2
      <4>5. ~ Settings!Replaced(f, 0)
        BY DEF Settings!Replaced, Settings!Deep
      <4> QED
        BY <4>2, <4>3, <4>4, <4>5, <2>1
    <3> QED
      BY <2>1, <3>1, <3>2, <3>3 DEF TableKept
  <2>9. SolversMade'
    BY <2>1 DEF SolversMade, SettingsTypes
  <2>10. Settings!SettersDefined'
    <3> SUFFICES ASSUME NEW f \in undefined'
                 PROVE  f \in edited'
      BY DEF Settings!SettersDefined
    <3>1. f \in SomeFields /\ Settings!Value(Read, f) = Settings!Deep /\ Read[f].type # Schema(f).type
      BY <2>1 DEF Settings!Replaced, Settings!Settable, Schema
    <3>2. Read[f].type # "none"
      BY <3>1, <2>2, ValueOfNode DEF Settings!Deep
    <3> QED
      BY <2>1, <3>1, <3>2
  <2>11. FileTorn'
    BY <2>1 DEF FileTorn
  <2> QED
    BY <1>2, <2>7, <2>8, <2>9, <2>10, <2>11
<1> QED
  BY <1>3, <1>4

\* A getter: a node that is missing becomes the default, which is what was read.
LEMMA GetFieldStep ==
  ASSUME SettingsInv, NEW f \in SomeFields, Settings!GetField(f)
  PROVE  SettingsInv'
<1> USE DEF SettingsInv
<1>1. /\ phase = "running" /\ got' = got \cup {f} /\ mTbl' = Settings!Get(mTbl, f)
      /\ UNCHANGED <<file, phase, starts, saved, edited, asked, depth, colours, solver, undefined, may>>
  BY DEF Settings!GetField, Settings!disk, Settings!call
<1>2. mTbl' \in Table /\ \A g \in SomeFields : g # f => mTbl'[g] = mTbl[g]
  BY <1>1, SchemaIsField DEF SettingsTypes, Settings!Get, Settings!Default, Schema, Table, Node
<1>3. /\ NodeOf(f, mTbl'[f]) /\ mTbl'[f].type # "none"
      /\ Proper(f, mTbl'[f]) <=> Proper(f, mTbl[f])
      /\ Settings!Value(mTbl', f) = Settings!Value(mTbl, f)
  <2>1. CASE mTbl[f] = Settings!None
    <3>1. mTbl'[f] = [type |-> Schema(f).type, val |-> 0]
      BY <1>1, <2>1 DEF SettingsTypes, Settings!Get, Settings!Default, Schema, Table
    <3>2. mTbl[f].type = "none" /\ NodeOf(f, mTbl'[f]) /\ NodeOf(f, mTbl[f])
      BY <2>1, <3>1, SchemaIsField, ValuesOfField DEF NodeOf, Settings!None, SettingsTypes
    <3>3. Settings!Value(mTbl', f) = 0 /\ Settings!Value(mTbl, f) = 0
      BY <1>2, <3>1, <3>2, ValueOfNode DEF SettingsTypes
    <3> QED
      BY <3>1, <3>2, <3>3, SchemaIsField DEF Proper
  <2>2. CASE mTbl[f] # Settings!None
    <3>1. mTbl' = mTbl
      BY <1>1, <2>2 DEF Settings!Get
    <3>2. mTbl[f].type # "none"
      BY <2>2 DEF SettingsTypes, NodeOf, Settings!None, Table, Node
    <3> QED
      BY <3>1, <3>2 DEF SettingsTypes
  <2> QED
    BY <2>1, <2>2
<1>4. \A g \in SomeFields : Settings!Value(mTbl', g) = Settings!Value(mTbl, g)
  BY <1>2, <1>3, ValueOfSame
<1>5. SettingsTypes'
  BY <1>1, <1>2, <1>3 DEF SettingsTypes
<1>6. FileKept'
  BY <1>1 DEF FileKept, Read, Settings!initSubTable, Settings!Value, Settings!Readable
<1>7. TableKept'
  BY <1>1, <1>2, <1>3, <1>4 DEF TableKept, SettingsTypes
<1>8. SolversMade' /\ FileTorn' /\ Settings!SettersDefined'
  BY <1>1, <1>4 DEF SolversMade, FileTorn, Settings!SettersDefined, Solvers
<1> QED
  BY <1>5, <1>6, <1>7, <1>8

\* A setter: the node that a getter has shown is of the field's type, unless
\* somebody gave it another one.
LEMMA SetFieldStep ==
  ASSUME SettingsInv, NEW f \in SomeFields, NEW v \in Settings!Offered(f), Settings!SetField(f, v)
  PROVE  SettingsInv'
<1> USE DEF SettingsInv
<1>1. /\ phase = "running" /\ f \in got
      /\ may' = [may EXCEPT ![f] = {v}] /\ solver' = Settings!SolverAfter(f, v)
      /\ UNCHANGED <<file, phase, starts, saved, edited, asked, depth, colours, got>>
  BY DEF Settings!SetField, Settings!disk, Settings!call
<1>2. v \in Values(f) /\ Settings!Makes(f, v) /\ ~ Settings!Replaced(f, v)
  BY OfferedIsMade
<1>3. PICK w \in Values(f) :
        /\ mTbl' = [mTbl EXCEPT ![f].val = w]
        /\ mTbl[f].type = Schema(f).type => w = v /\ undefined' = undefined
        /\ mTbl[f].type # Schema(f).type => undefined' = undefined \cup {f}
  BY <1>2 DEF Settings!SetField, Settings!Settable, Schema, Values
<1>4. f \in edited <=> mTbl[f].type # Schema(f).type
  BY <1>1 DEF TableKept, Proper
<1>5. /\ mTbl' \in Table /\ mTbl'[f].type = mTbl[f].type /\ mTbl'[f].val = w
      /\ \A g \in SomeFields : g # f => mTbl'[g] = mTbl[g]
  BY <1>3, ValuesOfField DEF SettingsTypes, Table, Node
<1>6. mTbl[f].type # "none" /\ NodeOf(f, mTbl'[f])
  BY <1>1, <1>5 DEF TableKept, NodeOf
<1>7. \A g \in SomeFields : g # f => Settings!Value(mTbl', g) = Settings!Value(mTbl, g)
  BY <1>5, ValueOfSame
<1>8. f \notin edited => Settings!Value(mTbl', f) = v
  BY <1>3, <1>4, <1>5, <1>6, ValueOfNode
<1>9. SettingsTypes'
  <2>1. solver' \in [Solvers -> 0..3] /\ \A s \in Solvers : solver'[s] \in Values(s)
    BY <1>1, <1>2, ValuesOfField DEF SettingsTypes, Settings!SolverAfter
  <2>2. may' \in [SomeFields -> SUBSET (0..3)] /\ \A g \in SomeFields : may'[g] \subseteq Values(g)
    BY <1>1, <1>2, ValuesOfField DEF SettingsTypes
  <2>3. undefined' \subseteq SomeFields
    BY <1>3 DEF SettingsTypes
  <2> QED
    BY <1>1, <1>5, <1>6, <2>1, <2>2, <2>3 DEF SettingsTypes
<1>10. FileKept'
  BY <1>1 DEF FileKept, Read, Settings!initSubTable, Settings!Value, Settings!Readable
<1>11. TableKept'
  <2>1. \A g \in SomeFields : g \in edited' <=> ~ Proper(g, mTbl'[g])
    BY <1>1, <1>5 DEF TableKept, Proper
  <2>2. \A g \in got' : mTbl'[g].type # "none"
    BY <1>1, <1>5 DEF TableKept, SettingsTypes
  <2>3. \A g \in SomeFields \ edited' : Settings!Value(mTbl', g) \in may'[g]
                                      /\ ~ Settings!Replaced(g, Settings!Value(mTbl', g))
    BY <1>1, <1>2, <1>7, <1>8 DEF TableKept, SettingsTypes
  <2> QED
    BY <2>1, <2>2, <2>3 DEF TableKept
<1>12. SolversMade'
  <2> SUFFICES ASSUME NEW s \in Solvers, s \notin undefined'
               PROVE  solver'[s] = Settings!Value(mTbl', s) /\ Settings!Makes(s, solver'[s])
    BY DEF SolversMade
  <2>1. s \in SomeFields /\ s \notin undefined /\ s \in DOMAIN solver
    BY <1>3 DEF Solvers, SettingsTypes
  <2>2. CASE s = f
    <3>1. solver'[s] = v
      BY <1>1, <2>1, <2>2 DEF Settings!SolverAfter, SettingsTypes
    <3>2. f \notin edited
      BY <1>3, <1>4, <2>2
    <3> QED
      BY <1>2, <1>8, <2>2, <3>1, <3>2
  <2>3. CASE s # f
    <3>1. solver'[s] = solver[s]
      BY <1>1, <2>1, <2>3 DEF Settings!SolverAfter, SettingsTypes
    <3> QED
      BY <1>1, <1>7, <2>1, <2>3, <3>1 DEF SolversMade
  <2> QED
    BY <2>2, <2>3
<1>13. Settings!SettersDefined'
  BY <1>1, <1>3, <1>4 DEF Settings!SettersDefined
<1>14. FileTorn'
  BY <1>1 DEF FileTorn
<1> QED
  BY <1>9, <1>10, <1>11, <1>12, <1>13, <1>14

\* The table that is written: what was written of it, a value the field may have.
LEMMA WrittenIsKept ==
  ASSUME SettingsInv, phase = "saving", NEW s \in SUBSET SomeFields,
         file' = Settings!Written(s),
         \A f \in SomeFields : saved'[f] = IF f \in s THEN may[f] ELSE {0}
  PROVE  file' \in Stored /\ (\A f \in SomeFields : NodeOf(f, file'.node[f])) /\ FileKept'
<1> USE DEF SettingsInv
<1>1. /\ file'.node = [f \in SomeFields |-> IF f \in s THEN mTbl[f] ELSE Settings!None]
      /\ file'.kind = [t \in Settings!Tables |-> "table"]
  BY DEF Settings!Written
<1>2. file'.node \in Table /\ \A f \in SomeFields : NodeOf(f, file'.node[f])
  BY <1>1, ValuesOfField DEF SettingsTypes, Table, Node, NodeOf, Settings!None
<1>3. file' \in Stored
  BY <1>2 DEF Settings!Written, Stored, SettingsTypes
<1>4. Read' = file'.node
  BY <1>1, <1>2, SchemaIsField DEF Read, Settings!initSubTable, Table, Schema
<1>5. ASSUME NEW f \in SomeFields, Proper(f, file'.node[f])
      PROVE  Settings!Value(file'.node, f) \in saved'[f]
  <2>1. CASE f \in s
    <3>1. file'.node[f] = mTbl[f]
      BY <1>1, <2>1
    <3>2. Settings!Value(file'.node, f) = Settings!Value(mTbl, f)
      BY <3>1, ValueOfSame
    <3>3. f \notin edited
      BY <1>5, <3>1 DEF TableKept
    <3> QED
      BY <2>1, <3>2, <3>3 DEF TableKept
  <2>2. CASE f \notin s
    <3>1. file'.node[f].type = "none"
      BY <1>1, <2>2 DEF Settings!None
    <3> QED
      BY <1>2, <2>2, <3>1, ValueOfNode
  <2> QED
    BY <2>1, <2>2
<1>6. FileKept'
  <2>1. \A f \in SomeFields : Proper(f, Read'[f]) => Settings!Value(Read', f) \in saved'[f]
    BY <1>4, <1>5
  <2> QED
    BY <2>1 DEF FileKept, Proper, Settings!Value, Settings!Readable, Read
<1> QED
  BY <1>2, <1>3, <1>6

\* A save: the file is torn, and then whole.
LEMMA SaveStep ==
  ASSUME SettingsInv, Settings!Save \/ Settings!SaveDone
  PROVE  SettingsInv'
<1> USE DEF SettingsInv
<1>1. CASE Settings!Save
  <2>1. /\ phase = "running" /\ phase' = "saving" /\ file' = [file EXCEPT !.state = "torn"]
        /\ UNCHANGED <<mTbl, colours, solver, got, asked, depth, edited, undefined, may, saved, starts>>
    BY <1>1 DEF Settings!Save, Settings!call, Settings!history
  <2>2. file' \in Stored /\ file'.node = file.node /\ file'.state = "torn"
    BY <2>1 DEF SettingsTypes, Stored
  <2>3. SettingsTypes'
    BY <2>1, <2>2 DEF SettingsTypes
  <2> QED
    BY <2>1, <2>2, <2>3
       DEF FileKept, TableKept, SolversMade, FileTorn, Settings!SettersDefined, Settings!Value, Settings!Readable
<1>2. CASE Settings!SaveDone
  <2>1. /\ phase = "saving" /\ phase' = "off" /\ file' = Settings!Written(SomeFields) /\ saved' = may
        /\ UNCHANGED <<mTbl, colours, solver, got, asked, depth, edited, undefined, may, starts>>
    BY <1>2 DEF Settings!SaveDone, Settings!call
  <2>2. file' \in Stored /\ (\A f \in SomeFields : NodeOf(f, file'.node[f])) /\ FileKept'
    BY <2>1, WrittenIsKept
  <2>3. SettingsTypes'
    BY <2>1, <2>2 DEF SettingsTypes
  <2> QED
    BY <2>1, <2>2, <2>3 DEF TableKept, SolversMade, FileTorn, Settings!SettersDefined
<1> QED
  BY <1>1, <1>2

\* The process dies: what it has written so far stays.
LEMMA CrashStep ==
  ASSUME SettingsInv, Settings!Crash
  PROVE  SettingsInv'
<1> USE DEF SettingsInv
<1>1. /\ phase \in {"running", "saving"} /\ phase' = "off" /\ asked' = Settings!Idle /\ depth' = 0
      /\ UNCHANGED <<mTbl, colours, solver, got, edited, undefined, may, starts>>
  BY DEF Settings!Crash
<1>2. /\ file' \in Stored /\ (\A f \in SomeFields : NodeOf(f, file'.node[f])) /\ FileKept'
      /\ saved' \in [SomeFields -> SUBSET (0..3)] /\ \A f \in SomeFields : saved'[f] \subseteq Values(f)
  <2>1. CASE phase = "running"
    <3>1. file' = file /\ saved' = saved
      BY <2>1 DEF Settings!Crash
    <3> QED
      BY <3>1 DEF SettingsTypes, FileKept, Read, Settings!initSubTable, Settings!Value, Settings!Readable
  <2>2. CASE phase = "saving"
    <3>1. PICK s \in SUBSET SomeFields :
            /\ file' \in {file, Settings!Written(s)}
            /\ saved' = [f \in SomeFields |-> IF f \in s THEN may[f] ELSE {0}]
      BY <2>2 DEF Settings!Crash
    <3>2. saved' \in [SomeFields -> SUBSET (0..3)] /\ \A f \in SomeFields : saved'[f] \subseteq Values(f)
      BY <3>1, ValuesOfField DEF SettingsTypes
    <3>3. CASE file' = Settings!Written(s)
      BY <2>2, <3>1, <3>2, <3>3, WrittenIsKept
    <3>4. CASE file' = file
      BY <2>2, <3>2, <3>4 DEF SettingsTypes, FileKept, FileTorn
    <3> QED
      BY <3>1, <3>3, <3>4
  <2> QED
    BY <1>1, <2>1, <2>2
<1>3. SettingsTypes'
  BY <1>1, <1>2 DEF SettingsTypes
<1> QED
  BY <1>1, <1>2, <1>3 DEF TableKept, SolversMade, FileTorn, Settings!SettersDefined

\* Every step of the settings keeps the invariant.
LEMMA SettingsStep ==
  ASSUME SettingsInv, Settings!Next
  PROVE  SettingsInv'
<1>1. ~ Settings!ColourFound /\ ~ Settings!ColourMissing
  BY DEF SettingsInv, SettingsTypes, Settings!ColourFound, Settings!ColourMissing
<1> QED
  BY <1>1, StartStep, GetFieldStep, SetFieldStep, SaveStep, CrashStep DEF Settings!Next

\* What is read is what a getter returns, in a table whose solvers could be made.
LEMMA SettingsInvImplies ==
  ASSUME SettingsInv
  PROVE  Settings!TypeOK /\ Settings!SettersDefined /\ Settings!SolverFollows /\ Settings!SettingsKept
<1> USE DEF SettingsInv
<1>1. Settings!TypeOK
  <2>1. \A f \in SomeFields : mTbl[f] \in Settings!Nodes(f)
    BY DEF SettingsTypes, Table, Node, NodeOf, Settings!Nodes, Settings!None, Settings!Types, Values
  <2>2. colours.is \in {"none", "notArray", "array"} /\ \A j \in DOMAIN colours.at : colours.at[j] \in Settings!Entries
    BY DEF SettingsTypes, Colours
  <2>3. file.state \in {"absent", "torn", "whole"}
    BY DEF SettingsTypes, Stored
  <2> QED
    BY <2>1, <2>2, <2>3 DEF SettingsTypes, Settings!TypeOK, Values, Solvers, Settings!Idle
<1>2. \A f : ~ Settings!Replaced(f, Settings!Value(mTbl, f)) => Settings!Result(mTbl, f) = Settings!Value(mTbl, f)
  BY DEF Settings!Result, Settings!Filtered
<1>3. Settings!SettingsKept
  BY <1>2 DEF Settings!SettingsKept, TableKept
<1>4. Settings!SolverFollows
  <2>1. \A s, v : Settings!Makes(s, v) => ~ Settings!Replaced(s, v)
    BY DEF Settings!Makes, Settings!Replaced
  <2> QED
    BY <1>2, <2>1 DEF Settings!SolverFollows, SolversMade, SettingsTypes
<1> QED
  BY <1>1, <1>3, <1>4

(***************************************************************************)
(* The colours of the formants.                                            *)
(***************************************************************************)
WellColours(c) == c \in Colours /\ (c.is # "array" => c.at = <<>>)

\* A call of getViewFormantColor is under way only while the program runs.
ColoursInv ==
    /\ "colours" \in DOMAIN file /\ WellColours(file.colours) /\ WellColours(colours)
    /\ asked \in SomeFormants \cup {FormantColours!Idle}
    /\ asked # FormantColours!Idle => phase = "running"

\* No step but one of a call changes a colour while the call is under way.
ColoursStay ==
    asked # FormantColours!Idle /\ ~ FormantColours!Scalar(asked) =>
        \A j \in DOMAIN colours.at \ {asked + 1} : j \in DOMAIN colours'.at /\ colours'.at[j] = colours.at[j]

LEMMA ColoursInit ==
  ASSUME FormantColours!Init
  PROVE  ColoursInv
<1> USE DEF FormantColours!Init
<1>1. WellColours(FormantColours!NoColours)
  BY DEF FormantColours!NoColours, Colours, WellColours
<1>2. \A c \in FormantColours!Colours : WellColours(c)
  <2> DEFINE arrays == UNION {[1..n -> FormantColours!Entries] : n \in 0..FormantColours!Cardinality(SomeFormants)}
  <2>1. arrays \subseteq Seq(Settings!Entries)
    BY DEF FormantColours!Entries, Settings!Entries
  <2> HIDE DEF arrays
  <2> QED
    BY <2>1, ColoursOfFile DEF FormantColours!Colours, WellColours, arrays
<1>3. "colours" \in DOMAIN file /\ WellColours(file.colours)
  BY <1>1, <1>2 DEF FormantColours!Absent, FormantColours!Files
<1> QED
  BY <1>1, <1>3 DEF ColoursInv

\* One level of a call: it finds the colour, or makes room after the colours there are.
LEMMA ColourStepKeeps ==
  ASSUME ColoursInv, FormantColours!ColourFound \/ FormantColours!ColourMissing
  PROVE  ColoursInv' /\ ColoursStay
<1> USE DEF ColoursInv
<1>1. UNCHANGED <<file, phase>> /\ asked \in Nat /\ asked # FormantColours!Idle
  BY SettingsAssumption
     DEF FormantColours!ColourFound, FormantColours!ColourMissing, FormantColours!disk,
         FormantColours!ConfigAssumption
<1>2. colours \in Colours /\ colours.at \in Seq(Settings!Entries)
  BY DEF WellColours, Colours
<1>3. CASE FormantColours!ColourFound
  <2>1. asked + 1 \in 1..Len(colours.at) /\ colours.is = "array"
    BY <1>1, <1>2, <1>3 DEF FormantColours!ColourFound, FormantColours!HasColour, WellColours
  <2>2. \/ colours' = colours
        \/ colours'.is = "array" /\ colours' \in Colours /\ colours'.at = [colours.at EXCEPT ![asked + 1] = "ownColour"]
    <3> DEFINE new == [colours.at EXCEPT ![asked + 1] = "ownColour"]
    <3>1. colours' = colours \/ colours' = [colours EXCEPT !.at = new]
      BY <1>3 DEF FormantColours!ColourFound
    <3>2. new \in Seq(Settings!Entries)
      BY <1>2, <2>1 DEF Settings!Entries
    <3> HIDE DEF new
    <3>3. \/ colours' = colours
          \/ colours'.is = "array" /\ colours' \in Colours /\ colours'.at = new
      BY <1>2, <2>1, <3>1, <3>2 DEF Colours
    <3> QED
      BY <3>3 DEF new
  <2>3. WellColours(colours') /\ ColoursStay
    BY <1>1, <1>2, <2>1, <2>2 DEF WellColours, Colours, ColoursStay
  <2> QED
    BY <1>1, <1>3, <2>3 DEF FormantColours!ColourFound
<1>4. CASE FormantColours!ColourMissing
  <2>1. asked' = asked
    BY <1>4 DEF FormantColours!ColourMissing
  <2>2. CASE colours.is = "array"
    <3>1. /\ colours' = [is |-> "array", at |-> FormantColours!ResizedColours(asked)]
          /\ ~ FormantColours!HasColour(asked)
      BY <1>4, <2>2 DEF FormantColours!ColourMissing
    <3>2. FormantColours!ResizedColours(asked) \in Seq(Settings!Entries)
      BY <1>1, <1>2 DEF FormantColours!ResizedColours, Settings!Entries
    <3>3. WellColours(colours')
      BY <3>1, <3>2 DEF WellColours, Colours
    <3>4. ~ FormantColours!Scalar(asked) => Len(colours.at) <= asked
      BY <1>1, <1>2, <3>1 DEF FormantColours!HasColour
    <3>5. ColoursStay
      BY <1>1, <1>2, <3>1, <3>4 DEF ColoursStay, FormantColours!ResizedColours
    <3> QED
      BY <1>1, <2>1, <3>3, <3>5
  <2>3. CASE colours.is # "array"
    <3>1. colours' = [is |-> "array", at |-> FormantColours!DefaultColours] /\ colours.at = <<>>
      BY <1>4, <2>3 DEF FormantColours!ColourMissing, WellColours
    <3>2. FormantColours!DefaultColours \in Seq(Settings!Entries)
      BY DEF FormantColours!DefaultColours, Settings!Entries
    <3>3. WellColours(colours')
      BY <3>1, <3>2 DEF WellColours, Colours
    <3>4. DOMAIN colours.at = {}
      BY <3>1
    <3> QED
      BY <1>1, <2>1, <3>3, <3>4 DEF ColoursStay
  <2> QED
    BY <2>2, <2>3
<1> QED
  BY <1>3, <1>4

\* Every step of the colours keeps the invariant and the other colours.
LEMMA ColoursStep ==
  ASSUME ColoursInv, FormantColours!Next
  PROVE  ColoursInv' /\ ColoursStay
<1> USE DEF ColoursInv
<1>1. CASE FormantColours!Start
  <2>1. /\ file' = file /\ asked' = asked /\ asked = FormantColours!Idle
        /\ colours' = colours \/ colours' = FormantColours!LoadedColours
    BY <1>1 DEF FormantColours!Start
  <2>2. WellColours(FormantColours!LoadedColours)
    BY DEF FormantColours!LoadedColours, FormantColours!NoColours, Colours, WellColours
  <2> QED
    BY <2>1, <2>2 DEF ColoursStay
<1>2. ASSUME NEW f, FormantColours!GetField(f) \/ \E v : FormantColours!SetField(f, v)
      PROVE  ColoursInv' /\ ColoursStay
  BY <1>2 DEF FormantColours!GetField, FormantColours!SetField, FormantColours!disk, FormantColours!call, ColoursStay
<1>3. ASSUME NEW i \in SomeFormants, FormantColours!AskColour(i)
      PROVE  ColoursInv' /\ ColoursStay
  BY <1>3 DEF FormantColours!AskColour, FormantColours!disk, ColoursStay
<1>4. CASE FormantColours!Save
  BY <1>4 DEF FormantColours!Save, FormantColours!call, ColoursStay
<1>5. CASE FormantColours!SaveDone
  BY <1>5 DEF FormantColours!SaveDone, FormantColours!Written, FormantColours!call, ColoursStay
<1>6. CASE FormantColours!Crash
  <2>1. file' = file \/ \E s : file' = FormantColours!Written(s)
    BY <1>6 DEF FormantColours!Crash
  <2>2. "colours" \in DOMAIN file' /\ WellColours(file'.colours)
    BY <2>1 DEF FormantColours!Written
  <2> QED
    BY <1>6, <2>2 DEF FormantColours!Crash, ColoursStay
<1> QED
  BY <1>1, <1>2, <1>3, <1>4, <1>5, <1>6, ColourStepKeeps DEF FormantColours!Next

(***************************************************************************)
(* The path.                                                               *)
(***************************************************************************)
Names == {"xdg", "home", ".config", ".local", "share", ".cache", "informant", "informant.conf", "junk"}
Paths == Seq(Names)

PathTypes ==
    /\ platform \in {"linux", "windows", "apple"}
    /\ baseLength \in BaseLengths
    /\ platform # "linux" => baseLength < MAX_PATH
    /\ garbage \in Paths

\* The path of the file is below the base, so that it has a folder.
PathInv ==
    /\ PathTypes
    /\ last \in Int /\ Path!FitsArray
    /\ called = "config_file" /\ out # <<>> => out \in Paths /\ Len(out) >= 2
    /\ Path!FolderReady /\ Path!TableFolderReady

\* A path of no, of one and of two names.
LEMMA NameIsPath ==
  ASSUME NEW x \in Names, NEW y \in Names
  PROVE  <<>> \in Paths /\ <<x>> \in Paths /\ Len(<<x>>) = 1 /\ <<x, y>> \in Paths
BY DEF Paths

\* The folder that holds the last name.
LEMMA FrontOfAppend ==
  ASSUME NEW s \in Paths, NEW x \in Names
  PROVE  Path!Front(s \o <<x>>) = s /\ s \o <<x>> \in Paths /\ Len(s \o <<x>>) = Len(s) + 1
<1> DEFINE t == s \o <<x>>
<1>1. t \in Paths /\ Len(t) = Len(s) + 1 /\ \A i \in 1..Len(s) : t[i] = s[i]
  BY DEF Paths
<1> HIDE DEF t
<1>2. Path!Front(t) = SubSeq(t, 1, Len(s))
  BY <1>1 DEF Path!Front, Paths
<1>3. SubSeq(t, 1, Len(s)) = [i \in 1..Len(s) |-> s[i]]
  BY <1>1 DEF Paths
<1>4. s = [i \in 1..Len(s) |-> s[i]]
  BY DEF Paths
<1> QED
  BY <1>1, <1>2, <1>3, <1>4 DEF t

\* The base is one name, and below it there is one, except for the data folder.
LEMMA BaseAndBelow ==
  /\ Path!Base \in Paths /\ Len(Path!Base) = 1
  /\ \A fn \in Path!FunctionNames :
        /\ Path!Under(fn) \in Paths
        /\ Path!ConfigLength(fn) \in Nat /\ Path!TailLength(fn) \in Nat
        /\ \/ Path!Under(fn) = <<>>
           \/ fn = "data_folder"
           \/ \E x \in Names : Path!Under(fn) = <<x>>
<1>1. Path!Base \in Paths /\ Len(Path!Base) = 1
  <2>1. "xdg" \in Names /\ "home" \in Names
    BY DEF Names
  <2>2. Path!Base = <<"xdg">> \/ Path!Base = <<"home">>
    BY DEF Path!Base
  <2> QED
    BY <2>1, <2>2, NameIsPath
<1>2. \A fn \in Path!FunctionNames : Path!ConfigLength(fn) \in Nat /\ Path!TailLength(fn) \in Nat
  BY DEF Path!FunctionNames, Path!ConfigLength, Path!BelowLength, Path!TailLength, Path!AppLength, Path!ExtLength
<1>3. ASSUME NEW fn \in Path!FunctionNames
      PROVE  /\ Path!Under(fn) \in Paths
             /\ \/ Path!Under(fn) = <<>>
                \/ fn = "data_folder"
                \/ \E x \in Names : Path!Under(fn) = <<x>>
  <2>1. Path!Under(fn) \in {<<>>, Path!Below[fn]}
    BY DEF Path!Under
  <2>2. \/ fn \in {"config_file", "config_folder"} /\ Path!Below[fn] = <<".config">>
        \/ fn = "data_folder" /\ Path!Below[fn] = <<".local", "share">>
        \/ fn = "cache_folder" /\ Path!Below[fn] = <<".cache">>
    BY DEF Path!FunctionNames, Path!Below
  <2>3. {".config", ".local", "share", ".cache"} \subseteq Names
    BY DEF Names
  <2> QED
    BY <2>1, <2>2, <2>3, NameIsPath
<1> QED
  BY <1>1, <1>2, <1>3

\* What is below the base, in the base or one name further.
LEMMA BelowIsPath ==
  ASSUME NEW fn \in Path!FunctionNames
  PROVE  /\ Path!Base \o Path!Under(fn) \in Paths /\ Len(Path!Base \o Path!Under(fn)) >= 1
         /\ fn # "data_folder" =>
              \/ Path!Under(fn) = <<>> /\ Path!Base \o Path!Under(fn) = Path!Base
              \/ /\ Path!Under(fn) # <<>> /\ Path!Front(Path!Base \o Path!Under(fn)) = Path!Base
                 /\ Len(Path!Base \o Path!Under(fn)) = 2
<1> DEFINE b == Path!Base
           u == Path!Under(fn)
<1>1. b \in Paths /\ Len(b) = 1 /\ u \in Paths
  BY BaseAndBelow
<1>2. u = <<>> \/ fn = "data_folder" \/ \E x \in Names : u = <<x>>
  BY BaseAndBelow
<1> HIDE DEF b, u
<1>3. b \o u \in Paths /\ Len(b \o u) >= 1
  BY <1>1, ConcatProperties DEF Paths
<1>4. CASE u = <<>>
  BY <1>1, <1>3, <1>4, ConcatEmptySeq DEF Paths, b, u
<1>5. ASSUME NEW x \in Names, u = <<x>>
      PROVE  u # <<>> /\ Path!Front(b \o u) = b /\ Len(b \o u) = 2
  <2>1. <<x>> # <<>>
    OBVIOUS
  <2>2. Path!Front(b \o <<x>>) = b /\ Len(b \o <<x>>) = Len(b) + 1
    BY <1>1, FrontOfAppend, Zenon
  <2> QED
    BY <1>1, <1>5, <2>1, <2>2
<1> QED
  BY <1>2, <1>3, <1>4, <1>5 DEF b, u

LEMMA PathInit ==
  ASSUME Path!Init
  PROVE  PathInv
<1>1. PathTypes
  <2>1. "junk" \in Names
    BY DEF Names
  <2> QED
    BY <2>1, NameIsPath DEF Path!Init, PathTypes
<1>2. last \in Int /\ last < MAX_PATH
  BY SettingsAssumption DEF Path!Init, Path!CfgPathAssumption
<1> QED
  BY <1>1, <1>2 DEF Path!Init, PathInv, Path!FitsArray, Path!FolderReady, Path!TableFolderReady

\* What a call writes ends inside the array.
LEMMA LastFits ==
  ASSUME PathInv, NEW fn \in Path!FunctionNames,
         \/ last' = 0
         \/ platform = "windows" /\ last' = baseLength
         \/ /\ ~ Path!TooLong(fn)
            /\ last' = baseLength + 1 + Path!ConfigLength(fn) + Path!TailLength(fn)
  PROVE  last' \in Int /\ last' < MAX_PATH
<1>1. baseLength \in Nat /\ MAX_PATH \in Nat /\ MAX_PATH > 0
  BY SettingsAssumption DEF PathInv, PathTypes, Path!CfgPathAssumption
<1>2. platform = "windows" => baseLength < MAX_PATH
  BY DEF PathInv, PathTypes
<1>3. CASE last' = 0
  BY <1>1, <1>3
<1>4. CASE platform = "windows" /\ last' = baseLength
  BY <1>1, <1>2, <1>4
<1>5. CASE /\ ~ Path!TooLong(fn)
           /\ last' = baseLength + 1 + Path!ConfigLength(fn) + Path!TailLength(fn)
  BY <1>1, <1>5, BaseAndBelow DEF Path!TooLong, Path!Needed
<1> QED
  BY <1>3, <1>4, <1>5

\* The folder returned and the one below the base that holds it are made when the
\* base exists, which they do not make.
LEMMA FolderIsMade ==
  ASSUME NEW fn \in {"config_folder", "cache_folder"}, dirs' = Path!FolderFolders(fn), Path!Base \in dirs'
  PROVE  Path!Folder(fn) \in dirs'
<1> DEFINE below == Path!Base \o Path!Under(fn)
           ds == Path!FolderBelow(fn, below)
<1>1. fn \in Path!FunctionNames /\ "informant" \in Names
  BY DEF Path!FunctionNames, Names
<1>2. /\ below \in Paths /\ Len(below) >= 1
      /\ \/ Path!Under(fn) = <<>> /\ below = Path!Base
         \/ Path!Under(fn) # <<>> /\ Path!Front(below) = Path!Base /\ Len(below) = 2
  BY <1>1, BelowIsPath
<1>3. Path!Front(Path!Folder(fn)) = below /\ Len(Path!Folder(fn)) >= 2
  <2>1. Path!Folder(fn) = below \o <<"informant">>
    BY DEF Path!Folder
  <2> HIDE DEF below
  <2> QED
    BY <2>1, <1>1, <1>2, FrontOfAppend DEF Paths
<1>4. dirs' = IF below \in ds THEN ds \cup {Path!Folder(fn)} ELSE ds
  BY <1>3 DEF Path!FolderFolders, Path!Mkdir, Path!Ended
<1>5. ds = IF Path!Under(fn) = <<>> THEN dirs ELSE Path!Mkdir(dirs, below)
  BY DEF Path!FolderBelow
<1> HIDE DEF below, ds
<1>6. Path!Base \in dirs
  <2>1. Path!Base # Path!Folder(fn) /\ (Path!Under(fn) # <<>> => Path!Base # below)
    <3>1. Len(Path!Base) = 1
      BY BaseAndBelow
    <3>2. Path!Base = Path!Folder(fn) => Len(Path!Base) >= 2
      BY <1>3, Zenon
    <3>3. Path!Under(fn) # <<>> /\ Path!Base = below => Len(Path!Base) = 2
      BY <1>2, Zenon
    <3> QED
      BY <3>1, <3>2, <3>3
  <2> QED
    BY <2>1, <1>4, <1>5 DEF Path!Mkdir
<1>7. below \in ds
  BY <1>2, <1>6 DEF Path!FolderBelow, Path!Mkdir, ds
<1> QED
  BY <1>4, <1>7

\* A call of one of the functions, and the reading of the table.
LEMMA PathStep ==
  ASSUME PathInv, Path!Next
  PROVE  PathInv'
<1> USE DEF PathInv
<1>1. ASSUME NEW fn \in Path!FunctionNames, Path!Call(fn)
      PROVE  PathInv'
  <2>1. UNCHANGED <<platform, named, home, baseLength, garbage>> /\ called' = fn
    BY <1>1 DEF Path!Call, Path!environment
  <2>2. PathTypes' /\ Path!Base' = Path!Base
    BY <2>1 DEF PathTypes, Path!Base, Path!XdgUsed
  <2>3. CASE fn = "config_file"
    <3>1. Path!get_user_config_file
      BY <1>1, <2>3 DEF Path!Call
    <3>2. last' \in Int /\ last' < MAX_PATH
      BY <2>3, <3>1, LastFits DEF Path!get_user_config_file, Path!Failed
    <3>3. out' # <<>> => out' \in Paths /\ Len(out') >= 2
      <4> DEFINE below == Path!Base \o Path!Under("config_file")
      <4>1. below \in Paths /\ Len(below) >= 1 /\ "informant.conf" \in Names
        BY <2>3, BelowIsPath DEF Names
      <4>2. out' = <<>> \/ out' = below \o <<"informant.conf">>
        BY <3>1 DEF Path!get_user_config_file, Path!Failed
      <4> HIDE DEF below
      <4> QED
        BY <4>1, <4>2, FrontOfAppend DEF Paths
    <3> QED
      BY <2>1, <2>2, <2>3, <3>2, <3>3 DEF Path!FitsArray, Path!FolderReady, Path!TableFolderReady
  <2>4. CASE fn # "config_file"
    <3>1. PICK gn \in Path!FunctionNames :
            /\ Path!FolderPath(gn)
            /\ fn # "data_folder" => gn \in {"config_folder", "cache_folder"}
      BY <1>1, <2>4
         DEF Path!Call, Path!FunctionNames, Path!get_user_config_folder, Path!get_user_data_folder,
             Path!get_user_cache_folder
    <3>2. last' \in Int /\ last' < MAX_PATH
      BY <3>1, LastFits DEF Path!FolderPath, Path!Failed
    <3>3. fn # "data_folder" /\ out' # <<>> /\ Path!Base \in dirs' => out' \in dirs'
      BY <3>1, FolderIsMade DEF Path!FolderPath, Path!Failed
    <3> QED
      BY <2>1, <2>2, <2>4, <3>2, <3>3 DEF Path!FitsArray, Path!FolderReady, Path!TableFolderReady, Path!FunctionNames
  <2> QED
    BY <2>3, <2>4
<1>2. CASE Path!getConfigTable
  <2>1. /\ UNCHANGED <<platform, named, home, baseLength, garbage, out, last>> /\ called' = "table"
        /\ out \in Paths /\ Len(out) >= 2 /\ dirs' = Path!CreateDirectories(out)
    BY <1>2 DEF Path!getConfigTable, Path!environment
  <2>2. Path!Front(out) \in dirs'
    <3>1. Len(out) - 1 \in 1..(Len(out) - 1)
      BY <2>1 DEF Paths
    <3> QED
      BY <2>1, <3>1 DEF Path!CreateDirectories, Path!Front
  <2>3. Path!TableFolderReady'
    BY <2>1, <2>2 DEF Path!TableFolderReady, Path!Front
  <2> QED
    BY <2>1, <2>3 DEF PathTypes, Path!FitsArray, Path!FolderReady
<1> QED
  BY <1>1, <1>2 DEF Path!Next

(***************************************************************************)
(* The three parts together.                                               *)
(***************************************************************************)
Inv ==
    /\ part \in {"settings", "colours", "path"}
    /\ part = "settings" => SettingsInv
    /\ part = "colours" => ColoursInv
    /\ part = "path" => PathInv /\ asked = FormantColours!Idle

LEMMA InvInit == Init => Inv
BY SettingsInit, ColoursInit, PathInit DEF Init, Inv, NoConfig

LEMMA InvStep == Inv /\ [Next]_vars => Inv'
<1> SUFFICES ASSUME Inv, [Next]_vars
             PROVE  Inv'
  OBVIOUS
<1> USE DEF Inv
<1>1. CASE part = "settings" /\ Settings!Next /\ UNCHANGED <<part, pathVars>>
  BY <1>1, SettingsStep
<1>2. CASE part = "colours" /\ FormantColours!Next /\ UNCHANGED <<part, pathVars>>
  BY <1>2, ColoursStep
<1>3. CASE part = "path" /\ Path!Next /\ UNCHANGED <<part, configVars>>
  BY <1>3, PathStep DEF configVars
<1>4. CASE UNCHANGED vars
  <2>1. UNCHANGED <<part, configVars, pathVars>>
    BY <1>4 DEF vars
  <2>2. SettingsInv => SettingsInv'
    BY <2>1
       DEF configVars, SettingsInv, SettingsTypes, FileKept, FileTorn, TableKept, SolversMade,
           Settings!SettersDefined, Read, Settings!initSubTable, Settings!Value, Settings!Readable
  <2>3. ColoursInv => ColoursInv'
    BY <2>1 DEF configVars, ColoursInv
  <2>4. PathInv => PathInv'
    BY <2>1
       DEF pathVars, PathInv, PathTypes, Path!FitsArray, Path!FolderReady, Path!TableFolderReady, Path!Base,
           Path!XdgUsed, Path!Front
  <2> QED
    BY <2>1, <2>2, <2>3, <2>4 DEF configVars
<1> QED
  BY <1>1, <1>2, <1>3, <1>4 DEF Next

\* The settings are right (see SettingsCorrect), for every choice of fields, with
\* and without torch: the constructors, getters, setters and the destructor of
\* config.cpp and the solvers of ContextManager, over restarts and crashes.
THEOREM SettingsHold == Spec => []SettingsCorrect
<1>1. Inv => SettingsCorrect
  BY SettingsInvImplies DEF Inv, SettingsCorrect
<1> QED
  BY <1>1, InvInit, InvStep, PTL DEF Spec

\* The paths of cfgpath.h are right (see PathCorrect), for every length of the
\* caller's array and of the base folder: on Linux any string that getenv() returns,
\* on the others what the system puts into an array of that length.
THEOREM PathHolds == Spec => []PathCorrect
<1>1. Inv => PathCorrect
  BY DEF Inv, PathCorrect, PathInv
<1> QED
  BY <1>1, InvInit, InvStep, PTL DEF Spec

\* Asking for a formant's colour changes no other colour, for any number of
\* formants: getViewFormantColor lengthens the array and never shortens it.
THEOREM ColoursAreKept == Spec => FormantColours!ColoursKept
<1>1. Inv /\ [Next]_vars => [ColoursStay]_(FormantColours!vars)
  <2> SUFFICES ASSUME Inv, [Next]_vars
               PROVE  ColoursStay \/ UNCHANGED FormantColours!vars
    OBVIOUS
  <2>1. CASE part = "colours" /\ FormantColours!Next
    BY <2>1, ColoursStep DEF Inv
  <2>2. CASE part = "settings" \/ part = "path"
    BY <2>2 DEF Inv, SettingsInv, SettingsTypes, Settings!Idle, FormantColours!Idle, ColoursStay
  <2>3. CASE UNCHANGED vars
    BY <2>3 DEF vars, configVars, FormantColours!vars
  <2> QED
    BY <2>1, <2>2, <2>3 DEF Next
<1>2. Spec => [][ColoursStay]_(FormantColours!vars)
  BY <1>1, InvInit, InvStep, PTL DEF Spec
<1> QED
  BY <1>2, PTL DEF FormantColours!ColoursKept, ColoursStay
==============================================================================
