---------------------------- MODULE CatalogProofs ----------------------------
(***************************************************************************)
(* What users are shown of the tables, for any number of requests, users,  *)
(* templates, documents and changes of the tables.  IndInv says of every   *)
(* request under way that what it has read is still within what the tables *)
(* were and are, and how often it has sent each of its lines.              *)
(***************************************************************************)
EXTENDS Catalog, FiniteSetTheorems, FunctionTheorems, TLAPS

-----------------------------------------------------------------------------
(* Operators *)

\* Lists stay right while templates come, go and keep their categories.
LEMMA CategoriesStay ==
    ASSUME NEW found, NEW r, NEW s, NEW s2, s2 \subseteq s, s \subseteq Created,
           Created \subseteq Created', \A tpl \in Created : category'[tpl] = category[tpl],
           CategoriesOf(found, s, r)
    PROVE  CategoriesOf(found, s2, r)'
BY DEF CategoriesOf

LEMMA TemplatesStay ==
    ASSUME NEW found, NEW cat, NEW r, NEW s, NEW s2, s2 \subseteq s, s \subseteq Created,
           Created \subseteq Created', \A tpl \in Created : category'[tpl] = category[tpl],
           TemplatesOf(found, cat, s, r)
    PROVE  TemplatesOf(found, cat, s2, r)'
BY DEF TemplatesOf

\* The history only grows, and what was read of it stays read.
PastGrows == /\ Len(past) \in Nat /\ Len(past') \in Nat /\ Len(past) <= Len(past')
             /\ \A i \in 1 .. Len(past) : past'[i] = past[i]

LEMMA FiguresStay ==
    ASSUME PastGrows, NEW k \in TaskRecords, FiguresCurrent(k)
    PROVE  FiguresCurrent(k)'
<1>1. /\ k.since \in Nat \ {0} /\ k.since <= Len(past)
      /\ Len(past) \in Nat /\ Len(past') \in Nat /\ Len(past) <= Len(past')
      /\ \A i \in 1 .. Len(past) : past'[i] = past[i]
    BY DEF FiguresCurrent, TaskRecords, PastGrows
<1>2. ASSUME NEW from \in Nat \ {0}, NEW i \in from .. Len(past)
      PROVE  i \in from .. Len(past') /\ past'[i] = past[i] /\ i \in Nat \ {0}
    BY <1>1
<1>3. k.pc = "count_documents" =>
        \E i \in k.since .. Len(past') : past'[i].templates = k.tpl_count
    BY <1>1, <1>2 DEF FiguresCurrent
<1>4. ASSUME k.pc = "count_users"
      PROVE  \E i \in k.since .. Len(past') : \E j \in i .. Len(past') :
                past'[i].templates = k.tpl_count /\ past'[j].documents = k.doc_count
    <2>1. PICK i \in k.since .. Len(past) : \E j \in i .. Len(past) :
             past[i].templates = k.tpl_count /\ past[j].documents = k.doc_count
        BY <1>4 DEF FiguresCurrent
    <2>2. PICK j \in i .. Len(past) :
             past[i].templates = k.tpl_count /\ past[j].documents = k.doc_count
        BY <2>1
    <2>3. i \in k.since .. Len(past') /\ past'[i] = past[i] /\ i \in Nat \ {0}
        BY <1>1, <1>2
    <2>4. j \in i .. Len(past') /\ past'[j] = past[j]
        BY <1>2, <2>3
    <2> QED BY <2>2, <2>3, <2>4
<1>5. ASSUME k.pc = "figures"
      PROVE  \E i \in k.since .. Len(past') : \E j \in i .. Len(past') : \E l \in j .. Len(past') :
                /\ past'[i].templates = k.tpl_count /\ past'[j].documents = k.doc_count
                /\ past'[l].users = k.user_count
    <2>1. PICK i \in k.since .. Len(past) : \E j \in i .. Len(past) : \E l \in j .. Len(past) :
             /\ past[i].templates = k.tpl_count /\ past[j].documents = k.doc_count
             /\ past[l].users = k.user_count
        BY <1>5 DEF FiguresCurrent
    <2>2. PICK j \in i .. Len(past) : \E l \in j .. Len(past) :
             /\ past[i].templates = k.tpl_count /\ past[j].documents = k.doc_count
             /\ past[l].users = k.user_count
        BY <2>1
    <2>3. PICK l \in j .. Len(past) :
             /\ past[i].templates = k.tpl_count /\ past[j].documents = k.doc_count
             /\ past[l].users = k.user_count
        BY <2>2
    <2>4. i \in k.since .. Len(past') /\ past'[i] = past[i] /\ i \in Nat \ {0}
        BY <1>1, <1>2
    <2>5. j \in i .. Len(past') /\ past'[j] = past[j] /\ j \in Nat \ {0}
        BY <1>2, <2>4
    <2>6. l \in j .. Len(past') /\ past'[l] = past[l]
        BY <1>2, <2>5
    <2> QED BY <2>3, <2>4, <2>5, <2>6
<1>6. k.since <= Len(past')
    BY <1>1
<1> QED BY <1>3, <1>4, <1>5, <1>6 DEF FiguresCurrent

\* So does what was shown of it.
LEMMA ShownFiguresStay ==
    ASSUME PastGrows, FiguresWereTrue, figures \subseteq Figures,
           \A f \in figures : f.until <= Len(past), figures' = figures
    PROVE  FiguresWereTrue' /\ \A f \in figures' : f.until <= Len(past')
<1>1. ASSUME NEW f \in figures
      PROVE  /\ f.until <= Len(past')
             /\ \E i \in f.since .. f.until : \E j \in i .. f.until : \E l \in j .. f.until :
                   /\ past'[i].templates = f.templates
                   /\ past'[j].documents = f.documents
                   /\ past'[l].users = f.users
    <2>1. f.since \in Nat \ {0} /\ f.until \in Nat /\ f.until <= Len(past)
        BY DEF Figures
    <2>2. PICK i \in f.since .. f.until : \E j \in i .. f.until : \E l \in j .. f.until :
             /\ past[i].templates = f.templates /\ past[j].documents = f.documents
             /\ past[l].users = f.users
        BY DEF FiguresWereTrue
    <2>3. PICK j \in i .. f.until : \E l \in j .. f.until :
             /\ past[i].templates = f.templates /\ past[j].documents = f.documents
             /\ past[l].users = f.users
        BY <2>2
    <2>4. PICK l \in j .. f.until :
             /\ past[i].templates = f.templates /\ past[j].documents = f.documents
             /\ past[l].users = f.users
        BY <2>3
    <2>5. past'[i] = past[i] /\ past'[j] = past[j] /\ past'[l] = past[l]
        BY <2>1 DEF PastGrows
    <2>6. f.until <= Len(past')
        BY <2>1 DEF PastGrows
    <2> QED BY <2>4, <2>5, <2>6
<1> QED BY <1>1 DEF FiguresWereTrue

\* The lines of one request and document: a new line adds itself or nothing.
LEMMA RepeatsFinite ==
    ASSUME TypeOK, NEW upd, NEW doc
    PROVE  IsFiniteSet(Repeats(upd, doc)) /\ Cardinality(Repeats(upd, doc)) \in Nat
<1>1. Len(lines) \in Nat /\ DOMAIN lines = 1 .. Len(lines)
    BY DEF TypeOK
<1>2. IsFiniteSet(1 .. Len(lines))
    BY <1>1, FS_Interval
<1>3. Repeats(upd, doc) \subseteq 1 .. Len(lines)
    BY <1>1 DEF Repeats
<1>4. IsFiniteSet(Repeats(upd, doc))
    BY <1>2, <1>3, FS_Subset
<1> QED BY <1>4, FS_CardinalityType

LEMMA RepeatsGrow ==
    ASSUME TypeOK, NEW line \in [upd : Nat, user : Users, doc : Nat \ {0}],
           lines' = Append(lines, line), NEW upd, NEW doc
    PROVE  Cardinality(Repeats(upd, doc))'
             = IF line.upd = upd /\ line.doc = doc THEN Cardinality(Repeats(upd, doc)) + 1
                                                   ELSE Cardinality(Repeats(upd, doc))
<1> DEFINE n == Len(lines) + 1
<1>1. /\ DOMAIN lines = 1 .. Len(lines) /\ DOMAIN lines' = 1 .. n /\ Len(lines) \in Nat
      /\ lines'[n] = line /\ \A i \in 1 .. Len(lines) : lines'[i] = lines[i]
    BY DEF TypeOK
<1>2. n \notin Repeats(upd, doc)
    BY <1>1 DEF Repeats
<1>3. CASE line.upd = upd /\ line.doc = doc
    <2>1. Repeats(upd, doc)' = Repeats(upd, doc) \cup {n}
        BY <1>1, <1>3 DEF Repeats
    <2>2. IsFiniteSet(Repeats(upd, doc))
        BY RepeatsFinite
    <2>3. Cardinality(Repeats(upd, doc) \cup {n}) = Cardinality(Repeats(upd, doc)) + 1
        BY <1>2, <2>2, FS_AddElement
    <2> QED BY <1>3, <2>1, <2>3
<1>4. CASE ~ (line.upd = upd /\ line.doc = doc)
    <2>1. Repeats(upd, doc)' = Repeats(upd, doc)
        BY <1>1, <1>4 DEF Repeats
    <2> QED BY <1>4, <2>1
<1> QED BY <1>3, <1>4

LEMMA NoRepeats ==
    ASSUME NEW upd, NEW doc, \A i \in DOMAIN lines : lines[i].upd # upd \/ lines[i].doc # doc
    PROVE  Cardinality(Repeats(upd, doc)) = 0
<1>1. Repeats(upd, doc) = {}
    BY DEF Repeats
<1> QED BY <1>1, FS_EmptySet

LEMMA NotIdle == \A k \in TaskRecords : k # Idle /\ k.pc \in PCs
BY DEF TaskRecords, Idle, PCs, QueryPCs, MessagePCs

\* A task that runs its body again keeps what it knew at the request.
From(k, tries, pc) == [k EXCEPT !.tries = tries, !.pc = pc]

LEMMA AgainTyped ==
    ASSUME NEW k \in TaskRecords, NEW pc \in PCs, NEW tries \in Nat, NEW n,
           n = From(k, tries, pc)
    PROVE  /\ n \in TaskRecords /\ n.pc = pc /\ n.upd = k.upd /\ n.tries = tries
           /\ n.active = k.active /\ n.retired = k.retired /\ n.had = k.had
           /\ n.since = k.since
<1> PICK more : more = [k EXCEPT !.tries = tries]
    OBVIOUS
<1>1. more \in TaskRecords
    BY DEF TaskRecords
<1>2. /\ more.upd = k.upd /\ more.tries = tries /\ more.had = k.had /\ more.since = k.since
      /\ more.active = k.active /\ more.retired = k.retired
    BY DEF TaskRecords
<1>3. n = [more EXCEPT !.pc = pc]
    BY DEF From
<1>4. n \in TaskRecords
    BY <1>1, <1>3 DEF TaskRecords
<1>5. /\ n.upd = more.upd /\ n.tries = more.tries /\ n.had = more.had /\ n.since = more.since
      /\ n.active = more.active /\ n.retired = more.retired /\ n.pc = pc
    BY <1>1, <1>3 DEF TaskRecords
<1> QED BY <1>2, <1>4, <1>5

LEMMA TaskTypes ==
    ASSUME TypeOK, NEW t \in Tasks, tasks[t] # Idle
    PROVE  tasks[t] \in TaskRecords
BY DEF TypeOK

-----------------------------------------------------------------------------
(* The tables change *)

\* Whatever happens to the tables, as long as rows stay, keep their category
\* and are not made active again, what requests and chats hold stays right.
LEMMA TablesMove ==
    ASSUME IndInv, TypeOK', UNCHANGED <<chats, tasks, updates>>,
           Created \subseteq Created',
           \A tpl \in Created : category'[tpl] = category[tpl],
           active' \cap Created \subseteq active, PastGrows, PastOK',
           Len(documents) <= Len(documents'),
           \A d \in DOMAIN documents : d \in DOMAIN documents' /\ documents'[d] = documents[d]
    PROVE  IndInv'
<1>0. /\ menus' = menus /\ lists' = lists /\ lines' = lines /\ figures' = figures
      /\ tasks' = tasks /\ updates' = updates
    BY DEF chats
<1>1. OffersOK' /\ RequestsDiffer' /\ FiguresWereTrue'
    <2>1. FiguresWereTrue' /\ \A f \in figures' : f.until <= Len(past')
        BY <1>0, ShownFiguresStay DEF IndInv, TypeOK, OffersOK
    <2> QED BY <1>0, <2>1 DEF IndInv, OffersOK, RequestsDiffer
<1>2. \A u : Own(u) \subseteq Own(u)'
    BY DEF Own
<1>3. ASSUME NEW t \in Tasks, tasks[t] # Idle PROVE TaskCurrent(tasks[t])'
    <2> DEFINE k == tasks[t]
    <2>1. k \in TaskRecords /\ TaskCurrent(k) /\ k' = k
        BY <1>0, <1>3, TaskTypes DEF IndInv
    <2>2. /\ k.active \subseteq Created' /\ k.retired \subseteq Created'
          /\ k.retired \cap active' = {} /\ k.had <= Len(documents')
          /\ k.active \cap active' \subseteq k.active \cap active
          /\ k.active \cap active \subseteq Created
        <3>1. /\ k.active \subseteq Created /\ k.retired \subseteq Created
              /\ k.retired \cap active = {} /\ k.had <= Len(documents)
            BY <2>1 DEF TaskCurrent
        <3>2. k.had \in Nat /\ Len(documents) \in Nat /\ Len(documents') \in Nat
            <4>1. Len(documents) \in Nat /\ Len(documents') \in Nat
                BY DEF IndInv, TypeOK
            <4> QED BY <2>1, <4>1 DEF TaskRecords
        <3>3. k.had <= Len(documents')
            BY <3>1, <3>2
        <3> QED BY <3>1, <3>3
    <2>3. k.pc = "menu" => CategoriesOf(k.found, k.active \cap active, k.retired)'
        BY <2>1, <2>2, CategoriesStay DEF TaskCurrent
    <2>4. k.pc = "edit" =>
            TemplatesOf(k.found, k.category, k.active \cap active, k.retired)'
        BY <2>1, <2>2, TemplatesStay DEF TaskCurrent
    <2>5. PICK r : r = k
        OBVIOUS
    <2>6. FiguresCurrent(r)'
        BY <2>1, <2>5, FiguresStay DEF TaskCurrent
    <2>7. k.pc \in {"templates", "edit"} => k.category # NoCategory
        BY <2>1 DEF TaskCurrent
    <2>8. FiguresCurrent(k)'
        BY <2>1, <2>5, <2>6 DEF FiguresCurrent
    <2> QED BY <2>1, <2>2, <2>3, <2>4, <2>7, <2>8 DEF TaskCurrent
<1>4. ASSUME NEW t \in Tasks, tasks[t] # Idle PROVE TaskBounded(tasks[t])'
    <2> DEFINE k == tasks[t]
    <2>1. k \in TaskRecords /\ TaskBounded(k) /\ k' = k
        BY <1>0, <1>4, TaskTypes DEF IndInv
    <2>2. \A doc : Repeats(k.upd, doc)' = Repeats(k.upd, doc)
        BY <1>0, <2>1 DEF Repeats
    <2>3. ASSUME NEW doc \in DOMAIN documents', doc \notin DOMAIN documents
          PROVE  Cardinality(Repeats(k.upd, doc)) = 0
        <3>1. \A i \in DOMAIN lines : lines[i].doc \in DOMAIN documents
            BY DEF IndInv, LinesBounded, Own
        <3> QED BY <2>3, <3>1, NoRepeats
    <2>4. 0 <= k.tries
        BY <2>1 DEF TaskRecords
    <2> QED BY <1>2, <2>1, <2>2, <2>3, <2>4 DEF TaskBounded
<1>5. MenusAreCurrent'
    <2>1. ASSUME NEW m \in menus PROVE CategoriesOf(m.choices, m.stayed, m.retired)'
        <3>1. m.stayed \subseteq Created /\ CategoriesOf(m.choices, m.stayed, m.retired)
            BY DEF IndInv, OffersOK, MenusAreCurrent
        <3> QED BY <3>1, CategoriesStay
    <2> QED BY <1>0, <2>1 DEF MenusAreCurrent
<1>6. ListsAreCurrent'
    <2>1. ASSUME NEW l \in lists
          PROVE  TemplatesOf(l.choices, l.category, l.stayed, l.retired)'
        <3>1. l.stayed \subseteq Created /\ TemplatesOf(l.choices, l.category, l.stayed, l.retired)
            BY DEF IndInv, OffersOK, ListsAreCurrent
        <3> QED BY <3>1, TemplatesStay
    <2> QED BY <1>0, <2>1 DEF ListsAreCurrent
<1>7. LinesBounded'
    BY <1>0, <1>2 DEF IndInv, LinesBounded, Repeats
<1> QED BY <1>0, <1>1, <1>3, <1>4, <1>5, <1>6, <1>7 DEF IndInv

\* A change writes the new counts to the end of the history.
LEMMA ChangeIsRecorded ==
    ASSUME IndInv, Change, active' \subseteq Templates, documents' \in Seq(Documents),
           IsFiniteSet(registered')
    PROVE  /\ PastGrows /\ PastOK'
           /\ past' \in Seq([templates : Nat, documents : Nat, users : Nat])
<1>1. past \in Seq([templates : Nat, documents : Nat, users : Nat])
    BY DEF IndInv, TypeOK
<1>2. Cardinality(active') \in Nat /\ Cardinality(registered') \in Nat /\ Len(documents') \in Nat
    <2>1. IsFiniteSet(active')
        BY CatalogAssumption, FS_Subset
    <2> QED BY <2>1, FS_CardinalityType
<1>3. Counts' \in [templates : Nat, documents : Nat, users : Nat]
    BY <1>2 DEF Counts
<1> PICK c \in [templates : Nat, documents : Nat, users : Nat] : c = Counts'
    BY <1>3
<1>4. past' = Append(past, c)
    BY DEF Change
<1>5. /\ past' \in Seq([templates : Nat, documents : Nat, users : Nat])
      /\ Len(past') = Len(past) + 1 /\ past'[Len(past')] = c /\ past' # <<>>
      /\ Len(past) \in Nat
      /\ \A i \in 1 .. Len(past) : past'[i] = past[i]
    BY <1>1, <1>4
<1>6. PastGrows
    BY <1>5 DEF PastGrows
<1>7. PastOK'
    BY <1>5 DEF PastOK
<1> QED BY <1>5, <1>6, <1>7

LEMMA ChangeSteps ==
    ASSUME IndInv, CreateTemplate \/ Retire \/ SaveDocument \/ Register \/ Tick
    PROVE  IndInv'
<1>0. UNCHANGED <<chats, tasks, updates>> /\ Change /\ TypeOK
    BY DEF CreateTemplate, Retire, SaveDocument, Register, Tick, Change, IndInv
<1>1. CASE CreateTemplate
    <2>1. PICK tpl \in Templates \ Created, cat \in Categories :
             category' = [category EXCEPT ![tpl] = cat] /\ active' = active \cup {tpl}
        BY <1>1 DEF CreateTemplate
    <2>2. /\ category' \in [Templates -> Categories \cup {NoRow}]
          /\ Created' = Created \cup {tpl} /\ Created' \subseteq Templates
          /\ \A other \in Created : category'[other] = category[other]
        BY <1>0, <2>1, CatalogAssumption DEF TypeOK, Created
    <2>3. documents' = documents /\ now' = now /\ registered' = registered
        BY <1>1 DEF CreateTemplate
    <2>4. active' \subseteq Created'
        BY <1>0, <2>1, <2>2 DEF TypeOK
    <2>5. /\ PastGrows /\ PastOK'
          /\ past' \in Seq([templates : Nat, documents : Nat, users : Nat])
        BY <1>0, <2>2, <2>3, <2>4, ChangeIsRecorded DEF TypeOK
    <2>6. TypeOK'
        BY <1>0, <2>2, <2>3, <2>4, <2>5 DEF TypeOK, chats
    <2> QED BY <1>0, <2>1, <2>2, <2>3, <2>5, <2>6, TablesMove DEF TypeOK
<1>2. CASE Retire
    <2>1. /\ active' \subseteq active /\ category' = category /\ documents' = documents
          /\ now' = now /\ registered' = registered
        BY <1>2 DEF Retire
    <2>2. Created' = Created /\ Created \subseteq Templates
        BY <2>1 DEF Created
    <2>3. /\ PastGrows /\ PastOK'
          /\ past' \in Seq([templates : Nat, documents : Nat, users : Nat])
        BY <1>0, <2>1, <2>2, ChangeIsRecorded DEF TypeOK
    <2>4. TypeOK'
        BY <1>0, <2>1, <2>2, <2>3 DEF TypeOK, chats
    <2> QED BY <1>0, <2>1, <2>2, <2>3, <2>4, TablesMove DEF TypeOK
<1>3. CASE SaveDocument
    <2>1. PICK user \in Users :
             documents' = Append(documents, [user |-> user, created_at |-> now])
        BY <1>3 DEF SaveDocument
    <2>2. /\ active' = active /\ category' = category /\ now' = now /\ registered' = registered
          /\ Created' = Created /\ Created \subseteq Templates
        BY <1>3 DEF SaveDocument, Created
    <2>3. [user |-> user, created_at |-> now] \in Documents
        BY <1>0 DEF TypeOK, Documents
    <2>4. /\ documents' \in Seq(Documents) /\ Len(documents) <= Len(documents')
          /\ \A d \in DOMAIN documents : d \in DOMAIN documents' /\ documents'[d] = documents[d]
        BY <1>0, <2>1, <2>3 DEF TypeOK
    <2>5. /\ PastGrows /\ PastOK'
          /\ past' \in Seq([templates : Nat, documents : Nat, users : Nat])
        BY <1>0, <2>2, <2>4, ChangeIsRecorded DEF TypeOK
    <2>6. TypeOK'
        BY <1>0, <2>2, <2>4, <2>5 DEF TypeOK, chats
    <2> QED BY <1>0, <2>2, <2>4, <2>5, <2>6, TablesMove
<1>4. CASE Register
    <2>1. PICK user \in Users : registered' = registered \cup {user}
        BY <1>4 DEF Register
    <2>2. /\ active' = active /\ category' = category /\ documents' = documents /\ now' = now
          /\ Created' = Created /\ Created \subseteq Templates
        BY <1>4 DEF Register, Created
    <2>3. registered' \subseteq Users /\ IsFiniteSet(registered')
        BY <1>0, <2>1, FS_AddElement DEF TypeOK
    <2>4. /\ PastGrows /\ PastOK'
          /\ past' \in Seq([templates : Nat, documents : Nat, users : Nat])
        BY <1>0, <2>2, <2>3, ChangeIsRecorded DEF TypeOK
    <2>5. TypeOK'
        BY <1>0, <2>2, <2>3, <2>4 DEF TypeOK, chats
    <2> QED BY <1>0, <2>2, <2>4, <2>5, TablesMove DEF TypeOK
<1>5. CASE Tick
    <2>1. /\ active' = active /\ category' = category /\ documents' = documents
          /\ registered' = registered /\ now' \in Nat
          /\ Created' = Created /\ Created \subseteq Templates
        BY <1>0, <1>5 DEF Tick, Created, TypeOK
    <2>2. /\ PastGrows /\ PastOK'
          /\ past' \in Seq([templates : Nat, documents : Nat, users : Nat])
        BY <1>0, <2>1, ChangeIsRecorded DEF TypeOK
    <2>3. TypeOK'
        BY <1>0, <2>1, <2>2 DEF TypeOK, chats
    <2> QED BY <1>0, <2>1, <2>2, <2>3, TablesMove DEF TypeOK
<1> QED BY <1>1, <1>2, <1>3, <1>4, <1>5

-----------------------------------------------------------------------------
(* A request comes *)

\* A step of one task leaves the others to be looked at only where it changes
\* the chats.
LEMMA OneTask ==
    ASSUME NEW t \in Tasks, NEW k, tasks' = [tasks EXCEPT ![t] = k],
           tasks \in [Tasks -> TaskRecords \cup {Idle}],
           k # Idle => TaskCurrent(k)' /\ TaskBounded(k)',
           \A s \in Tasks \ {t} :
              tasks[s] # Idle => TaskCurrent(tasks[s])' /\ TaskBounded(tasks[s])',
           NEW s \in Tasks, tasks'[s] # Idle
    PROVE  TaskCurrent(tasks[s])' /\ TaskBounded(tasks[s])'
<1>1. CASE s = t
    <2>1. tasks'[s] = k /\ k # Idle
        BY <1>1
    <2>2. TaskCurrent(k)' /\ TaskBounded(k)'
        BY <2>1
    <2>3. TaskCurrent(tasks[s])'
        BY <2>1, <2>2 DEF TaskCurrent
    <2>4. TaskBounded(tasks[s])'
        BY <2>1, <2>2 DEF TaskBounded
    <2> QED BY <2>3, <2>4
<1>2. CASE s # t
    <2>1. tasks'[s] = tasks[s]
        BY <1>2
    <2> QED BY <1>2, <2>1
<1> QED BY <1>1, <1>2

LEMMA NewRequest ==
    ASSUME IndInv, NEW t \in Tasks, NEW user \in Users, NEW cat \in Categories,
           NEW pc \in MessagePCs \cup {"templates"},
           pc = "templates" => cat # NoCategory,
           Dispatch(t), Set(t, Request(pc, user, cat))
    PROVE  IndInv'
<1> PICK k : k = Request(pc, user, cat)
    OBVIOUS
<1>1. /\ tasks' = [tasks EXCEPT ![t] = k] /\ updates' = updates + 1 /\ tasks[t] = Idle
      /\ tasks \in [Tasks -> TaskRecords \cup {Idle}] /\ updates \in Nat
      /\ Len(documents) \in Nat /\ Created \subseteq Templates /\ active \subseteq Created
    BY DEF Dispatch, Set, IndInv, TypeOK, Created
<1>12. Len(past) \in Nat \ {0}
    BY DEF IndInv, TypeOK, PastOK
<1>2. /\ UNCHANGED <<category, active, documents, registered, now, past>> /\ Created' = Created
      /\ menus' = menus /\ lists' = lists /\ lines' = lines /\ figures' = figures
    BY DEF Dispatch, tables, chats, Created
<1>3. k \in TaskRecords /\ k # Idle /\ k.upd = updates + 1 /\ k.tries = 0 /\ k.pc = pc
    <2>1. /\ k.upd = updates + 1 /\ k.tries = 0 /\ k.pc = pc
        BY DEF Request
    <2>2. pc \in PCs
        BY DEF PCs, QueryPCs, MessagePCs
    <2>3. <<>> \in Seq(Nat \ {0}) /\ {} \in SUBSET (Categories \cup Templates)
        OBVIOUS
    <2>4. active \in SUBSET Templates /\ Created \ active \in SUBSET Templates
        BY <1>1
    <2>5. k \in TaskRecords
        BY <1>1, <1>12, <2>2, <2>3, <2>4 DEF Request, TaskRecords
    <2> QED BY <2>1, <2>5, NotIdle
<1>4. TypeOK'
    BY <1>1, <1>2, <1>3 DEF IndInv, TypeOK
<1>5. OffersOK' /\ MenusAreCurrent' /\ ListsAreCurrent'
    BY <1>2 DEF IndInv, OffersOK, MenusAreCurrent, ListsAreCurrent, CategoriesOf, TemplatesOf
<1>6. LinesBounded' /\ FiguresWereTrue' /\ PastOK'
    BY <1>2 DEF IndInv, LinesBounded, FiguresWereTrue, Own, Repeats, PastOK, Counts
<1>7. RequestsDiffer'
    BY <1>1, <1>2, <1>3 DEF IndInv, RequestsDiffer
<1>8. TaskCurrent(k)'
    <2>1. FiguresCurrent(k)'
        BY <1>2, <1>3, <1>12 DEF FiguresCurrent, Request, MessagePCs
    <2> QED BY <1>1, <1>2, <1>3, <2>1 DEF TaskCurrent, Request, MessagePCs
<1>9. TaskBounded(k)'
    <2>1. \A i \in DOMAIN lines : lines[i].upd # k.upd
        BY <1>1, <1>3 DEF IndInv, RequestsDiffer
    <2>2. ASSUME NEW doc PROVE Cardinality(Repeats(k.upd, doc))' = 0
        <3>1. Repeats(k.upd, doc)' = Repeats(k.upd, doc)
            BY <1>2 DEF Repeats
        <3>2. Cardinality(Repeats(k.upd, doc)) = 0
            BY <2>1, NoRepeats
        <3> QED BY <3>1, <3>2
    <2>3. k.tries < MaxRetries /\ k.pc # "lines"
        BY <1>3, CatalogAssumption DEF MessagePCs
    <2> QED BY <1>3, <2>2, <2>3 DEF TaskBounded
<1>10. ASSUME NEW s \in Tasks \ {t}, tasks[s] # Idle
       PROVE  TaskCurrent(tasks[s])' /\ TaskBounded(tasks[s])'
    <2>1. TaskCurrent(tasks[s]) /\ TaskBounded(tasks[s]) /\ tasks'[s] = tasks[s]
        BY <1>1, <1>10 DEF IndInv
    <2> QED BY <1>2, <2>1
        DEF TaskCurrent, TaskBounded, CategoriesOf, TemplatesOf, FiguresCurrent, Own, Repeats
<1>11. \A s \in Tasks : tasks'[s] # Idle => TaskCurrent(tasks[s])' /\ TaskBounded(tasks[s])'
    BY <1>1, <1>8, <1>9, <1>10, OneTask
<1> QED BY <1>4, <1>5, <1>6, <1>7, <1>11 DEF IndInv

-----------------------------------------------------------------------------
(* What a call of Telegram's leaves in the chats *)

Lines == [upd : Nat, user : Users, doc : Nat \ {0}]

MenuOK(m) == /\ m.user \in Users /\ m.choices \subseteq Categories
             /\ m.stayed \subseteq Created /\ NoCategory \notin m.choices
             /\ CategoriesOf(m.choices, m.stayed, m.retired)

ListOK(l) == /\ l.user \in Users /\ l.choices \subseteq Templates
             /\ l.stayed \subseteq Created
             /\ TemplatesOf(l.choices, l.category, l.stayed, l.retired)

FigureOK(f) ==
    /\ f \in Figures /\ f.until <= Len(past)
    /\ \E i \in f.since .. f.until : \E j \in i .. f.until : \E l \in j .. f.until :
          /\ past[i].templates = f.templates
          /\ past[j].documents = f.documents
          /\ past[l].users = f.users

\* The next line of the listing, sent for the first time in this run.
LineOK(k, line) == /\ k.pc = "lines" /\ k.sent < Len(k.listing)
                   /\ line \in Lines /\ line.upd = k.upd /\ line.doc = k.listing[k.sent + 1]
                   /\ line.doc \in Own(line.user)
                   /\ Cardinality(Repeats(k.upd, line.doc)) <= k.tries

\* The chats after a step of the task k.
ChatsMove(k) ==
    /\ \A m \in menus' : m \in menus \/ MenuOK(m)
    /\ \A l \in lists' : l \in lists \/ ListOK(l)
    /\ \A f \in figures' : f \in figures \/ FigureOK(f)
    /\ \/ lines' = lines
       \/ \E line \in Lines : LineOK(k, line) /\ lines' = Append(lines, line)

LEMMA NothingPosted == ASSUME UNCHANGED chats, NEW k PROVE ChatsMove(k)
BY DEF chats, ChatsMove

LEMMA LinePosted ==
    ASSUME IndInv, NEW t \in Tasks, tasks[t] # Idle, tasks[t].pc = "lines",
           tasks[t].listing # <<>>
    PROVE  LET k == tasks[t]
           IN  LineOK(k, [upd |-> k.upd, user |-> k.user, doc |-> k.listing[k.sent + 1]])
<1> DEFINE k == tasks[t]
           line == [upd |-> k.upd, user |-> k.user, doc |-> k.listing[k.sent + 1]]
<1>1. k \in TaskRecords /\ TaskBounded(k)
    BY TaskTypes DEF IndInv
<1>2. /\ k.sent \in Nat /\ k.listing \in Seq(Nat \ {0}) /\ k.upd \in Nat /\ k.user \in Users
      /\ k.sent < Len(k.listing) /\ k.sent + 1 \in DOMAIN k.listing /\ k.tries \in Nat
    <2>1. /\ k.sent \in Nat /\ k.listing \in Seq(Nat \ {0})
          /\ k.upd \in Nat /\ k.user \in Users /\ k.tries \in Nat
        BY <1>1 DEF TaskRecords
    <2>2. k.sent < Len(k.listing)
        BY <1>1 DEF TaskBounded
    <2> QED BY <2>1, <2>2
<1>3. line \in Lines
    BY <1>2 DEF Lines
<1>4. /\ k.listing[k.sent + 1] \in Own(k.user)
      /\ \A j \in 1 .. k.sent : k.listing[j] # k.listing[k.sent + 1]
    <2>1. \A j \in 1 .. (k.sent + 1) - 1 : k.listing[j] # k.listing[k.sent + 1]
        BY <1>1, <1>2 DEF TaskBounded
    <2>2. (k.sent + 1) - 1 = k.sent
        BY <1>2
    <2> QED BY <1>1, <1>2, <2>1, <2>2 DEF TaskBounded
<1>5. line.doc \in DOMAIN documents
    BY <1>4 DEF Own
<1>6. Cardinality(Repeats(k.upd, line.doc)) <= k.tries
    BY <1>1, <1>4, <1>5 DEF TaskBounded
<1> QED BY <1>2, <1>3, <1>4, <1>6 DEF LineOK

LEMMA Posts ==
    ASSUME IndInv, NEW t \in Tasks, tasks[t] # Idle,
           tasks[t].pc \in {"menu", "lines", "figures", "edit"}, Post(tasks[t])
    PROVE  ChatsMove(tasks[t])
<1> DEFINE k == tasks[t]
<1>1. k \in TaskRecords /\ TaskCurrent(k) /\ Len(documents) \in Nat /\ active \subseteq Created
    BY TaskTypes DEF IndInv, TypeOK
<1>2. ASSUME NEW m \in menus', m \notin menus PROVE MenuOK(m)
    <2>1. /\ k.pc = "menu"
          /\ m = [user |-> k.user, choices |-> k.found,
                  retired |-> k.retired, stayed |-> k.active \cap active]
        BY <1>2 DEF Post
    <2>2. CategoriesOf(k.found, k.active \cap active, k.retired)
        BY <1>1, <2>1 DEF TaskCurrent
    <2>3. NoCategory \notin k.found
        BY <2>1 DEF Post, Sendable
    <2>4. k.found \subseteq Categories /\ k.user \in Users
        BY <1>1, <2>2, CatalogAssumption DEF TaskRecords, CategoriesOf, Created, IndInv, TypeOK
    <2> QED BY <1>1, <2>1, <2>2, <2>3, <2>4 DEF MenuOK
<1>3. ASSUME NEW l \in lists', l \notin lists PROVE ListOK(l)
    <2>1. /\ k.pc = "edit"
          /\ l = [user |-> k.user, category |-> k.category, choices |-> k.found,
                  retired |-> k.retired, stayed |-> k.active \cap active]
        BY <1>3 DEF Post
    <2>2. TemplatesOf(k.found, k.category, k.active \cap active, k.retired)
        BY <1>1, <2>1 DEF TaskCurrent
    <2>3. k.found \subseteq Templates /\ k.user \in Users
        BY <1>1, <2>2 DEF TaskRecords, TemplatesOf, Created
    <2> QED BY <1>1, <2>1, <2>2, <2>3 DEF ListOK
<1>4. ASSUME NEW f \in figures', f \notin figures PROVE FigureOK(f)
    <2>1. k.pc = "figures"
        BY <1>4 DEF Post
    <2>2. f = [templates |-> k.tpl_count, documents |-> k.doc_count, users |-> k.user_count,
               since |-> k.since, until |-> Len(past)]
        BY <1>4 DEF Post
    <2>3. Len(past) \in Nat
        BY DEF IndInv, TypeOK
    <2>4. FiguresCurrent(k)
        BY <1>1 DEF TaskCurrent
    <2>5. f \in Figures
        BY <1>1, <2>2, <2>3 DEF TaskRecords, Figures
    <2> QED BY <2>1, <2>2, <2>3, <2>4, <2>5 DEF FiguresCurrent, FigureOK
<1>5. \/ lines' = lines
      \/ \E line \in Lines : LineOK(k, line) /\ lines' = Append(lines, line)
    <2>1. CASE k.pc = "lines" /\ k.listing # <<>>
        <3> DEFINE line == [upd |-> k.upd, user |-> k.user, doc |-> k.listing[k.sent + 1]]
        <3>1. LineOK(k, line)
            BY <2>1, LinePosted
        <3>2. lines' = Append(lines, line)
            BY <2>1 DEF Post
        <3> QED BY <3>1, <3>2 DEF LineOK
    <2>2. CASE ~ (k.pc = "lines" /\ k.listing # <<>>)
        BY <2>2 DEF Post
    <2> QED BY <2>1, <2>2
<1> QED BY <1>2, <1>3, <1>4, <1>5 DEF ChatsMove

-----------------------------------------------------------------------------
(* A task moves *)

\* The lines of the other requests are the lines they were.
LEMMA OtherLines ==
    ASSUME IndInv, NEW k, ChatsMove(k), NEW upd, upd # k.upd
    PROVE  \A doc : Repeats(upd, doc)' = Repeats(upd, doc)
<1> SUFFICES ASSUME NEW doc PROVE Repeats(upd, doc)' = Repeats(upd, doc)
    OBVIOUS
<1>1. CASE lines' = lines
    BY <1>1 DEF Repeats
<1>2. ASSUME NEW line \in Lines, LineOK(k, line), lines' = Append(lines, line)
      PROVE  Repeats(upd, doc)' = Repeats(upd, doc)
    <2>1. line.upd # upd
        BY <1>2 DEF LineOK
    <2>2. lines \in Seq(Lines)
        BY DEF IndInv, TypeOK, Lines
    <2> QED BY <1>2, <2>1, <2>2 DEF Repeats
<1> QED BY <1>1, <1>2 DEF ChatsMove

\* No line is sent more often than the middleware runs the body.
LEMMA LinesStay ==
    ASSUME IndInv, NEW t \in Tasks, tasks[t] # Idle, ChatsMove(tasks[t]), UNCHANGED tables
    PROVE  LinesBounded' /\ lines' \in Seq(Lines)
           /\ \A i \in DOMAIN lines' : lines'[i].upd \in 1 .. updates
<1> DEFINE k == tasks[t]
<1>1. lines \in Seq(Lines) /\ k \in TaskRecords /\ k.tries < MaxRetries
      /\ k.upd \in 1 .. updates /\ documents' = documents
    BY TaskTypes DEF IndInv, TypeOK, Lines, TaskBounded, RequestsDiffer, tables
<1>2. CASE lines' = lines
    BY <1>1, <1>2 DEF IndInv, LinesBounded, Repeats, Own, RequestsDiffer
<1>3. ASSUME NEW line \in Lines, LineOK(k, line), lines' = Append(lines, line)
      PROVE  LinesBounded' /\ lines' \in Seq(Lines)
             /\ \A i \in DOMAIN lines' : lines'[i].upd \in 1 .. updates
    <2>1. /\ DOMAIN lines' = 1 .. Len(lines) + 1 /\ lines' \in Seq(Lines)
          /\ DOMAIN lines = 1 .. Len(lines) /\ Len(lines) \in Nat
          /\ \A i \in DOMAIN lines : lines'[i] = lines[i]
          /\ lines'[Len(lines) + 1] = line
        BY <1>1, <1>3
    <2>2. ASSUME NEW i \in DOMAIN lines', NEW upd, NEW doc,
                 lines'[i].upd = upd, lines'[i].doc = doc
          PROVE  Cardinality(Repeats(upd, doc))' <= MaxRetries
        <3>1. Cardinality(Repeats(upd, doc)) \in Nat /\ MaxRetries \in Nat /\ k.tries \in Nat
            BY <1>1, RepeatsFinite, CatalogAssumption DEF IndInv, TaskRecords
        <3>2. CASE line.upd = upd /\ line.doc = doc
            <4>1. Cardinality(Repeats(upd, doc)) <= k.tries
                BY <1>3, <3>2 DEF LineOK
            <4>2. Cardinality(Repeats(upd, doc))' = Cardinality(Repeats(upd, doc)) + 1
                BY <1>3, <3>2, RepeatsGrow DEF IndInv, Lines
            <4> QED BY <1>1, <3>1, <4>1, <4>2
        <3>3. CASE ~ (line.upd = upd /\ line.doc = doc)
            <4>1. i \in DOMAIN lines /\ lines'[i] = lines[i]
                BY <2>1, <2>2, <3>3
            <4>2. Cardinality(Repeats(upd, doc)) <= MaxRetries
                BY <2>2, <4>1 DEF IndInv, LinesBounded
            <4>3. Cardinality(Repeats(upd, doc))' = Cardinality(Repeats(upd, doc))
                BY <1>3, <3>3, RepeatsGrow DEF IndInv, Lines
            <4> QED BY <4>2, <4>3
        <3> QED BY <3>2, <3>3
    <2>3. LinesBounded'
        <3>1. ASSUME NEW i \in DOMAIN lines'
              PROVE  Cardinality({j \in DOMAIN lines' : /\ lines'[j].upd = lines'[i].upd
                                                        /\ lines'[j].doc = lines'[i].doc})
                       <= MaxRetries
            <4>1. PICK upd, doc : lines'[i].upd = upd /\ lines'[i].doc = doc
                OBVIOUS
            <4>2. Cardinality(Repeats(upd, doc))' <= MaxRetries
                BY <2>2, <4>1
            <4> QED BY <4>1, <4>2 DEF Repeats
        <3>2. ASSUME NEW i \in DOMAIN lines' PROVE lines'[i].doc \in Own(lines'[i].user)
            BY <1>3, <2>1 DEF LineOK, IndInv, LinesBounded
        <3> QED BY <1>1, <3>1, <3>2 DEF LinesBounded, Own, Repeats
    <2>4. \A i \in DOMAIN lines' : lines'[i].upd \in 1 .. updates
        BY <1>1, <1>3, <2>1 DEF LineOK, IndInv, RequestsDiffer
    <2> QED BY <2>1, <2>3, <2>4
<1> QED BY <1>2, <1>3 DEF ChatsMove

\* What has to be shown of a step of the task t that turns it into k.
LEMMA TaskMoves ==
    ASSUME IndInv, NEW t \in Tasks, tasks[t] # Idle, NEW k \in TaskRecords \cup {Idle},
           Set(t, k), UNCHANGED tables, updates' = updates, ChatsMove(tasks[t]),
           k # Idle => k.upd = tasks[t].upd /\ TaskCurrent(k)' /\ TaskBounded(k)'
    PROVE  IndInv'
<1>1. /\ tasks' = [tasks EXCEPT ![t] = k] /\ tasks \in [Tasks -> TaskRecords \cup {Idle}]
      /\ UNCHANGED <<category, active, documents, registered, now, past>> /\ Created' = Created
    BY DEF Set, IndInv, TypeOK, tables, Created
<1>2. LinesBounded' /\ lines' \in Seq(Lines) /\ \A i \in DOMAIN lines' : lines'[i].upd \in 1 .. updates
    BY LinesStay
<1>3. TypeOK'
    <2>1. /\ \A m \in menus' : m.user \in Users /\ m.choices \subseteq Categories
          /\ \A l \in lists' : l.user \in Users /\ l.choices \subseteq Templates
          /\ figures' \subseteq Figures
        BY DEF ChatsMove, MenuOK, ListOK, FigureOK, IndInv, TypeOK
    <2> QED BY <1>1, <1>2, <2>1 DEF IndInv, TypeOK, Lines
<1>4. OffersOK'
    BY <1>1 DEF ChatsMove, MenuOK, ListOK, FigureOK, IndInv, OffersOK
<1>5. MenusAreCurrent'
    <2>1. \A m \in menus' : CategoriesOf(m.choices, m.stayed, m.retired)
        BY DEF ChatsMove, MenuOK, IndInv, MenusAreCurrent
    <2> QED BY <1>1, <2>1 DEF MenusAreCurrent, CategoriesOf
<1>6. ListsAreCurrent'
    <2>1. \A l \in lists' : TemplatesOf(l.choices, l.category, l.stayed, l.retired)
        BY DEF ChatsMove, ListOK, IndInv, ListsAreCurrent
    <2> QED BY <1>1, <2>1 DEF ListsAreCurrent, TemplatesOf
<1>7. FiguresWereTrue' /\ PastOK'
    BY <1>1 DEF ChatsMove, FigureOK, IndInv, FiguresWereTrue, PastOK, Counts
<1>8. RequestsDiffer'
    BY <1>1, <1>2 DEF IndInv, RequestsDiffer
<1>9. ASSUME NEW s \in Tasks \ {t}, tasks[s] # Idle
      PROVE  TaskCurrent(tasks[s])' /\ TaskBounded(tasks[s])'
    <2>1. TaskCurrent(tasks[s]) /\ TaskBounded(tasks[s]) /\ tasks'[s] = tasks[s]
          /\ tasks[s].upd # tasks[t].upd
        BY <1>1, <1>9 DEF IndInv, RequestsDiffer
    <2>2. TaskCurrent(tasks[s])'
        BY <1>1, <2>1 DEF TaskCurrent, CategoriesOf, TemplatesOf, FiguresCurrent
    <2>3. PICK r : r = tasks[s]
        OBVIOUS
    <2>4. \A doc : Repeats(r.upd, doc)' = Repeats(r.upd, doc)
        BY <2>1, <2>3, OtherLines
    <2>5. TaskBounded(r)'
        BY <1>1, <2>1, <2>3, <2>4 DEF TaskBounded, Own
    <2>6. TaskBounded(tasks[s])'
        BY <2>1, <2>3, <2>5 DEF TaskBounded
    <2> QED BY <2>2, <2>6
<1>10. \A s \in Tasks : tasks'[s] # Idle => TaskCurrent(tasks[s])' /\ TaskBounded(tasks[s])'
    BY <1>1, <1>9, OneTask
<1> QED BY <1>2, <1>3, <1>4, <1>5, <1>6, <1>7, <1>8, <1>10 DEF IndInv

LEMMA TaskEnds ==
    ASSUME IndInv, NEW t \in Tasks, tasks[t] # Idle, Finish(t), UNCHANGED tables,
           updates' = updates, ChatsMove(tasks[t])
    PROVE  IndInv'
BY TaskMoves DEF Finish

\* A task that goes on to read the tables keeps the chats.
LEMMA TaskReads ==
    ASSUME IndInv, NEW t \in Tasks, tasks[t] # Idle, NEW k \in TaskRecords,
           Set(t, k), UNCHANGED <<tables, chats, updates>>,
           k.upd = tasks[t].upd, k.tries = tasks[t].tries, tasks[t].pc # "lines",
           TaskCurrent(k),
           k.pc = "lines" =>
              /\ k.sent = 0
              /\ \A i \in DOMAIN k.listing :
                    /\ k.listing[i] \in Own(k.user)
                    /\ \A j \in 1 .. i - 1 : k.listing[j] # k.listing[i]
    PROVE  IndInv'
<1>1. UNCHANGED <<category, active, documents, past>> /\ Created' = Created /\ lines' = lines
    BY DEF tables, chats, Created
<1>2. TaskCurrent(k)'
    BY <1>1 DEF TaskCurrent, CategoriesOf, TemplatesOf, FiguresCurrent
<1>3. TaskBounded(k)'
    <2>1. TaskBounded(tasks[t]) /\ k.listing \in Seq(Nat \ {0})
        BY DEF IndInv, TaskRecords
    <2>2. \A doc : Repeats(k.upd, doc)' = Repeats(k.upd, doc)
        BY <1>1 DEF Repeats
    <2>3. k.pc = "lines" => k.sent < Len(k.listing) \/ k.listing = <<>>
        BY <2>1
    <2> QED BY <1>1, <2>1, <2>2, <2>3 DEF TaskBounded, Own
<1>4. ChatsMove(tasks[t])
    BY NothingPosted
<1>5. k \in TaskRecords \cup {Idle} /\ UNCHANGED tables /\ updates' = updates
    OBVIOUS
<1> QED BY <1>2, <1>3, <1>4, <1>5, TaskMoves

-----------------------------------------------------------------------------
(* The queries *)

\* Documents a query returns are the user's own, each once.
LEMMA LatestAreOwn ==
    ASSUME NEW docs, NEW n \in Nat, NEW all \in Latest(n, docs), NEW m \in Nat,
           docs \subseteq Nat \ {0}, IsFiniteSet(docs)
    PROVE  /\ First(m, all) \in Seq(Nat \ {0})
           /\ \A i \in DOMAIN First(m, all) :
                 /\ First(m, all)[i] \in docs
                 /\ \A j \in 1 .. i - 1 : First(m, all)[j] # First(m, all)[i]
<1> DEFINE c == Cardinality(docs)
           l == IF c < n THEN c ELSE n
<1>1. c \in Nat /\ l \in Nat
    BY FS_CardinalityType
<1> HIDE DEF c
<1>2. /\ all \in [1 .. l -> docs]
      /\ \A i \in 1 .. l : \A j \in 1 .. i - 1 : all[j] # all[i]
    BY DEF Latest, c
<1> HIDE DEF l
<1>3. all \in Seq(Nat \ {0}) /\ Len(all) = l /\ DOMAIN all = 1 .. l
    <2>1. all \in [1 .. l -> Nat \ {0}]
        BY <1>2
    <2>2. all \in Seq(Nat \ {0})
        BY <1>1, <2>1
    <2> QED BY <1>1, <2>1, <2>2
<1>4. CASE Len(all) <= m
    BY <1>1, <1>2, <1>3, <1>4 DEF First
<1>5. CASE ~ (Len(all) <= m)
    <2>1. First(m, all) = SubSeq(all, 1, m)
        BY <1>5 DEF First
    <2>2. /\ DOMAIN SubSeq(all, 1, m) = 1 .. m /\ SubSeq(all, 1, m) \in Seq(Nat \ {0})
          /\ \A i \in 1 .. m : SubSeq(all, 1, m)[i] = all[i] /\ i \in 1 .. l
        BY <1>1, <1>3, <1>5
    <2>3. ASSUME NEW i \in 1 .. m
          PROVE  /\ all[i] \in docs
                 /\ \A j \in 1 .. i - 1 : j \in 1 .. m /\ all[j] # all[i]
        BY <1>1, <1>2, <2>2
    <2> QED BY <2>1, <2>2, <2>3
<1> QED BY <1>4, <1>5

LEMMA QuerySteps ==
    ASSUME IndInv, NEW t \in Tasks,
           Categorise(t) \/ FindTemplates(t) \/ FindDocuments(t)
             \/ CountTemplates(t) \/ CountDocuments(t) \/ CountUsers(t)
    PROVE  IndInv'
<1> DEFINE k == tasks[t]
<1>0. UNCHANGED <<tables, chats, updates>>
    BY DEF Categorise, FindTemplates, FindDocuments, CountTemplates, CountDocuments,
           CountUsers
<1>1. /\ k \in TaskRecords /\ TaskCurrent(k) /\ k # Idle
      /\ active \subseteq Created /\ Created \subseteq Templates
      /\ k.pc \in {"categories", "templates", "documents", "count_templates",
                 "count_documents", "count_users"}
    <2>0. k.pc \in {"categories", "templates", "documents", "count_templates",
                 "count_documents", "count_users"}
        BY DEF Categorise, FindTemplates, FindDocuments, CountTemplates, CountDocuments,
           CountUsers
    <2>1. k # Idle
        BY <2>0 DEF Idle
    <2> QED BY <2>1, TaskTypes
        DEF IndInv, TypeOK, Created, Categorise, FindTemplates, FindDocuments,
            CountTemplates, CountDocuments, CountUsers
<1>2. CASE Categorise(t)
    <2> DEFINE n == [k EXCEPT !.pc = "menu", !.found = get_categories]
    <2>1. get_categories \subseteq Categories
        BY <1>1 DEF get_categories, Created, IndInv, TypeOK
    <2>2. n \in TaskRecords /\ n.upd = k.upd /\ n.tries = k.tries /\ n.pc = "menu"
        BY <1>1, <2>1 DEF TaskRecords, PCs
    <2>3. CategoriesOf(get_categories, k.active \cap active, k.retired)
        BY <1>1 DEF CategoriesOf, get_categories, TaskCurrent
    <2>4. TaskCurrent(n)
        BY <1>1, <2>3 DEF TaskCurrent, TaskRecords, FiguresCurrent
    <2>5. Set(t, n)
        BY <1>2 DEF Categorise
    <2> QED BY <1>0, <1>1, <2>2, <2>4, <2>5, TaskReads
<1>3. CASE FindTemplates(t)
    <2> DEFINE found == get_active_templates(k.category)
               n == [k EXCEPT !.pc = "edit", !.found = found]
    <2>1. found \subseteq Templates
        BY <1>1 DEF get_active_templates
    <2>2. n \in TaskRecords /\ n.upd = k.upd /\ n.tries = k.tries /\ n.pc = "edit"
        BY <1>1, <2>1 DEF TaskRecords, PCs
    <2>3. k.category # NoCategory
        BY <1>1, <1>3 DEF TaskCurrent, FindTemplates
    <2>4. TemplatesOf(found, k.category, k.active \cap active, k.retired)
        BY <1>1, <2>3 DEF TemplatesOf, get_active_templates, TaskCurrent
    <2>5. TaskCurrent(n)
        BY <1>1, <2>3, <2>4 DEF TaskCurrent, TaskRecords, FiguresCurrent
    <2>6. Set(t, n)
        BY <1>3 DEF FindTemplates
    <2> QED BY <1>0, <1>1, <2>2, <2>5, <2>6, TaskReads
<1>4. CASE FindDocuments(t)
    <2>1. PICK docs \in get_user_documents(k.user) :
             Set(t, [k EXCEPT !.pc = "lines", !.sent = 0, !.listing = First(ListMax, docs)])
        BY <1>4 DEF FindDocuments
    <2> DEFINE listing == First(ListMax, docs)
               n == [k EXCEPT !.pc = "lines", !.sent = 0, !.listing = listing]
    <2>2. Own(k.user) \subseteq Nat \ {0} /\ IsFiniteSet(Own(k.user))
        <3>1. Len(documents) \in Nat /\ DOMAIN documents = 1 .. Len(documents)
            BY DEF IndInv, TypeOK
        <3>2. IsFiniteSet(1 .. Len(documents)) /\ Own(k.user) \subseteq 1 .. Len(documents)
            BY <3>1, FS_Interval DEF Own
        <3> QED BY <3>1, <3>2, FS_Subset
    <2>3. /\ listing \in Seq(Nat \ {0})
          /\ \A i \in DOMAIN listing :
                /\ listing[i] \in Own(k.user)
                /\ \A j \in 1 .. i - 1 : listing[j] # listing[i]
        <3>1. QueryMax \in Nat /\ ListMax \in Nat
            BY CatalogAssumption
        <3>2. docs \in Latest(QueryMax, Own(k.user))
            BY <2>1 DEF get_user_documents
        <3> QED BY <2>2, <3>1, <3>2, LatestAreOwn
    <2> HIDE DEF listing
    <2>4. /\ n \in TaskRecords /\ n.upd = k.upd /\ n.tries = k.tries /\ n.pc = "lines"
          /\ n.sent = 0 /\ n.listing = listing /\ n.user = k.user
        BY <1>1, <2>3 DEF TaskRecords, PCs
    <2>5. TaskCurrent(n)
        BY <1>1 DEF TaskCurrent, TaskRecords, FiguresCurrent
    <2>6. Set(t, n)
        BY <2>1 DEF listing
    <2>7. k.pc # "lines"
        BY <1>4 DEF FindDocuments
    <2> QED BY <1>0, <1>1, <2>3, <2>4, <2>5, <2>6, <2>7, TaskReads
<1>7. past[Len(past)] = Counts /\ Len(past) \in Nat \ {0}
    BY DEF IndInv, TypeOK, PastOK
<1>8. k.since \in Nat \ {0} /\ k.since <= Len(past)
    BY <1>1 DEF TaskRecords, TaskCurrent, FiguresCurrent
<1>5. CASE CountTemplates(t)
    <2> PICK n : n = [k EXCEPT !.pc = "count_documents", !.tpl_count = get_template_count]
        OBVIOUS
    <2>1. IsFiniteSet(active) /\ get_template_count \in Nat
        BY <1>1, FS_Subset, FS_CardinalityType, CatalogAssumption DEF get_template_count
    <2>2. /\ n \in TaskRecords /\ n.upd = k.upd /\ n.tries = k.tries /\ n.pc = "count_documents"
          /\ n.tpl_count = get_template_count /\ n.since = k.since
          /\ n.active = k.active /\ n.retired = k.retired /\ n.had = k.had
        BY <1>1, <2>1 DEF TaskRecords, PCs, QueryPCs
    <2>3. FiguresCurrent(n)
        <3>1. past[Len(past)].templates = n.tpl_count
            BY <1>7, <2>2 DEF Counts, get_template_count
        <3>2. Len(past) \in n.since .. Len(past)
            BY <1>7, <1>8, <2>2
        <3> QED BY <1>8, <2>2, <3>1, <3>2 DEF FiguresCurrent
    <2>4. TaskCurrent(n)
        BY <1>1, <2>2, <2>3 DEF TaskCurrent
    <2>5. Set(t, n)
        BY <1>5 DEF CountTemplates
    <2> QED BY <1>0, <1>1, <1>5, <2>2, <2>4, <2>5, TaskReads DEF CountTemplates
<1>6. CASE CountDocuments(t)
    <2> PICK n : n = [k EXCEPT !.pc = "count_users", !.doc_count = get_document_count]
        OBVIOUS
    <2>1. get_document_count \in Nat
        BY DEF get_document_count, IndInv, TypeOK
    <2>2. /\ n \in TaskRecords /\ n.upd = k.upd /\ n.tries = k.tries /\ n.pc = "count_users"
          /\ n.tpl_count = k.tpl_count /\ n.doc_count = Len(documents) /\ n.since = k.since
          /\ n.active = k.active /\ n.retired = k.retired /\ n.had = k.had
        BY <1>1, <2>1 DEF TaskRecords, PCs, QueryPCs, get_document_count
    <2>3. FiguresCurrent(n)
        <3>1. PICK i \in k.since .. Len(past) : past[i].templates = k.tpl_count
            BY <1>1, <1>6 DEF TaskCurrent, FiguresCurrent, CountDocuments
        <3>2. past[Len(past)].documents = n.doc_count
            BY <1>7, <2>2 DEF Counts
        <3>3. i \in n.since .. Len(past) /\ Len(past) \in i .. Len(past)
            BY <1>7, <1>8, <2>2
        <3> QED BY <1>8, <2>2, <3>1, <3>2, <3>3 DEF FiguresCurrent
    <2>4. TaskCurrent(n)
        BY <1>1, <2>2, <2>3 DEF TaskCurrent
    <2>5. Set(t, n)
        BY <1>6 DEF CountDocuments
    <2> QED BY <1>0, <1>1, <1>6, <2>2, <2>4, <2>5, TaskReads DEF CountDocuments
<1>9. CASE CountUsers(t)
    <2> PICK n : n = [k EXCEPT !.pc = "figures", !.user_count = get_user_count]
        OBVIOUS
    <2>1. get_user_count \in Nat
        BY FS_CardinalityType DEF get_user_count, IndInv, TypeOK
    <2>2. /\ n \in TaskRecords /\ n.upd = k.upd /\ n.tries = k.tries /\ n.pc = "figures"
          /\ n.tpl_count = k.tpl_count /\ n.doc_count = k.doc_count
          /\ n.user_count = get_user_count /\ n.since = k.since
          /\ n.active = k.active /\ n.retired = k.retired /\ n.had = k.had
        BY <1>1, <2>1 DEF TaskRecords, PCs, QueryPCs
    <2>3. FiguresCurrent(n)
        <3>1. PICK i \in k.since .. Len(past) : \E j \in i .. Len(past) :
                 past[i].templates = k.tpl_count /\ past[j].documents = k.doc_count
            BY <1>1, <1>9 DEF TaskCurrent, FiguresCurrent, CountUsers
        <3>2. PICK j \in i .. Len(past) :
                 past[i].templates = k.tpl_count /\ past[j].documents = k.doc_count
            BY <3>1
        <3>3. past[Len(past)].users = n.user_count
            BY <1>7, <2>2 DEF Counts, get_user_count
        <3>4. i \in n.since .. Len(past) /\ Len(past) \in j .. Len(past)
            BY <1>7, <1>8, <2>2
        <3> QED BY <1>8, <2>2, <3>2, <3>3, <3>4 DEF FiguresCurrent
    <2>4. TaskCurrent(n)
        BY <1>1, <2>2, <2>3 DEF TaskCurrent
    <2>5. Set(t, n)
        BY <1>9 DEF CountUsers
    <2> QED BY <1>0, <1>1, <1>9, <2>2, <2>4, <2>5, TaskReads DEF CountUsers
<1> QED BY <1>2, <1>3, <1>4, <1>5, <1>6, <1>9

LEMMA QueryFailsStep ==
    ASSUME IndInv, NEW t \in Tasks, QueryFails(t)
    PROVE  IndInv'
<1>1. tasks[t] # Idle
    BY DEF QueryFails, QueryPCs, MessagePCs, Idle
<1> QED BY <1>1, NothingPosted, TaskEnds DEF QueryFails

-----------------------------------------------------------------------------
(* The calls *)

\* A line that is sent moves the task on by one, and counts for this run.
LEMMA LineCounts ==
    ASSUME IndInv, NEW t \in Tasks, NEW k, k = tasks[t], k # Idle, Post(k),
           k.pc \in {"menu", "lines", "figures", "edit"},
           NEW doc \in DOMAIN documents
    PROVE  /\ Cardinality(Repeats(k.upd, doc))' <= k.tries + 1
           /\ \/ Cardinality(Repeats(k.upd, doc))' <= k.tries
              \/ k.pc = "lines" /\ \E i \in 1 .. k.sent + 1 : k.listing[i] = doc
<1>1. k \in TaskRecords /\ TaskBounded(k) /\ lines \in Seq(Lines)
    BY TaskTypes DEF IndInv, TypeOK, Lines
<1>2. Cardinality(Repeats(k.upd, doc)) \in Nat /\ k.tries \in Nat /\ k.sent \in Nat
    BY <1>1, RepeatsFinite DEF IndInv, TaskRecords
<1>3. /\ Cardinality(Repeats(k.upd, doc)) <= k.tries + 1
      /\ \/ Cardinality(Repeats(k.upd, doc)) <= k.tries
         \/ k.pc = "lines" /\ \E i \in 1 .. k.sent : k.listing[i] = doc
    BY <1>1, <1>2 DEF TaskBounded
<1>4. CASE lines' = lines
    <2>1. Repeats(k.upd, doc)' = Repeats(k.upd, doc)
        BY <1>4 DEF Repeats
    <2>2. \A i \in 1 .. k.sent : i \in 1 .. k.sent + 1
        BY <1>2
    <2> QED BY <1>3, <2>1, <2>2
<1>5. ASSUME NEW line \in Lines, LineOK(k, line), lines' = Append(lines, line)
      PROVE  /\ Cardinality(Repeats(k.upd, doc))' <= k.tries + 1
             /\ \/ Cardinality(Repeats(k.upd, doc))' <= k.tries
                \/ k.pc = "lines" /\ \E i \in 1 .. k.sent + 1 : k.listing[i] = doc
    <2>1. CASE line.doc = doc
        <3>1. Cardinality(Repeats(k.upd, doc)) <= k.tries /\ line.upd = k.upd
              /\ k.pc = "lines" /\ k.listing[k.sent + 1] = doc
            BY <1>5, <2>1 DEF LineOK
        <3>2. Cardinality(Repeats(k.upd, doc))' = Cardinality(Repeats(k.upd, doc)) + 1
            BY <1>5, <2>1, <3>1, RepeatsGrow DEF IndInv, Lines
        <3>3. k.sent + 1 \in 1 .. k.sent + 1
            BY <1>2
        <3> QED BY <1>2, <3>1, <3>2, <3>3
    <2>2. CASE line.doc # doc
        <3>1. Cardinality(Repeats(k.upd, doc))' = Cardinality(Repeats(k.upd, doc))
            BY <1>5, <2>2, RepeatsGrow DEF IndInv, Lines
        <3>2. \A i \in 1 .. k.sent : i \in 1 .. k.sent + 1
            BY <1>2
        <3> QED BY <1>3, <3>1, <3>2
    <2> QED BY <2>1, <2>2
<1>6. ChatsMove(k)
    BY Posts
<1> QED BY <1>4, <1>5, <1>6 DEF ChatsMove

LEMMA PostedStep ==
    ASSUME IndInv, NEW t \in Tasks, Posted(t)
    PROVE  IndInv'
<1> PICK k : k = tasks[t]
    OBVIOUS
<1>1. k # Idle /\ UNCHANGED tables /\ updates' = updates
      /\ k.pc \in {"menu", "lines", "figures", "edit"} /\ Post(k)
    BY DEF Posted, Idle
<1>2. ChatsMove(k) /\ k \in TaskRecords /\ TaskCurrent(k) /\ TaskBounded(k)
    BY <1>1, Posts, TaskTypes DEF IndInv
<1>3. /\ UNCHANGED <<category, active, documents, past>> /\ Created' = Created
      /\ \A u : Own(u)' = Own(u)
    BY <1>1 DEF tables, Created, Own
<1>4. k.sent \in Nat /\ k.tries \in Nat /\ k.listing \in Seq(Nat \ {0})
    BY <1>2 DEF TaskRecords
<1>5. CASE ~ IsLast(k)
    <2> DEFINE n == [k EXCEPT !.sent = @ + 1]
    <2>1. Set(t, n) /\ k.pc = "lines" /\ k.sent + 1 < Len(k.listing)
        BY <1>4, <1>5 DEF Posted, IsLast
    <2>2. /\ n \in TaskRecords /\ n.upd = k.upd /\ n.pc = "lines" /\ n.sent = k.sent + 1
          /\ n.tries = k.tries /\ n.listing = k.listing /\ n.user = k.user
        <3>1. k.sent + 1 \in Nat
            BY <1>4
        <3> QED BY <1>2, <2>1, <3>1 DEF TaskRecords
    <2>3. TaskCurrent(n)'
        <3>1. TaskCurrent(n)
            BY <1>2, <2>1 DEF TaskCurrent, TaskRecords, FiguresCurrent
        <3> QED BY <1>3, <3>1 DEF TaskCurrent, CategoriesOf, TemplatesOf, FiguresCurrent
    <2>4. TaskBounded(n)'
        <3>1. ASSUME NEW doc \in DOMAIN documents
              PROVE  \/ Cardinality(Repeats(n.upd, doc))' <= n.tries
                     \/ /\ Cardinality(Repeats(n.upd, doc))' <= n.tries + 1
                        /\ n.pc = "lines" /\ \E i \in 1 .. n.sent : n.listing[i] = doc
            <4>1. /\ Cardinality(Repeats(k.upd, doc))' <= k.tries + 1
                  /\ \/ Cardinality(Repeats(k.upd, doc))' <= k.tries
                     \/ k.pc = "lines" /\ \E i \in 1 .. k.sent + 1 : k.listing[i] = doc
                BY <1>1, LineCounts
            <4>2. Repeats(n.upd, doc)' = Repeats(k.upd, doc)'
                BY <2>2 DEF Repeats
            <4> HIDE DEF n
            <4> QED BY <2>2, <4>1, <4>2
        <3>2. /\ n.tries < MaxRetries /\ n.sent < Len(n.listing)
              /\ \A i \in DOMAIN n.listing :
                    /\ n.listing[i] \in Own(n.user)
                    /\ \A j \in 1 .. i - 1 : n.listing[j] # n.listing[i]
            BY <1>2, <2>1, <2>2 DEF TaskBounded
        <3> HIDE DEF n
        <3> QED BY <1>3, <3>1, <3>2 DEF TaskBounded
    <2> HIDE DEF n
    <2> QED BY <1>1, <1>2, <2>1, <2>2, <2>3, <2>4, TaskMoves
<1>6. CASE IsLast(k) /\ k.pc = "edit"
    <2> DEFINE n == [k EXCEPT !.pc = "ack"]
    <2>1. Set(t, n)
        BY <1>6 DEF Posted
    <2>2. /\ n \in TaskRecords /\ n.upd = k.upd /\ n.pc = "ack" /\ n.tries = k.tries
        BY <1>2 DEF TaskRecords, PCs
    <2>3. TaskCurrent(n)'
        <3>1. TaskCurrent(n)
            BY <1>2, <2>2 DEF TaskCurrent, TaskRecords, FiguresCurrent
        <3> QED BY <1>3, <3>1 DEF TaskCurrent, CategoriesOf, TemplatesOf, FiguresCurrent
    <2>4. TaskBounded(n)'
        <3>1. ASSUME NEW doc \in DOMAIN documents
              PROVE  Cardinality(Repeats(n.upd, doc))' <= n.tries
            <4>1. Cardinality(Repeats(k.upd, doc))' <= k.tries
                BY <1>1, <1>6, LineCounts
            <4>2. Repeats(n.upd, doc)' = Repeats(k.upd, doc)'
                BY <2>2 DEF Repeats
            <4> HIDE DEF n
            <4> QED BY <2>2, <4>1, <4>2
        <3>2. n.tries < MaxRetries
            BY <1>2, <2>2 DEF TaskBounded
        <3> HIDE DEF n
        <3> QED BY <1>3, <2>2, <3>1, <3>2 DEF TaskBounded
    <2> HIDE DEF n
    <2> QED BY <1>1, <1>2, <2>1, <2>2, <2>3, <2>4, TaskMoves
<1>7. CASE IsLast(k) /\ k.pc # "edit"
    <2>1. Finish(t)
        BY <1>7 DEF Posted
    <2> QED BY <1>1, <1>2, <2>1, TaskEnds
<1> QED BY <1>5, <1>6, <1>7

LEMMA PostFailsStep ==
    ASSUME IndInv, NEW t \in Tasks, PostFails(t)
    PROVE  IndInv'
<1> PICK k : k = tasks[t]
    OBVIOUS
<1>1. k # Idle /\ UNCHANGED tables /\ updates' = updates
      /\ k.pc \in {"menu", "lines", "figures"} /\ (Post(k) \/ UNCHANGED chats)
    BY DEF PostFails, Idle
<1>2. ChatsMove(k) /\ k \in TaskRecords /\ TaskCurrent(k) /\ TaskBounded(k)
    BY <1>1, Posts, NothingPosted, TaskTypes DEF IndInv
<1>3. /\ UNCHANGED <<category, active, documents, past>> /\ Created' = Created
    BY <1>1 DEF tables, Created
<1>4. CASE GivesUp(k)
    <2>1. Finish(t)
        BY <1>4 DEF PostFails
    <2> QED BY <1>1, <1>2, <2>1, TaskEnds
<1>5. CASE ~ GivesUp(k)
    <2> PICK n : n = Again(k)
        OBVIOUS
    <2>1. Set(t, n)
        BY <1>5 DEF PostFails
    <2>2. /\ n \in TaskRecords /\ n.upd = k.upd /\ n.pc \in MessagePCs /\ n.tries = k.tries + 1
          /\ n.active = k.active /\ n.retired = k.retired /\ n.had = k.had /\ n.since = k.since
        <3>1. PICK pc \in MessagePCs : n = From(k, k.tries + 1, pc)
            BY <1>1 DEF Again, From, MessagePCs
        <3>2. k.tries + 1 \in Nat /\ pc \in PCs
            BY <1>2 DEF TaskRecords, PCs, QueryPCs
        <3> QED BY <1>2, <3>1, <3>2, AgainTyped
    <2>3. TaskCurrent(n)'
        BY <1>2, <1>3, <2>2 DEF TaskCurrent, FiguresCurrent, MessagePCs
    <2>4. TaskBounded(n)'
        <3>1. ASSUME NEW doc \in DOMAIN documents
              PROVE  Cardinality(Repeats(n.upd, doc))' <= n.tries
            <4>1. CASE Post(k)
                <5>1. Cardinality(Repeats(k.upd, doc))' <= k.tries + 1
                    BY <1>1, <4>1, LineCounts
                <5>2. Repeats(n.upd, doc)' = Repeats(k.upd, doc)'
                    BY <2>2 DEF Repeats
                <5> QED BY <2>2, <5>1, <5>2
            <4>2. CASE UNCHANGED chats
                <5>1. Repeats(n.upd, doc)' = Repeats(k.upd, doc)
                    BY <2>2, <4>2 DEF Repeats, chats
                <5>2. Cardinality(Repeats(k.upd, doc)) <= k.tries + 1
                    BY <1>2, RepeatsFinite DEF TaskBounded, IndInv, TaskRecords
                <5> QED BY <2>2, <5>1, <5>2
            <4> QED BY <1>1, <4>1, <4>2
        <3>2. n.tries < MaxRetries /\ n.pc # "lines"
            BY <1>2, <1>5, <2>2, CatalogAssumption, SMTT(30) DEF GivesUp, TaskRecords, MessagePCs
        <3> QED BY <1>3, <3>1, <3>2 DEF TaskBounded
    <2> QED BY <1>1, <1>2, <2>1, <2>2, <2>3, <2>4, TaskMoves
<1> QED BY <1>4, <1>5

LEMMA EndedStep ==
    ASSUME IndInv, NEW t \in Tasks, Ended(t)
    PROVE  IndInv'
<1>1. tasks[t] # Idle
    BY DEF Ended, Idle
<1>2. ChatsMove(tasks[t])
    BY <1>1, Posts, NothingPosted DEF Ended
<1> QED BY <1>1, <1>2, TaskEnds DEF Ended

-----------------------------------------------------------------------------
(* Theorems *)

LEMMA Starts == Init => IndInv
<1> SUFFICES ASSUME Init PROVE IndInv
    OBVIOUS
<1>1. Created \subseteq Templates /\ documents \in Seq(Documents) /\ now \in Nat
    <2>1. documents # <<>> => Len(documents) \in DOMAIN documents /\ documents[Len(documents)] \in Documents
        BY CatalogAssumption DEF Init
    <2> QED BY <2>1, CatalogAssumption DEF Init, Created, Documents
<1>2. past \in Seq([templates : Nat, documents : Nat, users : Nat]) /\ PastOK
    <2>1. Cardinality(active) \in Nat /\ Cardinality(registered) \in Nat
        BY <1>1, CatalogAssumption, FS_Subset, FS_CardinalityType DEF Init
    <2>2. Counts \in [templates : Nat, documents : Nat, users : Nat]
        BY <1>1, <2>1 DEF Counts
    <2> QED BY <2>2 DEF Init, PastOK
<1>3. TypeOK
    BY <1>1, <1>2, CatalogAssumption DEF Init, TypeOK
<1> QED BY <1>2, <1>3 DEF Init, IndInv, OffersOK, RequestsDiffer, MenusAreCurrent,
                    ListsAreCurrent, LinesBounded, FiguresWereTrue

LEMMA Steps == IndInv /\ [Next]_vars => IndInv'
<1> SUFFICES ASSUME IndInv, [Next]_vars PROVE IndInv'
    OBVIOUS
<1>1. ASSUME NEW t \in Tasks, OnMessage(t) PROVE IndInv'
    <2>1. PICK user \in Users, pc \in MessagePCs : Set(t, Request(pc, user, NoCategory))
        BY <1>1 DEF OnMessage
    <2>2. pc \in MessagePCs \cup {"templates"} /\ pc # "templates"
        BY DEF MessagePCs
    <2> QED BY <1>1, <2>1, <2>2, NewRequest, CatalogAssumption DEF OnMessage
<1>2. ASSUME NEW t \in Tasks, OnCategory(t) PROVE IndInv'
    <2>1. PICK m \in menus : \E cat \in m.choices : Set(t, Request("templates", m.user, cat))
        BY <1>2 DEF OnCategory
    <2>2. PICK cat \in m.choices : Set(t, Request("templates", m.user, cat))
        BY <2>1
    <2>3. m.user \in Users /\ cat \in Categories /\ cat # NoCategory
        BY <2>2 DEF IndInv, TypeOK, OffersOK
    <2> QED BY <1>2, <2>2, <2>3, NewRequest DEF OnCategory
<1>3. ASSUME NEW t \in Tasks, Step(t) PROVE IndInv'
    BY <1>3, QuerySteps, QueryFailsStep, PostedStep, PostFailsStep, EndedStep DEF Step
<1>4. CASE CreateTemplate \/ Retire \/ SaveDocument \/ Register \/ Tick
    BY <1>4, ChangeSteps
<1>5. CASE UNCHANGED vars
    <2>1. /\ TypeOK' /\ Created' = Created /\ UNCHANGED <<chats, tasks, updates>>
          /\ documents' = documents /\ active' = active /\ category' = category
        BY <1>5 DEF vars, tables, chats, IndInv, TypeOK, Created
    <2>2. past' = past /\ registered' = registered /\ PastOK /\ TypeOK
        BY <1>5 DEF vars, tables, IndInv
    <2>3. PastGrows
        BY <2>2 DEF PastGrows, TypeOK
    <2>4. PastOK'
        BY <2>1, <2>2 DEF PastOK, Counts
    <2>5. Len(documents) \in Nat
        BY <2>2 DEF TypeOK
    <2> QED BY <2>1, <2>2, <2>3, <2>4, <2>5, TablesMove
<1> QED BY <1>1, <1>2, <1>3, <1>4, <1>5 DEF Next

\* What requests have read stays within what the tables were and are.
THEOREM Standing == Spec => []IndInv
<1> QED BY Starts, Steps, PTL DEF Spec

\* The variables have their types.
THEOREM TypeCorrect == Spec => []TypeOK
<1>1. IndInv => TypeOK
    BY DEF IndInv
<1> QED BY Standing, <1>1, PTL

\* No list of categories hides a template that was active all the time, or
\* leads to one that was retired before the request.
THEOREM CurrentMenus == Spec => []MenusAreCurrent
<1>1. IndInv => MenusAreCurrent
    BY DEF IndInv
<1> QED BY Standing, <1>1, PTL

\* The same of lists of templates, which are of the category pressed.
THEOREM CurrentLists == Spec => []ListsAreCurrent
<1>1. IndInv => ListsAreCurrent
    BY DEF IndInv
<1> QED BY Standing, <1>1, PTL

\* "My documents" are the user's own, and sent at most MaxRetries times.
THEOREM BoundedLines == Spec => []LinesBounded
<1>1. IndInv => LinesBounded
    BY DEF IndInv
<1> QED BY Standing, <1>1, PTL

\* The three figures of the statistics were each the count of a moment between
\* request and answer, one after the other.
THEOREM TrueFigures == Spec => []FiguresWereTrue
<1>1. IndInv => FiguresWereTrue
    BY DEF IndInv
<1> QED BY Standing, <1>1, PTL

-----------------------------------------------------------------------------
(* Listings.  Lines and documents only ever come at the end, so that what was
   answered stays whole. *)

AnswerOK(r) ==
    /\ r.until \in 0 .. Len(lines) /\ r.had \in 0 .. Len(documents)
    /\ \E from \in 1 .. r.until + 1 :
          LET these == LinesOf(r.upd, from, r.until)
          IN  /\ Cardinality(these) <= ListMax /\ LatestFirst(these)
              /\ NoneMissing(Shown(these), Cardinality(these), r.user, r.had)

OnlyGrows ==
    /\ lines' \in Seq(Lines) /\ Len(lines) <= Len(lines')
    /\ \A i \in 1 .. Len(lines) : lines'[i] = lines[i]
    /\ documents' \in Seq(Documents) /\ Len(documents) <= Len(documents')
    /\ \A d \in 1 .. Len(documents) : documents'[d] = documents[d]

LEMMA Answers ==
    WholeInv <=> /\ IndInv
                 /\ \A t \in Tasks : tasks[t] # Idle => TaskWhole(tasks[t])
                 /\ \A r \in answered : AnswerOK(r)
BY DEF WholeInv, AnswerOK, ListingsAreWhole

LEMMA TablesGrow ==
    ASSUME IndInv, IndInv', NEW user, documents' = documents \/ documents' = Append(documents, [user |-> user, created_at |-> now]),
           lines' = lines \/ \E line \in Lines : lines' = Append(lines, line)
    PROVE  OnlyGrows
<1>1. /\ lines \in Seq(Lines) /\ lines' \in Seq(Lines)
      /\ documents \in Seq(Documents) /\ documents' \in Seq(Documents)
    BY DEF IndInv, TypeOK, Lines
<1>2. Len(lines) <= Len(lines') /\ \A i \in 1 .. Len(lines) : lines'[i] = lines[i]
    BY <1>1
<1>3. Len(documents) <= Len(documents') /\ \A d \in 1 .. Len(documents) : documents'[d] = documents[d]
    <2>1. CASE documents' = documents
        BY <1>1, <2>1
    <2>2. CASE documents' = Append(documents, [user |-> user, created_at |-> now])
        BY <1>1, <2>2
    <2> QED BY <2>1, <2>2
<1> QED BY <1>1, <1>2, <1>3 DEF OnlyGrows

LEMMA LinesAreShown ==
    ASSUME IndInv, NEW upd, NEW from \in Nat \ {0}, NEW until \in 0 .. Len(lines)
    PROVE  /\ LinesOf(upd, from, until) \subseteq 1 .. Len(lines)
           /\ Shown(LinesOf(upd, from, until)) \subseteq 1 .. Len(documents)
           /\ \A i \in LinesOf(upd, from, until) : lines[i].doc \in 1 .. Len(documents)
<1>1. /\ Len(lines) \in Nat /\ DOMAIN lines = 1 .. Len(lines)
      /\ DOMAIN documents = 1 .. Len(documents)
    BY DEF IndInv, TypeOK
<1>2. LinesOf(upd, from, until) \subseteq 1 .. Len(lines)
    BY <1>1 DEF LinesOf
<1>3. \A i \in 1 .. Len(lines) : lines[i].doc \in 1 .. Len(documents)
    BY <1>1 DEF IndInv, LinesBounded, Own
<1> QED BY <1>2, <1>3 DEF Shown

LEMMA LinesOfStay ==
    ASSUME IndInv, OnlyGrows, NEW upd, NEW from \in Nat \ {0}, NEW until \in 0 .. Len(lines),
           NEW these, these = LinesOf(upd, from, until)
    PROVE  /\ LinesOf(upd, from, until)' = these
           /\ Shown(these)' = Shown(these)
           /\ LatestFirst(these) => LatestFirst(these)'
<1>0. Len(lines) \in Nat
    BY DEF IndInv, TypeOK
<1>1. /\ Len(lines) \in Nat /\ these \subseteq 1 .. Len(lines)
      /\ \A i \in these : lines[i].doc \in 1 .. Len(documents)
    BY <1>0, LinesAreShown
<1>2. \A i \in from .. until : i \in 1 .. Len(lines)
    BY <1>1
<1>3. LinesOf(upd, from, until)' = these
    BY <1>2 DEF OnlyGrows, LinesOf
<1>4. \A i \in these : lines'[i] = lines[i]
    BY <1>1 DEF OnlyGrows
<1>5. \A i \in these : documents'[lines[i].doc] = documents[lines[i].doc]
    BY <1>1 DEF OnlyGrows
<1>6. Shown(these)' = Shown(these)
    BY <1>4 DEF Shown
<1>7. ASSUME LatestFirst(these) PROVE LatestFirst(these)'
    BY <1>4, <1>5, <1>7 DEF LatestFirst, NotOlder
<1> QED BY <1>3, <1>6, <1>7

LEMMA NoneMissingStays ==
    ASSUME IndInv, OnlyGrows, NEW docs, docs \subseteq 1 .. Len(documents), NEW n, NEW user,
           NEW had \in 0 .. Len(documents), NoneMissing(docs, n, user, had)
    PROVE  NoneMissing(docs, n, user, had)'
<1>1. /\ Len(documents) \in Nat /\ DOMAIN documents = 1 .. Len(documents)
      /\ Len(documents') \in Nat /\ DOMAIN documents' = 1 .. Len(documents')
    BY DEF IndInv, TypeOK, OnlyGrows
<1>2. ASSUME NEW d \in Own(user)' \ docs, d <= had
      PROVE  n = ListMax /\ \A e \in docs : NotOlder(e, d)'
    <2>1. d \in 1 .. Len(documents) /\ documents'[d] = documents[d]
        BY <1>1, <1>2 DEF Own, OnlyGrows
    <2>2. d \in Own(user) \ docs
        BY <1>1, <1>2, <2>1 DEF Own
    <2>3. n = ListMax /\ \A e \in docs : NotOlder(e, d)
        BY <1>2, <2>2 DEF NoneMissing
    <2>4. \A e \in docs : documents'[e] = documents[e]
        BY DEF OnlyGrows
    <2> QED BY <2>1, <2>3, <2>4 DEF NotOlder
<1> QED BY <1>2 DEF NoneMissing

LEMMA AnswerStays ==
    ASSUME IndInv, OnlyGrows, NEW r, AnswerOK(r)
    PROVE  AnswerOK(r)'
<1>1. Len(lines) \in Nat /\ Len(lines') \in Nat /\ Len(documents) \in Nat /\ Len(documents') \in Nat
    BY DEF IndInv, TypeOK, OnlyGrows
<1>2. r.until \in 0 .. Len(lines) /\ r.had \in 0 .. Len(documents)
    BY DEF AnswerOK
<1>3. PICK from \in 1 .. r.until + 1 :
          LET these == LinesOf(r.upd, from, r.until)
          IN  /\ Cardinality(these) <= ListMax /\ LatestFirst(these)
              /\ NoneMissing(Shown(these), Cardinality(these), r.user, r.had)
    BY DEF AnswerOK
<1> PICK these : these = LinesOf(r.upd, from, r.until)
    OBVIOUS
<1> PICK docs, n : docs = Shown(these) /\ n = Cardinality(these)
    OBVIOUS
<1>4. from \in Nat \ {0}
    BY <1>1, <1>2
<1>5. LinesOf(r.upd, from, r.until)' = these /\ Shown(these)' = docs /\ LatestFirst(these)'
    BY <1>2, <1>3, <1>4, LinesOfStay
<1>6. docs \subseteq 1 .. Len(documents)
    BY <1>2, <1>4, LinesAreShown
<1>7. NoneMissing(docs, n, r.user, r.had)'
    BY <1>2, <1>3, <1>6, NoneMissingStays
<1>8. r.until \in 0 .. Len(lines') /\ r.had \in 0 .. Len(documents')
    BY <1>1, <1>2 DEF OnlyGrows
<1> QED BY <1>3, <1>5, <1>7, <1>8 DEF AnswerOK

\* What one task sends does not get into the listing of another.
LEMMA TaskStays ==
    ASSUME IndInv, OnlyGrows, NEW k \in TaskRecords, TaskWhole(k), TaskBounded(k), TaskCurrent(k),
           \A i \in Len(lines) + 1 .. Len(lines') : lines'[i].upd # k.upd
    PROVE  TaskWhole(k)'
<1>1. /\ Len(lines) \in Nat /\ Len(lines') \in Nat /\ Len(lines) <= Len(lines')
      /\ Len(documents) \in Nat /\ DOMAIN documents = 1 .. Len(documents)
    BY DEF IndInv, TypeOK, OnlyGrows
<1> SUFFICES ASSUME k.pc = "lines" PROVE TaskWhole(k)'
    BY DEF TaskWhole
<1>2. /\ k.had \in 0 .. Len(documents) /\ k.listing \in Seq(Nat \ {0}) /\ k.sent \in Nat
    BY <1>1 DEF TaskRecords, TaskCurrent
<1>3. \A i \in DOMAIN k.listing : k.listing[i] \in 1 .. Len(documents)
    BY <1>1 DEF TaskBounded, Own
<1>4. \A i \in DOMAIN k.listing : \A j \in 1 .. i - 1 : NotOlder(k.listing[j], k.listing[i])'
    <2>1. ASSUME NEW i \in DOMAIN k.listing, NEW j \in 1 .. i - 1
          PROVE  NotOlder(k.listing[j], k.listing[i])'
        <3>1. j \in DOMAIN k.listing
            BY <1>2
        <3>2. NotOlder(k.listing[j], k.listing[i])
            BY DEF TaskWhole
        <3>3. /\ documents'[k.listing[j]] = documents[k.listing[j]]
              /\ documents'[k.listing[i]] = documents[k.listing[i]]
            BY <1>3, <3>1 DEF OnlyGrows
        <3> QED BY <3>2, <3>3 DEF NotOlder
    <2> QED BY <2>1
<1>5. NoneMissing({k.listing[i] : i \in DOMAIN k.listing}, Len(k.listing), k.user, k.had)'
    <2> PICK docs, n : docs = {k.listing[i] : i \in DOMAIN k.listing} /\ n = Len(k.listing)
        OBVIOUS
    <2>1. docs \subseteq 1 .. Len(documents) /\ NoneMissing(docs, n, k.user, k.had)
        BY <1>3 DEF TaskWhole
    <2>2. NoneMissing(docs, n, k.user, k.had)'
        BY <1>2, <2>1, NoneMissingStays
    <2> QED BY <2>2
<1>6. PICK from \in 1 .. Len(lines) + 1 :
          LET these == LinesOf(k.upd, from, Len(lines))
          IN  /\ Cardinality(these) = k.sent /\ LatestFirst(these)
              /\ Shown(these) = {k.listing[i] : i \in 1 .. k.sent}
    BY DEF TaskWhole
<1> PICK these : these = LinesOf(k.upd, from, Len(lines))
    OBVIOUS
<1> PICK until : until = Len(lines)
    OBVIOUS
<1>7. from \in Nat \ {0} /\ from \in 1 .. Len(lines') + 1 /\ until \in 0 .. Len(lines)
    BY <1>1
<1>8. LinesOf(k.upd, from, until)' = these /\ Shown(these)' = Shown(these) /\ LatestFirst(these)'
    BY <1>6, <1>7, LinesOfStay
<1>9. LinesOf(k.upd, from, Len(lines))' = these
    <2>1. \A i \in from .. Len(lines') : i \in from .. Len(lines) \/ i \in Len(lines) + 1 .. Len(lines')
        BY <1>1
    <2>2. \A i \in from .. Len(lines) : i \in from .. Len(lines')
        BY <1>1
    <2> QED BY <1>8, <2>1, <2>2 DEF LinesOf
<1> QED BY <1>2, <1>4, <1>5, <1>6, <1>7, <1>8, <1>9 DEF TaskWhole

LEMMA UpTo == ASSUME NEW n \in Nat PROVE IsFiniteSet(1 .. n) /\ Cardinality(1 .. n) = n
<1>1. Cardinality(1 .. n) = IF 1 > n THEN 0 ELSE n - 1 + 1
    BY FS_Interval
<1> QED BY <1>1, FS_Interval

\* No document of docs that is missing is newer than one of these, which are at
\* most m, and m if any is missing.
Heads(these, m, docs) ==
    /\ these \in Seq(Nat \ {0}) /\ Len(these) <= m
    /\ \A i \in DOMAIN these : \A j \in 1 .. i - 1 : NotOlder(these[j], these[i])
    /\ \A d \in docs \ {these[i] : i \in DOMAIN these} :
          Len(these) = m /\ \A i \in DOMAIN these : NotOlder(these[i], d)

\* The first m of the n latest documents: of the others none is newer, and there
\* are others only if there are m of them.
LEMMA LatestAreWhole ==
    ASSUME NEW docs, docs \subseteq Nat \ {0}, IsFiniteSet(docs), NEW n \in Nat, NEW m \in Nat,
           m <= n, NEW all \in Latest(n, docs), NEW some, some = First(m, all)
    PROVE  Heads(some, m, docs)
<1> PICK c : c = Cardinality(docs)
    OBVIOUS
<1> PICK l : l = IF c < n THEN c ELSE n
    OBVIOUS
<1>1. c \in Nat /\ l \in Nat /\ l <= n /\ (l < n => l = c)
    BY FS_CardinalityType
<1>2. /\ all \in [1 .. l -> docs]
      /\ \A i \in 1 .. l : \A j \in 1 .. i - 1 : all[j] # all[i] /\ NotOlder(all[j], all[i])
      /\ \A d \in docs : (\A i \in 1 .. l : d # all[i]) => \A i \in 1 .. l : NotOlder(all[i], d)
    BY DEF Latest
<1>3. all \in Seq(Nat \ {0}) /\ Len(all) = l /\ DOMAIN all = 1 .. l
    <2>1. all \in [1 .. l -> Nat \ {0}]
        BY <1>2
    <2>2. all \in Seq(Nat \ {0})
        BY <1>1, <2>1
    <2> QED BY <1>1, <2>1, <2>2
<1>4. ASSUME l < n, NEW d \in docs PROVE \E i \in 1 .. l : d = all[i]
    <2>1. all \in Injection(1 .. l, docs)
        <3>1. ASSUME NEW i \in 1 .. l, NEW j \in 1 .. l, all[i] = all[j] PROVE i = j
            <4>1. CASE i < j
                <5>1. i \in 1 .. j - 1  BY <1>1, <4>1
                <5> QED BY <1>2, <3>1, <5>1
            <4>2. CASE j < i
                <5>1. j \in 1 .. i - 1  BY <1>1, <4>2
                <5> QED BY <1>2, <3>1, <5>1
            <4> QED BY <1>1, <4>1, <4>2
        <3> QED BY <1>2, <3>1, Fun_IsInj
    <2>2. Cardinality(1 .. l) = l
        BY <1>1, UpTo
    <2>3. all \in Surjection(1 .. l, docs)
        BY <1>1, <1>4, <2>1, <2>2, FS_Injection
    <2> QED BY <2>3 DEF Surjection
<1>5. CASE l <= m
    <2>1. some = all
        BY <1>3, <1>5 DEF First
    <2>2. ASSUME NEW d \in docs, \A i \in 1 .. l : d # all[i]
          PROVE  l = m /\ \A i \in 1 .. l : NotOlder(all[i], d)
        <3>1. ~ (l < n)
            BY <1>4, <2>2
        <3> QED BY <1>1, <1>2, <1>5, <2>2, <3>1
    <2> QED BY <1>2, <1>3, <1>5, <2>1, <2>2 DEF Heads
<1>6. CASE ~ (l <= m)
    <2>1. some = SubSeq(all, 1, m)
        BY <1>3, <1>6 DEF First
    <2>2. /\ some \in Seq(Nat \ {0}) /\ Len(some) = m /\ DOMAIN some = 1 .. m
          /\ \A i \in 1 .. m : some[i] = all[i] /\ i \in 1 .. l
        <3>1. m \in 1 .. Len(all) \/ m = 0
            BY <1>1, <1>3, <1>6
        <3>2. SubSeq(all, 1, m) \in Seq(Nat \ {0}) /\ Len(SubSeq(all, 1, m)) = m
            BY <1>1, <1>3, <3>1
        <3>3. \A i \in 1 .. m : SubSeq(all, 1, m)[i] = all[i]
            BY <1>1, <1>3, <3>1
        <3>4. \A i \in 1 .. m : i \in 1 .. l
            BY <1>1, <1>6
        <3> QED BY <2>1, <3>2, <3>3, <3>4
    <2>3. ASSUME NEW i \in 1 .. m, NEW j \in 1 .. i - 1 PROVE NotOlder(some[j], some[i])
        <3>1. i \in 1 .. l /\ some[i] = all[i]
            BY <2>2
        <3>2. j \in 1 .. m
            OBVIOUS
        <3>3. some[j] = all[j]
            BY <2>2, <3>2
        <3>4. NotOlder(all[j], all[i])
            BY <1>2, <3>1
        <3> QED BY <3>1, <3>3, <3>4
    <2>4. ASSUME NEW d \in docs \ {some[i] : i \in 1 .. m}, NEW i \in 1 .. m
          PROVE  NotOlder(some[i], d)
        <3>1. CASE \E j \in 1 .. l : d = all[j]
            <4> PICK j \in 1 .. l : d = all[j]
                BY <3>1
            <4>1. ~ (j \in 1 .. m)
                BY <2>2
            <4>2. i \in 1 .. j - 1
                BY <1>1, <4>1
            <4> QED BY <1>2, <2>2, <4>2
        <3>2. CASE \A j \in 1 .. l : d # all[j]
            BY <1>2, <2>2, <3>2
        <3> QED BY <3>1, <3>2
    <2> QED BY <2>2, <2>3, <2>4, SMTT(30) DEF Heads
<1> QED BY <1>5, <1>6

LEMMA OwnAreFinite ==
    ASSUME IndInv, NEW user
    PROVE  IsFiniteSet(Own(user)) /\ Own(user) \subseteq Nat \ {0}
<1>1. Len(documents) \in Nat /\ DOMAIN documents = 1 .. Len(documents)
    BY DEF IndInv, TypeOK
<1>2. IsFiniteSet(1 .. Len(documents)) /\ Own(user) \subseteq 1 .. Len(documents)
    BY <1>1, FS_Interval DEF Own
<1> QED BY <1>2, FS_Subset

\* The last lines of the request of k are the first n of its listing.
Sent(k, n) ==
    \E from \in 1 .. Len(lines) + 1 :
        LET these == LinesOf(k.upd, from, Len(lines))
        IN  /\ Cardinality(these) = n /\ LatestFirst(these)
            /\ Shown(these) = {k.listing[i] : i \in 1 .. n}

\* Nothing of this is about more than the lines and the documents.
LEMMA SameLines ==
    ASSUME lines' = lines, documents' = documents, NEW k
    PROVE  /\ TaskWhole(k) => TaskWhole(k)'
           /\ \A n : Sent(k, n) => Sent(k, n)'
<1>1. \A upd, from, until : LinesOf(upd, from, until)' = LinesOf(upd, from, until)
    BY DEF LinesOf
<1>2. \A these : Shown(these)' = Shown(these) /\ (LatestFirst(these) => LatestFirst(these)')
    BY DEF Shown, LatestFirst, NotOlder
<1>3. \A docs, n, user, had : NoneMissing(docs, n, user, had) => NoneMissing(docs, n, user, had)'
    BY DEF NoneMissing, Own, NotOlder
<1>4. \A d, e : NotOlder(d, e) => NotOlder(d, e)'
    BY DEF NotOlder
<1>5. ASSUME NEW n, NEW upd, NEW from, NEW until, NEW docs,
             LET these == LinesOf(upd, from, until)
             IN  Cardinality(these) = n /\ LatestFirst(these) /\ Shown(these) = docs
      PROVE  (LET these == LinesOf(upd, from, until)
              IN  Cardinality(these) = n /\ LatestFirst(these) /\ Shown(these) = docs)'
    <2> PICK these : these = LinesOf(upd, from, until)
        OBVIOUS
    <2>1. LinesOf(upd, from, until)' = these /\ Shown(these)' = docs /\ LatestFirst(these)'
        BY <1>1, <1>2, <1>5
    <2> QED BY <1>5, <2>1
<1>6. \A n : Sent(k, n) => Sent(k, n)'
    BY <1>5 DEF Sent
<1>7. TaskWhole(k) => TaskWhole(k)'
    BY <1>3, <1>4, <1>5 DEF TaskWhole
<1> QED BY <1>6, <1>7

\* A listing that was just found is whole, and nothing of it has been sent.
LEMMA FoundIsWhole ==
    ASSUME IndInv, NEW k \in TaskRecords, k.pc = "lines", k.sent = 0,
           NEW docs \in get_user_documents(k.user), k.listing = First(ListMax, docs),
           UNCHANGED <<tables, chats>>
    PROVE  TaskWhole(k)'
<1>1. /\ lines' = lines /\ documents' = documents /\ Len(lines) \in Nat
      /\ ListMax \in Nat /\ QueryMax \in Nat /\ ListMax <= QueryMax
    BY CatalogAssumption DEF tables, chats, IndInv, TypeOK
<1>2. /\ k.listing \in Seq(Nat \ {0}) /\ Len(k.listing) <= ListMax
      /\ \A i \in DOMAIN k.listing : \A j \in 1 .. i - 1 : NotOlder(k.listing[j], k.listing[i])
      /\ \A d \in Own(k.user) \ {k.listing[i] : i \in DOMAIN k.listing} :
            Len(k.listing) = ListMax /\ \A i \in DOMAIN k.listing : NotOlder(k.listing[i], d)
    <2> PICK own, l : own = Own(k.user) /\ l = k.listing
        OBVIOUS
    <2>1. own \subseteq Nat \ {0} /\ IsFiniteSet(own)
        BY OwnAreFinite
    <2>2. docs \in Latest(QueryMax, own) /\ l = First(ListMax, docs)
        BY DEF get_user_documents
    <2>3. Heads(l, ListMax, own)
        BY <1>1, <2>1, <2>2, LatestAreWhole
    <2> QED BY <2>3 DEF Heads
<1>3. NoneMissing({k.listing[i] : i \in DOMAIN k.listing}, Len(k.listing), k.user, k.had)
    BY <1>2 DEF NoneMissing
<1>4. LinesOf(k.upd, Len(lines) + 1, Len(lines)) = {}
    BY <1>1 DEF LinesOf
<1>5. /\ Cardinality({}) = k.sent /\ LatestFirst({})
      /\ Shown({}) = {k.listing[i] : i \in 1 .. k.sent}
    BY FS_EmptySet DEF LatestFirst, Shown
<1>6. \E from \in 1 .. Len(lines) + 1 :
         LET these == LinesOf(k.upd, from, Len(lines))
         IN  /\ Cardinality(these) = k.sent /\ LatestFirst(these)
             /\ Shown(these) = {k.listing[i] : i \in 1 .. k.sent}
    <2>1. Len(lines) + 1 \in 1 .. Len(lines) + 1
        BY <1>1
    <2> QED BY <1>4, <1>5, <2>1
<1>7. TaskWhole(k)
    <2>1. k.sent <= Len(k.listing)
        BY <1>2
    <2> QED BY <1>2, <1>3, <1>6, <2>1 DEF TaskWhole
<1> QED BY <1>1, <1>7, SameLines

\* A line that is sent is the next of them.
LEMMA NextIsSent ==
    ASSUME IndInv, NEW k \in TaskRecords, TaskWhole(k), TaskBounded(k), k.pc = "lines",
           k.listing # <<>>, documents' = documents,
           NEW n, n.upd = k.upd, n.listing = k.listing,
           lines' = Append(lines, [upd |-> k.upd, user |-> k.user, doc |-> k.listing[k.sent + 1]])
    PROVE  Sent(n, k.sent + 1)'
<1> PICK L, line : /\ L = Len(lines) + 1
                   /\ line = [upd |-> k.upd, user |-> k.user, doc |-> k.listing[k.sent + 1]]
    OBVIOUS
<1>0. /\ Len(lines) \in Nat /\ k.sent \in Nat /\ k.listing \in Seq(Nat \ {0})
      /\ k.sent < Len(k.listing)
    BY DEF IndInv, TypeOK, TaskRecords, TaskBounded
<1>1. /\ Len(lines) \in Nat /\ L \in Nat \ {0} /\ k.sent \in Nat /\ k.listing \in Seq(Nat \ {0})
      /\ k.sent < Len(k.listing) /\ DOMAIN k.listing = 1 .. Len(k.listing)
      /\ k.sent + 1 \in DOMAIN k.listing
    BY <1>0
<1>2. /\ Len(lines') = L /\ lines'[L] = line
      /\ \A i \in 1 .. Len(lines) : lines'[i] = lines[i]
    BY DEF IndInv, TypeOK
<1>3. PICK from \in 1 .. L :
          LET these == LinesOf(k.upd, from, Len(lines))
          IN  /\ Cardinality(these) = k.sent /\ LatestFirst(these)
              /\ Shown(these) = {k.listing[i] : i \in 1 .. k.sent}
    BY DEF TaskWhole
<1> PICK these : these = LinesOf(k.upd, from, Len(lines))
    OBVIOUS
<1>4. these \subseteq 1 .. Len(lines) /\ IsFiniteSet(these) /\ L \notin these
    <2>1. these \subseteq 1 .. Len(lines)
        BY <1>1 DEF LinesOf
    <2>2. IsFiniteSet(1 .. Len(lines))
        BY <1>1, FS_Interval
    <2> QED BY <1>1, <2>1, <2>2, FS_Subset
<1>5. LinesOf(n.upd, from, Len(lines))' = these \cup {L}
    <2>0. \A l \in Nat : \A f \in 1 .. l + 1 : f .. l + 1 = (f .. l) \cup {l + 1}
        OBVIOUS
    <2>1. from .. L = (from .. Len(lines)) \cup {L}
        BY <1>1, <2>0
    <2>2. \A i \in from .. Len(lines) : i \in 1 .. Len(lines)
        BY <1>1
    <2>3. line.upd = k.upd
        OBVIOUS
    <2>4. from .. Len(lines') = (from .. Len(lines)) \cup {L} /\ lines'[L].upd = n.upd
        BY <1>2, <2>1, <2>3
    <2>5. \A i \in from .. Len(lines) : lines'[i] = lines[i]
        BY <1>2, <2>2
    <2>6. {i \in from .. Len(lines') : lines'[i].upd = n.upd} = these \cup {L}
        BY <2>4, <2>5 DEF LinesOf
    <2> QED BY <2>6, Zenon DEF LinesOf
<1>6. Cardinality(these \cup {L}) = k.sent + 1
    <2>1. Cardinality(these \cup {L}) = Cardinality(these) + 1
        BY <1>4, FS_AddElement
    <2> QED BY <1>3, <2>1
<1>7. Shown(these \cup {L})' = {n.listing[i] : i \in 1 .. k.sent + 1}
    <2>1. Shown(these \cup {L})' = Shown(these) \cup {k.listing[k.sent + 1]}
        BY <1>2, <1>4 DEF Shown
    <2>2. \A i : i \in 1 .. k.sent + 1 <=> i \in 1 .. k.sent \/ i = k.sent + 1
        BY <1>1
    <2> QED BY <1>3, <2>1, <2>2
<1>8. LatestFirst(these \cup {L})'
    <2>0. LatestFirst(these) /\ Shown(these) = {k.listing[m] : m \in 1 .. k.sent}
        BY <1>3
    <2>1. ASSUME NEW i \in these \cup {L}, NEW j \in these \cup {L}, i < j
          PROVE  (lines[i].doc # lines[j].doc /\ NotOlder(lines[i].doc, lines[j].doc))'
        <3> PICK d, e : d = lines'[i].doc /\ e = lines'[j].doc
            OBVIOUS
        <3>1. i \in these /\ lines[i].doc = d
            BY <1>1, <1>2, <1>4, <2>1
        <3>2. CASE j \in these
            <4>1. lines[j].doc = e
                BY <1>2, <1>4, <3>2
            <4>2. d # e /\ NotOlder(d, e)
                BY <2>0, <2>1, <3>1, <3>2, <4>1 DEF LatestFirst
            <4> QED BY <4>2 DEF NotOlder
        <3>3. CASE j = L
            <4>1. PICK m \in 1 .. k.sent : d = k.listing[m]
                BY <2>0, <3>1 DEF Shown
            <4>2. m \in 1 .. (k.sent + 1) - 1
                BY <1>1
            <4>3. k.listing[m] # k.listing[k.sent + 1] /\ NotOlder(k.listing[m], k.listing[k.sent + 1])
                BY <1>1, <4>2 DEF TaskBounded, TaskWhole
            <4>4. e = k.listing[k.sent + 1]
                BY <1>2, <3>3
            <4> QED BY <4>1, <4>3, <4>4 DEF NotOlder
        <3> QED BY <2>1, <3>2, <3>3
    <2> QED BY <2>1 DEF LatestFirst
<1>9. from \in 1 .. Len(lines') + 1
    BY <1>1, <1>2
<1> QED BY <1>5, <1>6, <1>7, <1>8, <1>9 DEF Sent

\* A listing that was sent to its last line answers the request.
LEMMA SentAnswers ==
    ASSUME IndInv, NEW k \in TaskRecords, TaskWhole(k), TaskCurrent(k), k.pc = "lines",
           documents' = documents, Len(lines') \in Nat, Sent(k, Len(k.listing))',
           NEW r, r = [upd |-> k.upd, user |-> k.user, had |-> k.had, until |-> Len(lines')]
    PROVE  AnswerOK(r)'
<1> PICK until : until = Len(lines')
    OBVIOUS
<1>1. /\ r.upd = k.upd /\ r.user = k.user /\ r.had = k.had /\ r.until = until
      /\ until \in 0 .. Len(lines') /\ k.had \in 0 .. Len(documents')
      /\ k.listing \in Seq(Nat \ {0}) /\ DOMAIN k.listing = 1 .. Len(k.listing)
    BY DEF TaskRecords, TaskCurrent, IndInv, TypeOK
<1>2. PICK from \in 1 .. until + 1 :
          (LET these == LinesOf(k.upd, from, Len(lines))
           IN  /\ Cardinality(these) = Len(k.listing) /\ LatestFirst(these)
               /\ Shown(these) = {k.listing[i] : i \in DOMAIN k.listing})'
    BY <1>1 DEF Sent
<1> PICK these : these = LinesOf(k.upd, from, Len(lines))'
    OBVIOUS
<1>3. /\ Cardinality(these) = Len(k.listing) /\ LatestFirst(these)'
      /\ Shown(these)' = {k.listing[i] : i \in DOMAIN k.listing}
    BY <1>2
<1>4. NoneMissing(Shown(these)', Cardinality(these), k.user, k.had)
    BY <1>3 DEF TaskWhole
<1>5. NoneMissing(Shown(these), Cardinality(these), k.user, k.had)'
    BY <1>4 DEF NoneMissing, Own, NotOlder
<1>6. LinesOf(k.upd, from, until)' = these /\ Cardinality(these) <= ListMax
    BY <1>3 DEF LinesOf, TaskWhole
<1> QED BY <1>1, <1>3, <1>5, <1>6 DEF AnswerOK

-----------------------------------------------------------------------------
(* Whole listings, step by step *)

\* Only the request of the task that moves gets lines.
LEMMA ChatsGrow ==
    ASSUME IndInv, IndInv', NEW k, ChatsMove(k), documents' = documents
    PROVE  OnlyGrows /\ \A i \in Len(lines) + 1 .. Len(lines') : lines'[i].upd = k.upd
<1>1. lines' = lines \/ \E line \in Lines : LineOK(k, line) /\ lines' = Append(lines, line)
    BY DEF ChatsMove
<1>2. OnlyGrows
    BY <1>1, TablesGrow
<1>3. lines \in Seq(Lines)
    BY DEF IndInv, TypeOK, Lines
<1>4. \A i \in Len(lines) + 1 .. Len(lines') : lines'[i].upd = k.upd
    <2>1. CASE lines' = lines
        BY <1>3, <2>1
    <2>2. ASSUME NEW line \in Lines, LineOK(k, line), lines' = Append(lines, line)
          PROVE  \A i \in Len(lines) + 1 .. Len(lines') : lines'[i].upd = k.upd
        <3>1. Len(lines') = Len(lines) + 1 /\ lines'[Len(lines) + 1] = line /\ Len(lines) \in Nat
            BY <1>3, <2>2
        <3>2. \A i \in Len(lines) + 1 .. Len(lines') : i = Len(lines) + 1
            BY <3>1
        <3> QED BY <2>2, <3>1, <3>2 DEF LineOK
    <2> QED BY <1>1, <2>1, <2>2
<1> QED BY <1>2, <1>4

\* What has to be shown of a step of the task t that turns it into k.
LEMMA WholeMoves ==
    ASSUME WholeInv, IndInv', OnlyGrows, NEW t \in Tasks, NEW k \in TaskRecords \cup {Idle},
           Set(t, k), k # Idle => TaskWhole(k)',
           \A i \in Len(lines) + 1 .. Len(lines') : tasks[t] # Idle /\ lines'[i].upd = tasks[t].upd,
           \A r \in answered' : r \in answered \/ AnswerOK(r)'
    PROVE  WholeInv'
<1>1. IndInv /\ tasks' = [tasks EXCEPT ![t] = k] /\ tasks \in [Tasks -> TaskRecords \cup {Idle}]
    BY DEF WholeInv, IndInv, TypeOK, Set
<1>2. ASSUME NEW s \in Tasks, tasks'[s] # Idle PROVE TaskWhole(tasks[s])'
    <2>1. CASE s = t
        <3>1. tasks'[s] = k /\ TaskWhole(k)'
            BY <1>1, <1>2, <2>1
        <3> QED BY <3>1 DEF TaskWhole
    <2>2. CASE s # t
        <3> PICK r : r = tasks[s]
            OBVIOUS
        <3>1. tasks'[s] = r /\ r # Idle
            BY <1>1, <1>2, <2>2
        <3>2. r \in TaskRecords /\ TaskWhole(r) /\ TaskBounded(r) /\ TaskCurrent(r)
            BY <1>1, <3>1, TaskTypes DEF WholeInv, IndInv
        <3>3. \A i \in Len(lines) + 1 .. Len(lines') : lines'[i].upd # r.upd
            BY <1>1, <2>2, <3>1 DEF IndInv, RequestsDiffer
        <3>4. TaskWhole(r)'
            BY <1>1, <3>2, <3>3, TaskStays
        <3> QED BY <3>1, <3>4 DEF TaskWhole
    <2> QED BY <2>1, <2>2
<1>3. ASSUME NEW r \in answered' PROVE AnswerOK(r)'
    <2>1. CASE r \in answered
        <3>1. AnswerOK(r)
            BY <2>1, Answers
        <3> QED BY <1>1, <3>1, AnswerStays
    <2> QED BY <1>3, <2>1
<1> QED BY <1>2, <1>3 DEF WholeInv, AnswerOK, ListingsAreWhole

LEMMA WholeChanges ==
    ASSUME WholeInv, IndInv', UNCHANGED <<chats, tasks, updates>>,
           \/ documents' = documents
           \/ \E user \in Users : documents' = Append(documents, [user |-> user, created_at |-> now])
    PROVE  WholeInv'
<1>1. IndInv /\ lines' = lines /\ answered' = answered /\ tasks' = tasks /\ lines \in Seq(Lines)
    BY DEF WholeInv, chats, IndInv, TypeOK, Lines
<1>2. OnlyGrows
    BY <1>1, TablesGrow
<1>3. \A i \in Len(lines) + 1 .. Len(lines') : FALSE
    BY <1>1
<1>4. ASSUME NEW s \in Tasks, tasks'[s] # Idle PROVE TaskWhole(tasks[s])'
    <2> PICK r : r = tasks[s]
        OBVIOUS
    <2>1. r \in TaskRecords /\ TaskWhole(r) /\ TaskBounded(r) /\ TaskCurrent(r)
        BY <1>1, <1>4, TaskTypes DEF WholeInv, IndInv
    <2>2. TaskWhole(r)'
        BY <1>1, <1>2, <1>3, <2>1, TaskStays
    <2> QED BY <1>1, <2>2 DEF TaskWhole
<1>5. ASSUME NEW r \in answered' PROVE AnswerOK(r)'
    BY <1>1, <1>2, <1>5, Answers, AnswerStays
<1> QED BY <1>4, <1>5 DEF WholeInv, AnswerOK, ListingsAreWhole

\* A step of a task that does not turn it into one that sends a listing.
LEMMA WholeElsewhere ==
    ASSUME WholeInv, IndInv', NEW t \in Tasks, NEW k \in TaskRecords \cup {Idle}, Set(t, k),
           k # Idle => k.pc # "lines", UNCHANGED tables, answered' = answered,
           tasks[t] # Idle, ChatsMove(tasks[t])
    PROVE  WholeInv'
<1>1. IndInv /\ documents' = documents
    BY DEF WholeInv, tables
<1>2. OnlyGrows /\ \A i \in Len(lines) + 1 .. Len(lines') : lines'[i].upd = tasks[t].upd
    BY <1>1, ChatsGrow
<1>3. k # Idle => TaskWhole(k)'
    BY DEF TaskWhole
<1> QED BY <1>2, <1>3, WholeMoves

\* Every query but that for documents, and every call but those of a listing.
LEMMA NewAndRead ==
    ASSUME WholeInv, IndInv', NEW t \in Tasks,
           \/ OnMessage(t) \/ OnCategory(t) \/ Categorise(t) \/ FindTemplates(t)
           \/ CountTemplates(t) \/ CountDocuments(t) \/ CountUsers(t) \/ QueryFails(t)
    PROVE  WholeInv'
<1>1. UNCHANGED tables /\ UNCHANGED chats
    BY DEF OnMessage, OnCategory, Dispatch, Categorise, FindTemplates, CountTemplates,
           CountDocuments, CountUsers, QueryFails
<1>2. IndInv /\ lines' = lines /\ documents' = documents /\ lines \in Seq(Lines) /\ answered' = answered
    BY <1>1 DEF WholeInv, IndInv, TypeOK, Lines, tables, chats
<1>3. OnlyGrows /\ \A i \in Len(lines) + 1 .. Len(lines') : FALSE
    BY <1>2, TablesGrow
<1>4. PICK k : Set(t, k) /\ k.pc # "lines"
    <2>1. CASE OnMessage(t)
        <3>1. PICK user \in Users, pc \in MessagePCs : Set(t, Request(pc, user, NoCategory))
            BY <2>1 DEF OnMessage
        <3>2. Request(pc, user, NoCategory).pc # "lines"
            BY DEF Request, MessagePCs
        <3> QED BY <3>1, <3>2
    <2>2. CASE OnCategory(t)
        <3>1. PICK m \in menus : \E cat \in m.choices : Set(t, Request("templates", m.user, cat))
            BY <2>2 DEF OnCategory
        <3>2. PICK cat \in m.choices : Set(t, Request("templates", m.user, cat))
            BY <3>1
        <3>3. Request("templates", m.user, cat).pc # "lines"
            BY DEF Request
        <3> QED BY <3>2, <3>3
    <2>3. CASE QueryFails(t)
        BY <2>3 DEF QueryFails, Finish, Idle
    <2>4. CASE Categorise(t) \/ FindTemplates(t) \/ CountTemplates(t)
               \/ CountDocuments(t) \/ CountUsers(t)
        <3>1. tasks[t] \in TaskRecords
            BY <1>2, <2>4, TaskTypes DEF IndInv, Idle, Categorise, FindTemplates, CountTemplates,
                                         CountDocuments, CountUsers
        <3>2. CASE Categorise(t)
            <4> DEFINE n == [tasks[t] EXCEPT !.pc = "menu", !.found = get_categories]
            <4>1. Set(t, n)
                BY <3>2 DEF Categorise
            <4>2. n.pc # "lines"
                BY <3>1 DEF TaskRecords
            <4> HIDE DEF n
            <4> QED BY <4>1, <4>2
        <3>3. CASE FindTemplates(t)
            <4> DEFINE n == [tasks[t] EXCEPT !.pc = "edit", !.found = get_active_templates(tasks[t].category)]
            <4>1. Set(t, n)
                BY <3>3 DEF FindTemplates
            <4>2. n.pc # "lines"
                BY <3>1 DEF TaskRecords
            <4> HIDE DEF n
            <4> QED BY <4>1, <4>2
        <3>4. CASE CountTemplates(t)
            <4> DEFINE n == [tasks[t] EXCEPT !.pc = "count_documents", !.tpl_count = get_template_count]
            <4>1. Set(t, n)
                BY <3>4 DEF CountTemplates
            <4>2. n.pc # "lines"
                BY <3>1 DEF TaskRecords
            <4> HIDE DEF n
            <4> QED BY <4>1, <4>2
        <3>5. CASE CountDocuments(t)
            <4> DEFINE n == [tasks[t] EXCEPT !.pc = "count_users", !.doc_count = get_document_count]
            <4>1. Set(t, n)
                BY <3>5 DEF CountDocuments
            <4>2. n.pc # "lines"
                BY <3>1 DEF TaskRecords
            <4> HIDE DEF n
            <4> QED BY <4>1, <4>2
        <3>6. CASE CountUsers(t)
            <4> DEFINE n == [tasks[t] EXCEPT !.pc = "figures", !.user_count = get_user_count]
            <4>1. Set(t, n)
                BY <3>6 DEF CountUsers
            <4>2. n.pc # "lines"
                BY <3>1 DEF TaskRecords
            <4> HIDE DEF n
            <4> QED BY <4>1, <4>2
        <3> QED BY <2>4, <3>2, <3>3, <3>4, <3>5, <3>6
    <2> QED BY <2>1, <2>2, <2>3, <2>4
<1>5. k \in TaskRecords \cup {Idle}
    <2>1. tasks' \in [Tasks -> TaskRecords \cup {Idle}] /\ tasks'[t] = k
        BY <1>2, <1>4 DEF Set, IndInv, TypeOK
    <2> QED BY <2>1
<1>6. TaskWhole(k)'
    BY <1>4 DEF TaskWhole
<1> QED BY <1>2, <1>3, <1>4, <1>5, <1>6, WholeMoves

LEMMA WholeFinds ==
    ASSUME WholeInv, IndInv', NEW t \in Tasks, FindDocuments(t)
    PROVE  WholeInv'
<1> DEFINE k == tasks[t]
<1>1. /\ IndInv /\ k.pc = "documents" /\ k \in TaskRecords /\ UNCHANGED <<tables, chats>>
      /\ lines' = lines /\ documents' = documents /\ lines \in Seq(Lines) /\ answered' = answered
    <2>1. IndInv /\ k.pc = "documents" /\ k # Idle /\ UNCHANGED <<tables, chats>>
        BY DEF WholeInv, FindDocuments, Idle
    <2> QED BY <2>1, TaskTypes DEF IndInv, TypeOK, Lines, tables, chats
<1>2. PICK docs \in get_user_documents(k.user) :
         Set(t, [k EXCEPT !.pc = "lines", !.sent = 0, !.listing = First(ListMax, docs)])
    BY Zenon DEF FindDocuments
<1> PICK listing : listing = First(ListMax, docs)
    OBVIOUS
<1> PICK n : n = [k EXCEPT !.pc = "lines", !.sent = 0, !.listing = listing]
    OBVIOUS
<1>3. n # Idle /\ n \in TaskRecords
    <2>1. tasks' \in [Tasks -> TaskRecords \cup {Idle}] /\ tasks'[t] = n
        BY <1>1, <1>2 DEF Set, IndInv, TypeOK
    <2>2. n.pc = "lines"
        BY <1>1 DEF TaskRecords
    <2>3. n # Idle
        BY <2>2 DEF Idle
    <2> QED BY <2>1, <2>3
<1>4. n.pc = "lines" /\ n.sent = 0 /\ n.listing = listing /\ n.user = k.user
    BY <1>1 DEF TaskRecords
<1>5. TaskWhole(n)'
    BY <1>1, <1>3, <1>4, FoundIsWhole
<1>6. OnlyGrows /\ \A i \in Len(lines) + 1 .. Len(lines') : FALSE
    BY <1>1, TablesGrow
<1> QED BY <1>1, <1>2, <1>3, <1>5, <1>6, WholeMoves

LEMMA WholePosted ==
    ASSUME WholeInv, IndInv', NEW t \in Tasks, Posted(t)
    PROVE  WholeInv'
<1> PICK k : k = tasks[t]
    OBVIOUS
<1>1. /\ IndInv /\ k # Idle /\ UNCHANGED tables /\ updates' = updates
      /\ k.pc \in {"menu", "lines", "figures", "edit"} /\ Post(k)
    BY DEF Posted, Idle, WholeInv
<1>2. ChatsMove(k) /\ k \in TaskRecords /\ TaskCurrent(k) /\ TaskBounded(k) /\ TaskWhole(k)
    BY <1>1, Posts, TaskTypes DEF IndInv, WholeInv
<1>3. documents' = documents
    BY <1>1 DEF tables
<1>4. OnlyGrows /\ \A i \in Len(lines) + 1 .. Len(lines') : lines'[i].upd = k.upd
    BY <1>1, <1>2, <1>3, ChatsGrow
<1>5. CASE k.pc # "lines"
    <2>1. answered' = answered
        BY <1>5 DEF Posted
    <2>2. CASE k.pc = "edit"
        <3> PICK n : n = [k EXCEPT !.pc = "ack"]
            OBVIOUS
        <3>1. Set(t, n)
            BY <2>2 DEF Posted, IsLast
        <3>2. n \in TaskRecords /\ n.pc # "lines"
            BY <1>2 DEF TaskRecords, PCs
        <3> QED BY <1>1, <1>2, <2>1, <3>1, <3>2, WholeElsewhere
    <2>3. CASE k.pc # "edit"
        <3>1. Set(t, Idle)
            BY <1>5, <2>3 DEF Posted, IsLast, Finish
        <3> QED BY <1>1, <1>2, <2>1, <3>1, WholeElsewhere
    <2> QED BY <2>2, <2>3
<1>6. CASE k.pc = "lines" /\ ~ IsLast(k)
    <2> PICK n : n = [k EXCEPT !.sent = k.sent + 1]
        OBVIOUS
    <2>1. Set(t, n) /\ answered' = answered
        BY <1>6 DEF Posted
    <2>2. /\ k.sent \in Nat /\ k.listing \in Seq(Nat \ {0}) /\ k.sent + 1 < Len(k.listing)
          /\ n \in TaskRecords /\ n.upd = k.upd /\ n.sent = k.sent + 1 /\ n.pc = "lines"
          /\ n.listing = k.listing /\ n.user = k.user /\ n.had = k.had
        <3>1. k.sent \in Nat /\ k.sent + 1 \in Nat /\ k.listing \in Seq(Nat \ {0})
            BY <1>2 DEF TaskRecords
        <3>2. k.sent + 1 < Len(k.listing)
            BY <1>6, <3>1 DEF IsLast
        <3>3. n \in TaskRecords
            BY <1>2, <3>1 DEF TaskRecords
        <3> QED BY <1>2, <1>6, <3>1, <3>2, <3>3 DEF TaskRecords
    <2>3. lines' = Append(lines, [upd |-> k.upd, user |-> k.user, doc |-> k.listing[k.sent + 1]])
        BY <1>1, <1>6, <2>2 DEF Post
    <2>4. Sent(n, k.sent + 1)'
        <3>1. k.listing # <<>>
            BY <2>2
        <3>2. /\ IndInv /\ k \in TaskRecords /\ TaskWhole(k) /\ TaskBounded(k) /\ k.pc = "lines"
              /\ documents' = documents /\ n.upd = k.upd /\ n.listing = k.listing
            BY <1>1, <1>2, <1>3, <1>6, <2>2
        <3> QED BY <2>3, <3>1, <3>2, NextIsSent, Zenon, SMTT(30)
    <2>5. TaskWhole(n)'
        <3>1. Sent(n, n.sent)'
            BY <2>2, <2>4
        <3>2. /\ n.sent <= Len(n.listing) /\ Len(n.listing) <= ListMax
              /\ \A i \in DOMAIN n.listing :
                    \A j \in 1 .. i - 1 : NotOlder(n.listing[j], n.listing[i])
              /\ NoneMissing({n.listing[i] : i \in DOMAIN n.listing}, Len(n.listing), n.user, n.had)
            BY <1>2, <2>2 DEF TaskWhole
        <3> QED BY <1>3, <3>1, <3>2 DEF TaskWhole, Sent, NotOlder, NoneMissing, Own
    <2> QED BY <1>4, <1>1, <2>1, <2>2, <2>5, WholeMoves
<1>7. CASE k.pc = "lines" /\ IsLast(k)
    <2> PICK r : r = [upd |-> k.upd, user |-> k.user, had |-> k.had, until |-> Len(lines')]
        OBVIOUS
    <2>1. Set(t, Idle) /\ answered' = answered \cup {r}
        BY <1>7 DEF Posted, Finish
    <2>2. k.sent \in Nat /\ k.listing \in Seq(Nat \ {0}) /\ Len(lines') \in Nat
          /\ Len(k.listing) <= k.sent + 1
        BY <1>2, <1>4, <1>7 DEF TaskRecords, IsLast, OnlyGrows
    <2>3. Sent(k, Len(k.listing))'
        <3>1. CASE k.listing # <<>>
            <4>1. lines' = Append(lines, [upd |-> k.upd, user |-> k.user,
                                          doc |-> k.listing[k.sent + 1]])
                BY <1>1, <1>7, <3>1 DEF Post
            <4>2. Sent(k, k.sent + 1)'
                BY <1>1, <1>2, <1>3, <1>7, <3>1, <4>1, NextIsSent
            <4>3. k.sent + 1 = Len(k.listing)
                <5>1. k.sent < Len(k.listing)
                    BY <1>2, <1>7, <3>1 DEF TaskBounded
                <5> QED BY <2>2, <5>1
            <4> QED BY <4>2, <4>3
        <3>2. CASE k.listing = <<>>
            <4>1. lines' = lines
                BY <1>1, <3>2 DEF Post
            <4>2. k.sent = Len(k.listing)
                BY <1>2, <1>7, <2>2, <3>2 DEF TaskWhole
            <4>3. Sent(k, Len(k.listing))
                BY <1>2, <1>7, <4>2 DEF TaskWhole, Sent
            <4> QED BY <1>3, <4>1, <4>3, SameLines
        <3> QED BY <3>1, <3>2
    <2>4. AnswerOK(r)'
        BY <1>1, <1>2, <1>3, <1>7, <2>2, <2>3, SentAnswers
    <2> QED BY <1>1, <1>4, <2>1, <2>4, WholeMoves
<1> QED BY <1>5, <1>6, <1>7

LEMMA WholeFails ==
    ASSUME WholeInv, IndInv', NEW t \in Tasks, PostFails(t) \/ Ended(t)
    PROVE  WholeInv'
<1> PICK k : k = tasks[t]
    OBVIOUS
<1>1. /\ IndInv /\ k # Idle /\ UNCHANGED tables /\ answered' = answered
      /\ k.pc \in {"menu", "lines", "figures", "edit", "ack"}
    BY DEF PostFails, Ended, Idle, WholeInv, chats
<1>2. ChatsMove(k)
    BY <1>1, Posts, NothingPosted DEF PostFails, Ended
<1>3. PICK n : Set(t, n) /\ (n = Idle \/ (n = Again(k) /\ k.pc \in {"menu", "lines", "figures"}))
    <2>1. CASE PostFails(t)
        <3>1. Set(t, Idle) \/ (Set(t, Again(k)) /\ k.pc \in {"menu", "lines", "figures"})
            BY <2>1 DEF PostFails, Finish
        <3> QED BY <3>1
    <2>2. CASE Ended(t)
        BY <2>2 DEF Ended, Finish
    <2> QED BY <2>1, <2>2
<1>4. n \in TaskRecords \cup {Idle}
    <2>1. tasks' \in [Tasks -> TaskRecords \cup {Idle}] /\ tasks'[t] = n
        BY <1>1, <1>3 DEF Set, IndInv, TypeOK
    <2> QED BY <2>1
<1>5. n # Idle => n.pc # "lines"
    <2>1. k \in TaskRecords
        BY <1>1, TaskTypes DEF IndInv
    <2> QED BY <1>3, <2>1 DEF Again, TaskRecords
<1> QED BY <1>1, <1>2, <1>3, <1>4, <1>5, WholeElsewhere

LEMMA WholeStarts == Init => WholeInv
BY Starts DEF Init, WholeInv, ListingsAreWhole

LEMMA WholeSteps == WholeInv /\ [Next]_vars => WholeInv'
<1> SUFFICES ASSUME WholeInv, [Next]_vars PROVE WholeInv'
    OBVIOUS
<1>1. IndInv'
    BY Steps DEF WholeInv
<1>2. ASSUME NEW t \in Tasks, OnMessage(t) \/ OnCategory(t) \/ Step(t) PROVE WholeInv'
    BY <1>1, <1>2, NewAndRead, WholeFinds, WholePosted, WholeFails DEF Step
<1>3. CASE CreateTemplate \/ Retire \/ SaveDocument \/ Register \/ Tick \/ UNCHANGED vars
    <2>1. UNCHANGED <<chats, tasks, updates>>
        BY <1>3 DEF CreateTemplate, Retire, SaveDocument, Register, Tick, Change, vars
    <2>2. \/ documents' = documents
          \/ \E user \in Users : documents' = Append(documents, [user |-> user, created_at |-> now])
        BY <1>3 DEF CreateTemplate, Retire, SaveDocument, Register, Tick, vars, tables
    <2> QED BY <1>1, <2>1, <2>2, WholeChanges
<1> QED BY <1>2, <1>3 DEF Next

\* The last lines of every request are the latest documents it found, and no
\* other request of the same user gets between them.
THEOREM Whole == Spec => []WholeInv
<1> QED BY WholeStarts, WholeSteps, PTL DEF Spec

\* An answered request for documents ends in a whole listing: at most ListMax
\* documents, the latest first, and none missing that is newer than one of them,
\* however often Telegram failed on the way and whatever came in meanwhile.
THEOREM WholeListings == Spec => []ListingsAreWhole
<1>1. WholeInv => ListingsAreWhole
    BY DEF WholeInv
<1> QED BY Whole, <1>1, PTL
==============================================================================
