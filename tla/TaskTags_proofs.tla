--------------------------- MODULE TaskTags_proofs --------------------------
(***************************************************************************)
(* Proofs about TaskTags, for every set of sessions, tasks, tag ids, names *)
(* and requests and for every bound on the outbox.                         *)
(***************************************************************************)
EXTENDS TaskTags, NaturalFacts, SequenceTheorems

-----------------------------------------------------------------------------
(***************************************************************************)
(* The inductive invariant.  Local(s) is what a session knows of its own   *)
(* request and of the tables; every other session's commit keeps it.       *)
(***************************************************************************)
Staging == {"clear", "lock", "commit"}
Holding == {"lock", "commit"}

\* The statements a request of each kind gets to.
Reaches(s) ==
    /\ pc[s] = "idle" <=> req[s] = NoRequest
    /\ pc[s] \in {"names", "resolve", "keep"} \cup Staging => req[s].kind \in {"create", "update"}
    /\ pc[s] \in {"names", "resolve"} \cup Staging => req[s].names \in Names
    /\ pc[s] = "read" => req[s].kind \in {"update", "delete"}
    /\ pc[s] = "erase" => req[s].kind = "delete"
    /\ pc[s] \in {"tag", "count", "drop"} => req[s].kind = "delete_tag"

\* A session mints each key once, under ids nobody used, and what it has
\* inserted nobody else can take.
Mints(s) ==
    /\ pc[s] \notin Staging \cup {"keep"} => minted[s] = NoTags
    /\ \A i \in DOMAIN minted[s] : tags[i] = Unborn
    /\ \A i, j \in DOMAIN minted[s] : Key[minted[s][i]] = Key[minted[s][j]] => i = j
    /\ pc[s] \in Holding => MintedKeys(s) \cap TakenKeys = {}

\* The tag i stands for the key k, or did until it was deleted.
Means(s, i, k) ==
    IF i \in DOMAIN minted[s] THEN Key[minted[s][i]] = k
    ELSE tags[i] # Unborn /\ (Exists(i) => Key[tags[i]] = k)

\* The ids a replacement resolved are those of the names asked for.
Resolves(s) ==
    pc[s] \in Staging =>
        /\ Asked(s) \subseteq Name
        /\ \A k \in AskedKeys(s) : \E i \in resolved[s] : Means(s, i, k)
        /\ \A i \in resolved[s] : \E k \in AskedKeys(s) : Means(s, i, k)

\* A replacement dooms every link of its task but the late ones; a tag that
\* is about to go has late links only, and it is not an unused id.
Dooms(s) ==
    /\ pc[s] \notin Holding => doomed[s] = {}
    /\ pc[s] \in Holding =>
         /\ \A row \in doomed[s] : row[1] = req[s].task
         /\ RowsOf(req[s].task) \subseteq doomed[s] \cup late[s]
    /\ pc[s] \in {"count", "drop"} => tags[req[s].tag] # Unborn
    /\ pc[s] = "drop" => HoldersOf(req[s].tag) \subseteq late[s]

Local(s) == Reaches(s) /\ Mints(s) /\ Resolves(s) /\ Dooms(s)

\* Two sessions mint different ids, and hold different keys.
Apart(s, o) ==
    /\ DOMAIN minted[s] \cap DOMAIN minted[o] = {}
    /\ HeldKeys(s) \cap HeldKeys(o) = {}

Inv == /\ TypeOK /\ VocabularySound
       /\ \A s \in Session : Local(s)
       /\ \A s, o \in Session : s # o => Apart(s, o)

-----------------------------------------------------------------------------
\* Facts about requests, names and tables.

LEMMA RequestTyped ==
    ASSUME TypeOK, NEW s \in Session, Reaches(s)
    PROVE  /\ pc[s] # "idle" => req[s] \in Request
           /\ pc[s] # "idle" /\ req[s].kind \in {"create", "update", "delete"} => req[s].task \in Task
           /\ pc[s] # "idle" /\ req[s].kind = "delete_tag" => req[s].tag \in TagId
<1>1. pc[s] # "idle" => req[s] \in Request
  BY TagRequestAssumption DEF TypeOK, Reaches
<1>. QED  BY <1>1 DEF Request

\* The three marks of a row differ.
LEMMA MarksDiffer == Unborn # Deleted /\ Live # Unborn /\ Live # Deleted
<1>1. ASSUME NEW a, NEW b
      PROVE  Cardinality({a, b}) # 3
  <2>1. IsFiniteSet({a}) /\ Cardinality({a}) = 1
    BY FS_Singleton
  <2>2. {a, b} = {a} \cup {b}
    OBVIOUS
  <2>. QED  BY <2>1, <2>2, FS_AddElement
<1>2. ASSUME Unborn = Deleted \/ Live = Unborn \/ Live = Deleted
      PROVE  FALSE
  <2>1. \/ {Live, Unborn, Deleted} = {Live, Unborn}
        \/ {Live, Unborn, Deleted} = {Live, Deleted}
    BY <1>2
  <2>2. Cardinality({Live, Unborn, Deleted}) = 3
    BY NameAssumption
  <2>3. Cardinality({Live, Unborn}) # 3 /\ Cardinality({Live, Deleted}) # 3
    BY <1>1, Zenon
  <2>. QED  BY <2>1, <2>2, <2>3
<1>. QED  BY <1>2

\* What a replacement asks for has a spelling for each of its keys.
LEMMA SpellingOf ==
    ASSUME NEW s \in Session, req[s].names \in Names, Asked(s) \subseteq Name, NEW k \in AskedKeys(s)
    PROVE  Spelling(s, k) \in Name /\ Key[Spelling(s, k)] = k
<1>. DEFINE names == req[s].names
            I == {i \in 1 .. Len(names) : Key[names[i]] = k}
<1>1. names \in Seq(Name \cup {Blank}) /\ DOMAIN names = 1 .. Len(names)
  BY DEF Names
<1>2. I \in SUBSET Nat /\ I # {}
  BY <1>1 DEF AskedKeys, Asked, ToSet
<1>3. Min(I) \in I
  <2>1. \E x \in I : \A y \in I : x <= y
    BY <1>2, LeastElement
  <2>. HIDE DEF I
  <2>. QED  BY <2>1 DEF Min
<1>4. SelectInSeq(names, LAMBDA n : Key[n] = k) = Min(I)
  BY <1>2 DEF SelectInSeq
<1>5. Spelling(s, k) = names[Min(I)]
  BY <1>4 DEF Spelling
<1>. QED  BY <1>1, <1>3, <1>5 DEF Asked, ToSet

\* What inserting minted tags does to the tags table.
LEMMA InsertMinted ==
    ASSUME TypeOK, NEW s \in Session, tags' = Inserted(s)
    PROVE  /\ tags' \in [TagId -> Name \cup {Unborn, Deleted}]
           /\ \A i \in TagId : tags'[i] = IF i \in DOMAIN minted[s] THEN minted[s][i] ELSE tags[i]
           /\ DOMAIN minted[s] \subseteq TagId
           /\ \A i \in DOMAIN minted[s] : minted[s][i] \in Name
<1>1. PICK ids \in SUBSET TagId : minted[s] \in [ids -> Name]
  BY DEF TypeOK, Mintable
<1>. QED  BY <1>1 DEF TypeOK, Inserted

LEMMA NoTagsTyped ==
    /\ DOMAIN NoTags = {}
    /\ NoTags \in Mintable
<1>1. NoTags \in [{} -> Name]
  BY DEF NoTags
<1>2. {} \in SUBSET TagId
  OBVIOUS
<1>. QED  BY <1>1, <1>2 DEF NoTags, Mintable

LEMMA InitInv == Init => Inv
<1>. SUFFICES ASSUME Init
              PROVE  Inv
  OBVIOUS
<1>. USE DEF Init
<1>1. TypeOK
  BY NoTagsTyped DEF TypeOK
<1>2. VocabularySound
  BY NameAssumption DEF VocabularySound, Exists
<1>3. ASSUME NEW s \in Session
      PROVE  Local(s)
  BY NoTagsTyped DEF Local, Reaches, Mints, Resolves, Dooms, Staging, Holding
<1>4. ASSUME NEW s \in Session, NEW o \in Session
      PROVE  Apart(s, o)
  BY NoTagsTyped DEF Apart, HeldKeys
<1>. QED  BY <1>1, <1>2, <1>3, <1>4 DEF Inv

-----------------------------------------------------------------------------
\* Steps of one session that write no table.

SameSession(o) ==
    /\ pc'[o] = pc[o] /\ req'[o] = req[o] /\ resolved'[o] = resolved[o] /\ minted'[o] = minted[o]
    /\ doomed'[o] = doomed[o] /\ late'[o] = late[o]

LEMMA LocalFrame ==
    ASSUME UNCHANGED db, NEW o \in Session, SameSession(o), Local(o)
    PROVE  Local(o)'
<1>. USE DEF Local, SameSession, db
<1>1. Reaches(o)'
  BY DEF Reaches
<1>2. Mints(o)'
  BY DEF Mints, MintedKeys, TakenKeys, Exists
<1>3. Resolves(o)'
  BY DEF Resolves, Asked, AskedKeys, Means, Exists
<1>4. Dooms(o)'
  BY DEF Dooms, RowsOf, HoldersOf
<1>. QED  BY <1>1, <1>2, <1>3, <1>4

LEMMA PrivateInv ==
    ASSUME Inv, TypeOK', NEW s \in Session, UNCHANGED db,
           \A o \in Others(s) : SameSession(o),
           Local(s)', \A o \in Others(s) : Apart(s, o)'
    PROVE  Inv'
<1>1. VocabularySound'
  BY DEF Inv, VocabularySound, Exists, db
<1>2. ASSUME NEW o \in Session
      PROVE  Local(o)'
  BY LocalFrame DEF Inv, Others
<1>3. ASSUME NEW o \in Session, NEW p \in Session, o # p
      PROVE  Apart(o, p)'
  <2>1. CASE o # s /\ p # s
    <3>1. SameSession(o) /\ SameSession(p) /\ Apart(o, p)
      BY <1>3, <2>1 DEF Inv, Others
    <3>2. MintedKeys(o)' = MintedKeys(o) /\ MintedKeys(p)' = MintedKeys(p)
      BY <3>1 DEF SameSession, MintedKeys
    <3>. QED  BY <3>1, <3>2 DEF SameSession, Apart, HeldKeys
  <2>2. CASE o = s
    BY <1>3, <2>2 DEF Others
  <2>3. CASE p = s
    BY <1>3, <2>3 DEF Others, Apart
  <2>. QED  BY <2>1, <2>2, <2>3
<1>. QED  BY <1>1, <1>2, <1>3 DEF Inv

\* A session that ends without writing gives up what it held.
LEMMA RefuseInv ==
    ASSUME Inv, NEW s \in Session, Refuse(s)
    PROVE  Inv'
<1>. USE DEF Refuse, Reset, Goto
<1>1. TypeOK'
  BY NoTagsTyped DEF Inv, TypeOK, db
<1>2. pc'[s] = "idle" /\ req'[s] = NoRequest /\ minted'[s] = NoTags /\ doomed'[s] = {}
  BY DEF Inv, TypeOK
<1>3. \A o \in Others(s) : SameSession(o)
  BY DEF Inv, TypeOK, Others, SameSession
<1>4. Local(s)'
  BY <1>2, NoTagsTyped DEF Local, Reaches, Mints, Resolves, Dooms, Staging, Holding
<1>5. \A o \in Others(s) : Apart(s, o)'
  BY <1>2, NoTagsTyped DEF Apart, HeldKeys
<1>. QED  BY <1>1, <1>3, <1>4, <1>5, PrivateInv

LEMMA ReceiveInv ==
    ASSUME Inv, NEW s \in Session, NEW r \in Requests, Receive(s, r)
    PROVE  Inv'
<1>1. /\ pc[s] = "idle" /\ r \in Request /\ r # NoRequest
      /\ req' = [req EXCEPT ![s] = r]
      /\ pc' = [pc EXCEPT ![s] = CASE r.kind = "create" -> "names"
                                   [] r.kind \in {"update", "delete"} -> "read"
                                   [] r.kind = "delete_tag" -> "tag"
                                   [] r.kind = "list" -> "list"]
      /\ UNCHANGED <<db, before, resolved, minted, doomed, late>>
  BY TagRequestAssumption DEF Receive, Goto
<1>2. \/ r.kind = "create" /\ pc'[s] = "names" /\ r.names \in Names
      \/ r.kind \in {"update", "delete"} /\ pc'[s] = "read"
      \/ r.kind = "delete_tag" /\ pc'[s] = "tag"
      \/ r.kind = "list" /\ pc'[s] = "list"
  BY <1>1 DEF Inv, TypeOK, Request
<1>3. req'[s] = r /\ \A o \in Others(s) : SameSession(o)
  BY <1>1 DEF Inv, TypeOK, Others, SameSession
<1>4. TypeOK'
  <2>1. pc' \in [Session -> {"idle", "read", "names", "resolve", "clear", "lock", "commit",
                             "keep", "erase", "tag", "count", "drop", "list"}]
    BY <1>1, <1>2 DEF Inv, TypeOK
  <2>. QED  BY <1>1, <2>1 DEF Inv, TypeOK, db
<1>5. minted[s] = NoTags /\ doomed[s] = {}
  BY <1>1 DEF Inv, Local, Mints, Dooms, Staging, Holding
<1>6. Local(s)'
  BY <1>1, <1>2, <1>3, <1>5, NoTagsTyped
     DEF Local, Reaches, Mints, Resolves, Dooms, Staging, Holding
<1>7. \A o \in Others(s) : Apart(s, o)'
  BY <1>1, <1>2, <1>5, NoTagsTyped DEF Apart, HeldKeys
<1>. QED  BY <1>1, <1>3, <1>4, <1>6, <1>7, PrivateInv

LEMMA ReadTaskInv ==
    ASSUME Inv, NEW s \in Session, ReadTask(s)
    PROVE  Inv'
<1>1. CASE Refuse(s)
  BY <1>1, RefuseInv
<1>2. CASE ~Refuse(s)
  <2>1. /\ pc[s] = "read"
        /\ pc' = [pc EXCEPT ![s] = IF req[s].kind = "delete" THEN "erase"
                                   ELSE IF req[s].names = Omitted THEN "keep" ELSE "names"]
        /\ UNCHANGED <<db, req, before, resolved, minted, doomed, late>>
    BY <1>2 DEF ReadTask, Goto
  <2>2. Local(s) /\ req[s] \in Request /\ req[s].kind \in {"update", "delete"}
    BY <2>1, RequestTyped DEF Inv, Local, Reaches
  <2>3. \/ req[s].kind = "delete" /\ pc'[s] = "erase"
        \/ req[s].kind = "update" /\ pc'[s] = "keep"
        \/ req[s].kind = "update" /\ pc'[s] = "names" /\ req[s].names \in Names
    BY <2>1, <2>2 DEF Inv, TypeOK, Request
  <2>4. TypeOK' /\ \A o \in Others(s) : SameSession(o)
    BY <2>1 DEF Inv, TypeOK, db, Others, SameSession
  <2>5. minted[s] = NoTags /\ doomed[s] = {} /\ req[s] # NoRequest
    BY <2>1, <2>2 DEF Local, Reaches, Mints, Dooms, Staging, Holding
  <2>6. Local(s)'
    BY <2>1, <2>3, <2>5, NoTagsTyped
       DEF Local, Reaches, Mints, Resolves, Dooms, Staging, Holding
  <2>7. \A o \in Others(s) : Apart(s, o)'
    BY <2>1, <2>5, NoTagsTyped, <2>3 DEF Apart, HeldKeys
  <2>. QED  BY <2>1, <2>4, <2>6, <2>7, PrivateInv
<1>. QED  BY <1>1, <1>2

LEMMA ReadNamesInv ==
    ASSUME Inv, NEW s \in Session, ReadNames(s)
    PROVE  Inv'
<1>1. /\ pc[s] = "names" /\ pc' = [pc EXCEPT ![s] = "resolve"]
      /\ before' = [before EXCEPT ![s] = NamesOf(req[s].task)]
      /\ UNCHANGED <<db, req, resolved, minted, doomed, late>>
  BY DEF ReadNames, Goto
<1>2. NamesOf(req[s].task) \subseteq Name
  BY DEF Inv, VocabularySound, NamesOf, RowsOf, Exists
<1>3. TypeOK' /\ \A o \in Others(s) : SameSession(o)
  BY <1>1, <1>2 DEF Inv, TypeOK, db, Others, SameSession
<1>4. pc'[s] = "resolve" /\ Local(s)
  BY <1>1 DEF Inv, TypeOK
<1>5. minted[s] = NoTags /\ doomed[s] = {}
  BY <1>1, <1>4 DEF Local, Mints, Dooms, Staging, Holding
<1>6. Local(s)'
  BY <1>1, <1>4, <1>5, NoTagsTyped DEF Local, Reaches, Mints, Resolves, Dooms, Staging, Holding
<1>7. \A o \in Others(s) : Apart(s, o)'
  BY <1>1, <1>4, <1>5, NoTagsTyped DEF Apart, HeldKeys
<1>. QED  BY <1>1, <1>3, <1>6, <1>7, PrivateInv

LEMMA ReadTagInv ==
    ASSUME Inv, NEW s \in Session, ReadTag(s) \/ CountTasks(s)
    PROVE  Inv'
<1>1. CASE Refuse(s)
  BY <1>1, RefuseInv
<1>2. CASE ~Refuse(s)
  <2>1. /\ \/ /\ pc[s] = "tag" /\ Exists(req[s].tag)
              /\ pc' = [pc EXCEPT ![s] = "count"]
           \/ /\ pc[s] = "count" /\ HoldersOf(req[s].tag) = {}
              /\ pc' = [pc EXCEPT ![s] = "drop"]
        /\ UNCHANGED <<db, req, before, resolved, minted, doomed, late>>
    BY <1>2 DEF ReadTag, CountTasks, Goto
  <2>2. TypeOK' /\ \A o \in Others(s) : SameSession(o)
    BY <2>1 DEF Inv, TypeOK, db, Others, SameSession
  <2>3. Local(s) /\ pc'[s] = IF pc[s] = "tag" THEN "count" ELSE "drop"
    BY <2>1 DEF Inv, TypeOK
  <2>4. minted[s] = NoTags /\ doomed[s] = {}
    BY <2>1, <2>3 DEF Local, Mints, Dooms, Staging, Holding
  <2>5. tags[req[s].tag] # Unborn
    BY <2>1, <2>3, NameAssumption DEF Local, Dooms, Exists
  <2>6. pc[s] = "count" => HoldersOf(req[s].tag)' = {}
    BY <2>1 DEF HoldersOf, db
  <2>7. Local(s)'
    BY <2>1, <2>3, <2>4, <2>5, <2>6, NoTagsTyped
       DEF Local, Reaches, Mints, Resolves, Dooms, Staging, Holding, db
  <2>8. \A o \in Others(s) : Apart(s, o)'
    BY <2>1, <2>3, <2>4, NoTagsTyped DEF Apart, HeldKeys
  <2>. QED  BY <2>1, <2>2, <2>7, <2>8, PrivateInv
<1>. QED  BY <1>1, <1>2

\* Each missing key gets one unused id, and every name a tag.
LEMMA ResolveInv ==
    ASSUME Inv, NEW s \in Session, Resolve(s)
    PROVE  Inv'
<1>1. CASE Refuse(s)
  BY <1>1, RefuseInv
<1>2. CASE ~Refuse(s)
  <2>. DEFINE found   == {i \in TagId : Exists(i) /\ Key[tags[i]] \in AskedKeys(s)}
              missing == AskedKeys(s) \ TakenKeys
              unused  == {i \in TagId : tags[i] = Unborn
                                        /\ \A o \in Session : i \notin DOMAIN minted[o]}
              Mint(ids, f) == [i \in ids |-> Spelling(s, f[i])]
  <2>1. pc[s] = "resolve" /\ Blank \notin Asked(s) /\ Local(s)
    BY <1>2 DEF Resolve, Inv
  <2>2. PICK ids \in SUBSET unused : \E f \in Bijection(ids, missing) :
          /\ minted' = [minted EXCEPT ![s] = Mint(ids, f)]
          /\ resolved' = [resolved EXCEPT ![s] = found \cup ids]
          /\ Goto(s, IF before[s] = Asked(s) THEN "keep" ELSE "clear")
          /\ UNCHANGED <<db, req, before, doomed, late>>
    BY <1>2 DEF Resolve
  <2>3. PICK f \in Bijection(ids, missing) :
          /\ minted' = [minted EXCEPT ![s] = Mint(ids, f)]
          /\ resolved' = [resolved EXCEPT ![s] = found \cup ids]
          /\ Goto(s, IF before[s] = Asked(s) THEN "keep" ELSE "clear")
          /\ UNCHANGED <<db, req, before, doomed, late>>
    BY <2>2
  <2>4. /\ f \in [ids -> missing]
        /\ \A i, j \in ids : f[i] = f[j] => i = j
        /\ \A k \in missing : \E i \in ids : f[i] = k
    BY DEF Bijection, Injection, Surjection, IsInjective
  <2>. HIDE DEF found, missing, unused
  <2>5. pc' = [pc EXCEPT ![s] = IF before[s] = Asked(s) THEN "keep" ELSE "clear"]
    BY <2>3 DEF Goto
  <2>6. req[s].names \in Names /\ Asked(s) \subseteq Name
    BY <2>1 DEF Local, Reaches, Asked, ToSet, Names
  <2>7. \A i \in ids : Spelling(s, f[i]) \in Name /\ Key[Spelling(s, f[i])] = f[i]
    BY <2>4, <2>6, SpellingOf DEF missing
  <2>8. Mint(ids, f) \in [ids -> Name] /\ ids \in SUBSET TagId
    BY <2>2, <2>7 DEF unused
  <2>9. TypeOK'
    <3>1. Mint(ids, f) \in Mintable
      BY <2>8 DEF Mintable
    <3>2. minted' \in [Session -> Mintable]
      BY <2>3, <3>1 DEF Inv, TypeOK
    <3>3. resolved' \in [Session -> SUBSET TagId]
      BY <2>3, <2>8 DEF Inv, TypeOK, found
    <3>. QED  BY <2>3, <2>5, <3>2, <3>3 DEF Inv, TypeOK, db
  <2>10. /\ minted'[s] = Mint(ids, f) /\ resolved'[s] = found \cup ids /\ req'[s] = req[s]
         /\ pc'[s] \in {"keep", "clear"} /\ doomed'[s] = doomed[s]
    BY <2>3, <2>5 DEF Inv, TypeOK
  <2>11. \A o \in Others(s) : SameSession(o)
    BY <2>3, <2>5 DEF Inv, TypeOK, Others, SameSession
  <2>12. /\ \A i \in ids : tags[i] = Unborn /\ tags'[i] = Unborn /\ minted'[s][i] = Spelling(s, f[i])
         /\ DOMAIN minted'[s] = ids
    BY <2>2, <2>3, <2>10 DEF unused, db
  <2>. HIDE DEF Mint
  <2>13. Reaches(s)'
    BY <2>1, <2>10 DEF Local, Reaches, Staging
  <2>14. Mints(s)'
    BY <2>4, <2>7, <2>10, <2>12 DEF Mints, Staging, Holding
  <2>15. Resolves(s)'
    <3>1. AskedKeys(s)' = AskedKeys(s) /\ Asked(s)' = Asked(s)
      BY <2>10 DEF AskedKeys, Asked
    <3>2. \A i : Exists(i)' <=> Exists(i)
      BY <2>3 DEF Exists, db
    <3>3. ASSUME NEW k \in AskedKeys(s), NEW i \in ids, f[i] = k
          PROVE  Means(s, i, k)'
      BY <2>7, <2>12, <3>3 DEF Means
    <3>4. ASSUME NEW k \in AskedKeys(s), NEW i \in TagId, Exists(i), Key[tags[i]] = k
          PROVE  Means(s, i, k)'
      BY <2>3, <2>12, <3>4, NameAssumption DEF Means, Exists, db
    <3>5. ASSUME NEW k \in AskedKeys(s)
          PROVE  \E i \in resolved'[s] : Means(s, i, k)'
      <4>1. CASE k \in missing
        BY <2>4, <2>10, <3>3, <4>1
      <4>2. CASE k \in TakenKeys
        <5>1. PICK i \in TagId : Exists(i) /\ Key[tags[i]] = k
          BY <4>2 DEF TakenKeys
        <5>. QED  BY <2>10, <3>4, <5>1 DEF found
      <4>. QED  BY <4>1, <4>2 DEF missing
    <3>6. ASSUME NEW i \in resolved'[s]
          PROVE  \E k \in AskedKeys(s) : Means(s, i, k)'
      <4>1. CASE i \in ids
        BY <2>4, <3>3, <4>1 DEF missing
      <4>2. CASE i \in found
        BY <3>4, <4>2 DEF found
      <4>. QED  BY <2>10, <4>1, <4>2
    <3>. QED  BY <2>6, <3>1, <3>5, <3>6 DEF Resolves
  <2>16. Dooms(s)'
    BY <2>1, <2>10 DEF Local, Dooms, Holding
  <2>17. \A o \in Others(s) : Apart(s, o)'
    <3>. SUFFICES ASSUME NEW o \in Others(s)
                  PROVE  Apart(s, o)'
      OBVIOUS
    <3>1. ids \cap DOMAIN minted[o] = {} /\ minted'[o] = minted[o]
      BY <2>2, <2>11 DEF unused, Others, SameSession
    <3>2. HeldKeys(s)' = {}
      BY <2>10 DEF HeldKeys
    <3>. QED  BY <2>12, <3>1, <3>2 DEF Apart
  <2>. QED  BY <2>3, <2>9, <2>11, <2>13, <2>14, <2>15, <2>16, <2>17, PrivateInv DEF Local
<1>. QED  BY <1>1, <1>2

LEMMA ClearLinksInv ==
    ASSUME Inv, NEW s \in Session, ClearLinks(s)
    PROVE  Inv'
<1>1. CASE Refuse(s)
  BY <1>1, RefuseInv
<1>2. CASE ~Refuse(s)
  <2>1. /\ pc[s] = "clear" /\ MintedKeys(s) \cap TakenKeys = {}
        /\ \A o \in Others(s) : HeldKeys(o) \cap MintedKeys(s) = {}
        /\ doomed' = [doomed EXCEPT ![s] = RowsOf(req[s].task)]
        /\ pc' = [pc EXCEPT ![s] = "lock"]
        /\ UNCHANGED <<db, req, before, resolved, minted, late>>
    BY <1>2 DEF ClearLinks, Goto
  <2>2. TypeOK' /\ \A o \in Others(s) : SameSession(o)
    BY <2>1 DEF Inv, TypeOK, db, Others, SameSession, RowsOf
  <2>3. Local(s) /\ pc'[s] = "lock" /\ doomed'[s] = RowsOf(req[s].task)
    BY <2>1 DEF Inv, TypeOK
  <2>4. Reaches(s)'
    BY <2>1, <2>3 DEF Local, Reaches, Staging
  <2>5. MintedKeys(s)' = MintedKeys(s) /\ TakenKeys' = TakenKeys
    BY <2>1 DEF MintedKeys, TakenKeys, Exists, db
  <2>6. Mints(s)'
    BY <2>1, <2>3, <2>5 DEF Local, Mints, Staging, Holding, db
  <2>7. Resolves(s)'
    BY <2>1, <2>3 DEF Local, Resolves, Staging, Asked, AskedKeys, Means, Exists, db
  <2>8. Dooms(s)'
    BY <2>1, <2>3 DEF Local, Dooms, Holding, RowsOf, db
  <2>9. \A o \in Others(s) : Apart(s, o)'
    <3>. SUFFICES ASSUME NEW o \in Others(s)
                  PROVE  Apart(s, o)'
      OBVIOUS
    <3>1. HeldKeys(o)' = HeldKeys(o) /\ HeldKeys(s)' = MintedKeys(s) /\ Apart(s, o)
      BY <2>1, <2>2, <2>3, <2>5 DEF HeldKeys, MintedKeys, SameSession, Inv, Others
    <3>. QED  BY <2>1, <3>1 DEF Apart
  <2>. QED  BY <2>1, <2>2, <2>4, <2>6, <2>7, <2>8, <2>9, PrivateInv DEF Local
<1>. QED  BY <1>1, <1>2

LEMMA LockLinksInv ==
    ASSUME Inv, NEW s \in Session, LockLinks(s)
    PROVE  Inv'
<1>1. /\ pc[s] = "lock" /\ pc' = [pc EXCEPT ![s] = "commit"]
      /\ UNCHANGED <<db, req, before, resolved, minted, doomed, late>>
  BY DEF LockLinks, Goto
<1>2. TypeOK' /\ \A o \in Others(s) : SameSession(o)
  BY <1>1 DEF Inv, TypeOK, db, Others, SameSession
<1>3. Local(s) /\ pc'[s] = "commit"
  BY <1>1 DEF Inv, TypeOK
<1>4. Reaches(s)'
  BY <1>1, <1>3 DEF Local, Reaches, Staging
<1>5. MintedKeys(s)' = MintedKeys(s) /\ TakenKeys' = TakenKeys
  BY <1>1 DEF MintedKeys, TakenKeys, Exists, db
<1>6. Mints(s)'
  BY <1>1, <1>3, <1>5 DEF Local, Mints, Staging, Holding, db
<1>7. Resolves(s)'
  BY <1>1, <1>3 DEF Local, Resolves, Staging, Asked, AskedKeys, Means, Exists, db
<1>8. Dooms(s)'
  BY <1>1, <1>3 DEF Local, Dooms, Holding, RowsOf, db
<1>9. \A o \in Others(s) : Apart(s, o)'
  <2>. SUFFICES ASSUME NEW o \in Others(s)
                PROVE  Apart(s, o)'
    OBVIOUS
  <2>1. HeldKeys(o)' = HeldKeys(o) /\ HeldKeys(s)' = HeldKeys(s) /\ Apart(s, o)
    BY <1>1, <1>2, <1>3, <1>5 DEF HeldKeys, MintedKeys, SameSession, Inv, Others
  <2>. QED  BY <1>1, <2>1 DEF Apart
<1>. QED  BY <1>1, <1>2, <1>4, <1>6, <1>7, <1>8, <1>9, PrivateInv DEF Local

-----------------------------------------------------------------------------
\* Steps that commit.

\* How a commit of s may change the tags: it inserts under keys that are not
\* held by o, or deletes.
TagsMove(s, o) ==
    \A i \in TagId :
        \/ tags'[i] = tags[i]
        \/ tags[i] = Unborn /\ i \in DOMAIN minted[s] /\ tags'[i] \in Name
             /\ Key[tags'[i]] \notin HeldKeys(o)
        \/ tags[i] # Unborn /\ tags'[i] = Deleted

LEMMA CommitFrame ==
    ASSUME Inv, NEW s \in Session, NEW o \in Others(s), NEW removed, NEW added,
           links' = (links \ removed) \cup added, TagsMove(s, o),
           pc'[o] = pc[o], req'[o] = req[o], resolved'[o] = resolved[o], minted'[o] = minted[o],
           doomed'[o] = doomed[o] \ removed,
           pc[o] \in {"lock", "commit", "drop"} => late'[o] = late[o] \cup added
    PROVE  Local(o)'
<1>1. o \in Session /\ o # s /\ Local(o) /\ DOMAIN minted[o] \cap DOMAIN minted[s] = {}
  BY DEF Inv, Others, Apart
<1>2. DOMAIN minted[o] \subseteq TagId
  BY <1>1 DEF Inv, TypeOK, Mintable
<1>3. Reaches(o)'
  BY <1>1 DEF Local, Reaches
<1>4. \A i \in TagId : /\ tags[i] # Unborn => tags'[i] # Unborn
                       /\ tags[i] # Unborn /\ Exists(i)' => tags'[i] = tags[i]
  BY NameAssumption, MarksDiffer DEF TagsMove, Exists
<1>5. Mints(o)'
  <2>1. \A i \in DOMAIN minted[o] : tags'[i] = Unborn
    BY <1>1, <1>2 DEF Local, Mints, TagsMove
  <2>2. pc[o] \in Holding => MintedKeys(o)' \cap TakenKeys' = {}
    <3>. SUFFICES ASSUME pc[o] \in Holding, NEW i \in TagId, Exists(i)', Key[tags'[i]] \in MintedKeys(o)
                  PROVE  FALSE
      BY DEF TakenKeys, MintedKeys
    <3>1. HeldKeys(o) = MintedKeys(o) /\ MintedKeys(o) \cap TakenKeys = {}
      BY <1>1 DEF HeldKeys, Holding, Local, Mints
    <3>2. tags'[i] = tags[i]
      BY <3>1, NameAssumption DEF TagsMove, Exists
    <3>. QED  BY <3>1, <3>2 DEF TakenKeys, Exists
  <2>. QED  BY <1>1, <2>1, <2>2 DEF Local, Mints
<1>6. Resolves(o)'
  <2>. SUFFICES ASSUME pc[o] \in Staging
                PROVE  /\ Asked(o)' \subseteq Name
                       /\ \A k \in AskedKeys(o)' : \E i \in resolved'[o] : Means(o, i, k)'
                       /\ \A i \in resolved'[o] : \E k \in AskedKeys(o)' : Means(o, i, k)'
    BY DEF Resolves
  <2>1. Asked(o)' = Asked(o) /\ AskedKeys(o)' = AskedKeys(o)
    BY DEF Asked, AskedKeys
  <2>2. ASSUME NEW i \in TagId, NEW k, Means(o, i, k)
        PROVE  Means(o, i, k)'
    BY <1>4, <2>2 DEF Means, Exists
  <2>3. resolved[o] \subseteq TagId
    BY <1>1 DEF Inv, TypeOK
  <2>. QED  BY <1>1, <2>1, <2>2, <2>3 DEF Local, Resolves
<1>7. Dooms(o)'
  <2>1. pc[o] \notin Holding => doomed'[o] = {}
    BY <1>1 DEF Local, Dooms
  <2>2. pc[o] \in Holding =>
          /\ \A row \in doomed'[o] : row[1] = req[o].task
          /\ RowsOf(req[o].task)' \subseteq doomed'[o] \cup late'[o]
    BY <1>1 DEF Local, Dooms, RowsOf, Holding
  <2>3. pc[o] \in {"count", "drop"} => tags'[req[o].tag] # Unborn
    <3>1. pc[o] \in {"count", "drop"} => req[o].tag \in TagId
      BY <1>1, RequestTyped DEF Inv, Local, Reaches
    <3>. QED  BY <1>1, <1>4, <3>1 DEF Local, Dooms
  <2>4. pc[o] = "drop" => HoldersOf(req[o].tag)' \subseteq late'[o]
    BY <1>1 DEF Local, Dooms, HoldersOf
  <2>. QED  BY <2>1, <2>2, <2>3, <2>4 DEF Dooms, RowsOf, HoldersOf
<1>. QED  BY <1>3, <1>5, <1>6, <1>7 DEF Local

LEMMA CommitInv ==
    ASSUME Inv, NEW s \in Session, NEW removed, NEW added, NEW events \in Seq(Event),
           Commit(s, removed, added, events), added \subseteq Task \X TagId,
           tasks' \in [Task -> {Unborn, Live, Deleted}],
           tags' \in [TagId -> Name \cup {Unborn, Deleted}],
           VocabularySound', \A o \in Others(s) : TagsMove(s, o)
    PROVE  Inv'
<1>. USE DEF Commit, Reset, Goto
<1>1. TypeOK'
  <2>1. outbox' \in Seq(Event)
    BY ConcatProperties DEF Inv, TypeOK
  <2>2. late' \in [Session -> SUBSET (Task \X TagId)] /\ doomed' \in [Session -> SUBSET (Task \X TagId)]
    BY DEF Inv, TypeOK
  <2>. QED  BY <2>1, <2>2, NoTagsTyped DEF Inv, TypeOK
<1>2. pc'[s] = "idle" /\ req'[s] = NoRequest /\ minted'[s] = NoTags /\ doomed'[s] = {}
  BY DEF Inv, TypeOK
<1>3. ASSUME NEW o \in Others(s)
      PROVE  /\ pc'[o] = pc[o] /\ req'[o] = req[o] /\ resolved'[o] = resolved[o]
             /\ minted'[o] = minted[o] /\ doomed'[o] = doomed[o] \ removed
             /\ pc[o] \in {"lock", "commit", "drop"} => late'[o] = late[o] \cup added
  BY DEF Inv, TypeOK, Others
<1>4. Local(s)'
  BY <1>2, NoTagsTyped DEF Local, Reaches, Mints, Resolves, Dooms, Staging, Holding
<1>5. \A o \in Others(s) : Local(o)'
  BY <1>3, CommitFrame
<1>6. ASSUME NEW o \in Session, NEW p \in Session, o # p
      PROVE  Apart(o, p)'
  <2>1. CASE o = s \/ p = s
    BY <1>2, <2>1, NoTagsTyped DEF Apart, HeldKeys
  <2>2. CASE o # s /\ p # s
    <3>1. MintedKeys(o)' = MintedKeys(o) /\ MintedKeys(p)' = MintedKeys(p)
      BY <1>3, <2>2 DEF MintedKeys, Others
    <3>2. HeldKeys(o)' = HeldKeys(o) /\ HeldKeys(p)' = HeldKeys(p)
      BY <1>3, <2>2, <3>1 DEF HeldKeys, Others
    <3>. QED  BY <1>3, <1>6, <2>2, <3>2 DEF Apart, Inv, Others
  <2>. QED  BY <2>1, <2>2
<1>. QED  BY <1>1, <1>4, <1>5, <1>6 DEF Inv, Others

\* The tags a replacement or an update inserts keep the keys apart.
LEMMA InsertedApart ==
    ASSUME Inv, NEW s \in Session, tags' = Inserted(s), MintedKeys(s) \cap TakenKeys = {}
    PROVE  /\ \A i, j \in TagId : Exists(i)' /\ Exists(j)' /\ Key[tags'[i]] = Key[tags'[j]] => i = j
           /\ \A i \in TagId : Exists(i) => Exists(i)' /\ tags'[i] = tags[i]
           /\ \A i \in DOMAIN minted[s] : Exists(i)'
<1>1. /\ \A i \in TagId : tags'[i] = IF i \in DOMAIN minted[s] THEN minted[s][i] ELSE tags[i]
      /\ DOMAIN minted[s] \subseteq TagId /\ \A i \in DOMAIN minted[s] : minted[s][i] \in Name
  BY InsertMinted DEF Inv
<1>2. Mints(s)
  BY DEF Inv, Local
<1>3. \A i \in TagId : Exists(i) => i \notin DOMAIN minted[s]
  BY <1>2, NameAssumption DEF Mints, Exists
<1>4. ASSUME NEW i \in TagId, NEW j \in TagId, Exists(i)', Exists(j)', Key[tags'[i]] = Key[tags'[j]]
      PROVE  i = j
  <2>1. CASE i \in DOMAIN minted[s] /\ j \in DOMAIN minted[s]
    BY <1>1, <1>2, <1>4, <2>1 DEF Mints
  <2>2. CASE i \notin DOMAIN minted[s] /\ j \notin DOMAIN minted[s]
    BY <1>1, <1>4, <2>2 DEF Inv, VocabularySound, Exists
  <2>3. ASSUME NEW m \in DOMAIN minted[s], NEW n \in TagId, Exists(n), Key[minted[s][m]] = Key[tags[n]]
        PROVE  FALSE
    BY <2>3 DEF MintedKeys, TakenKeys
  <2>. QED  BY <1>1, <1>4, <2>1, <2>2, <2>3 DEF Exists
<1>. QED  BY <1>1, <1>3, <1>4 DEF Exists

LEMMA CommitTagsInv ==
    ASSUME Inv, NEW s \in Session, CommitTags(s)
    PROVE  Inv'
<1>1. CASE Refuse(s)
  BY <1>1, RefuseInv
<1>2. CASE ~Refuse(s)
  <2>. DEFINE t     == req[s].task
              added == {<<t, i>> : i \in resolved[s]}
  <2>1. /\ pc[s] = "commit"
        /\ tasks' = [tasks EXCEPT ![t] = IF req[s].kind = "create" THEN Live ELSE @]
        /\ tags' = Inserted(s)
        /\ Commit(s, doomed[s], added, TagEvents(s))
        /\ req[s].kind = "update" /\ added # {} => tasks[t] = Live
        /\ \A i \in resolved[s] \ DOMAIN minted[s] : Exists(i)
    BY <1>2 DEF CommitTags
  <2>2. Local(s) /\ t \in Task /\ req[s].kind \in {"create", "update"} /\ req[s].names \in Names
    BY <2>1, RequestTyped DEF Inv, Local, Reaches, Staging
  <2>3. added \subseteq Task \X TagId
    BY <2>2 DEF Inv, TypeOK
  <2>4. TagEvents(s) \in Seq(Event)
    <3>1. Asked(s) \subseteq Name /\ before[s] \subseteq Name
      BY <2>1, <2>2 DEF Local, Resolves, Staging, Inv, TypeOK
    <3>2. TagsChanged(s) \in Event
      BY <2>2, <3>1 DEF TagsChanged, Event
    <3>. QED  BY <3>2 DEF TagEvents
  <2>5. MintedKeys(s) \cap TakenKeys = {} /\ HeldKeys(s) = MintedKeys(s)
    BY <2>1, <2>2 DEF Local, Mints, Holding, HeldKeys
  <2>6. VocabularySound'
    <3>1. ASSUME NEW row \in links'
          PROVE  tasks'[row[1]] = Live /\ Exists(row[2])'
      <4>1. CASE row \in links
        <5>1. row[1] \in Task /\ row[2] \in TagId /\ tasks[row[1]] = Live /\ Exists(row[2])
          BY <4>1 DEF Inv, TypeOK, VocabularySound
        <5>. QED  BY <2>1, <2>5, <5>1, InsertedApart DEF Inv, TypeOK
      <4>2. CASE row \in added
        <5>1. PICK i \in resolved[s] : row = <<t, i>>
          BY <4>2
        <5>2. i \in TagId /\ tasks'[t] = Live
          BY <2>1, <2>2, <4>2 DEF Inv, TypeOK
        <5>. QED  BY <2>1, <2>5, <5>1, <5>2, InsertedApart
      <4>. QED  BY <2>1, <4>1, <4>2 DEF Commit
    <3>. QED  BY <2>1, <2>5, <3>1, InsertedApart DEF VocabularySound
  <2>7. ASSUME NEW o \in Others(s)
        PROVE  TagsMove(s, o)
    <3>1. HeldKeys(s) \cap HeldKeys(o) = {}
      BY DEF Inv, Apart, Others
    <3>2. Mints(s)
      BY <2>2 DEF Local
    <3>. QED  BY <2>1, <2>5, <3>1, <3>2, InsertMinted DEF TagsMove, MintedKeys, Mints, Inv
  <2>8. /\ tasks' \in [Task -> {Unborn, Live, Deleted}]
        /\ tags' \in [TagId -> Name \cup {Unborn, Deleted}]
    BY <2>1, InsertMinted DEF Inv, TypeOK
  <2>. QED  BY <2>1, <2>3, <2>4, <2>6, <2>7, <2>8, CommitInv
<1>. QED  BY <1>1, <1>2

LEMMA CommitKeptInv ==
    ASSUME Inv, NEW s \in Session, CommitKept(s)
    PROVE  Inv'
<1>1. CASE Refuse(s)
  BY <1>1, RefuseInv
<1>2. CASE ~Refuse(s)
  <2>1. /\ \A o \in Others(s) : HeldKeys(o) \cap MintedKeys(s) = {}
        /\ MintedKeys(s) \cap TakenKeys = {}
        /\ tags' = Inserted(s) /\ UNCHANGED tasks /\ Commit(s, {}, {}, << >>)
    BY <1>2 DEF CommitKept
  <2>2. links' = links
    BY <2>1 DEF Commit
  <2>3. VocabularySound'
    <3>1. \A row \in links : row[2] \in TagId /\ tasks[row[1]] = Live /\ Exists(row[2])
      BY DEF Inv, TypeOK, VocabularySound
    <3>. QED  BY <2>1, <2>2, <3>1, InsertedApart DEF VocabularySound
  <2>4. ASSUME NEW o \in Others(s)
        PROVE  TagsMove(s, o)
    <3>1. Mints(s)
      BY DEF Inv, Local
    <3>. QED  BY <2>1, <3>1, InsertMinted DEF TagsMove, MintedKeys, Mints, Inv
  <2>5. tags' \in [TagId -> Name \cup {Unborn, Deleted}] /\ << >> \in Seq(Event)
    BY <2>1, InsertMinted DEF Inv
  <2>. QED  BY <2>1, <2>3, <2>4, <2>5, CommitInv DEF Inv, TypeOK
<1>. QED  BY <1>1, <1>2

LEMMA CommitDeleteInv ==
    ASSUME Inv, NEW s \in Session, CommitDelete(s)
    PROVE  Inv'
<1>. DEFINE t == req[s].task
<1>1. /\ pc[s] = "erase" /\ tasks' = [tasks EXCEPT ![t] = Deleted] /\ UNCHANGED tags
      /\ Commit(s, RowsOf(t), {}, << >>)
  BY DEF CommitDelete
<1>2. links' = links \ RowsOf(t)
  BY <1>1 DEF Commit
<1>3. VocabularySound'
  BY <1>1, <1>2 DEF Inv, TypeOK, VocabularySound, Exists, RowsOf
<1>4. \A o \in Others(s) : TagsMove(s, o)
  BY <1>1 DEF TagsMove
<1>5. tasks' \in [Task -> {Unborn, Live, Deleted}]
  BY <1>1 DEF Inv, TypeOK
<1>6. tags' \in [TagId -> Name \cup {Unborn, Deleted}]
  BY <1>1 DEF Inv, TypeOK
<1>7. << >> \in Seq(Event) /\ {} \subseteq Task \X TagId
  OBVIOUS
<1>8. \E removed, added : Commit(s, removed, added, << >>) /\ added \subseteq Task \X TagId
  BY <1>1, <1>7
<1>. QED  BY <1>3, <1>4, <1>5, <1>6, <1>7, <1>8, CommitInv

LEMMA RemoveTagInv ==
    ASSUME Inv, NEW s \in Session, RemoveTag(s)
    PROVE  Inv'
<1>. DEFINE i == req[s].tag
<1>1. /\ pc[s] = "drop" /\ tags' = [tags EXCEPT ![i] = Deleted] /\ UNCHANGED tasks
      /\ Commit(s, HoldersOf(i), {}, <<TagDeleted(i)>>)
  BY DEF RemoveTag
<1>2. i \in TagId /\ tags[i] # Unborn
  BY <1>1, RequestTyped DEF Inv, Local, Reaches, Dooms
<1>3. links' = links \ HoldersOf(i)
  BY <1>1 DEF Commit
<1>4. tags'[i] = Deleted /\ \A j \in TagId \ {i} : tags'[j] = tags[j]
  BY <1>1, <1>2 DEF Inv, TypeOK
<1>5. VocabularySound'
  <2>1. \A j \in TagId : Exists(j)' => Exists(j) /\ tags'[j] = tags[j]
    BY <1>4, NameAssumption DEF Exists
  <2>2. \A row \in links' : row[2] \in TagId \ {i} /\ row \in links
    BY <1>3 DEF HoldersOf, Inv, TypeOK
  <2>. QED  BY <1>1, <1>4, <2>1, <2>2 DEF Inv, VocabularySound, Exists
<1>6. \A o \in Others(s) : TagsMove(s, o)
  BY <1>2, <1>4 DEF TagsMove
<1>7. <<TagDeleted(i)>> \in Seq(Event)
  BY <1>2 DEF TagDeleted, Event
<1>8. /\ tasks' \in [Task -> {Unborn, Live, Deleted}]
      /\ tags' \in [TagId -> Name \cup {Unborn, Deleted}]
  BY <1>1 DEF Inv, TypeOK
<1>9. {} \subseteq Task \X TagId
  OBVIOUS
<1>10. \E removed, added : Commit(s, removed, added, <<TagDeleted(i)>>) /\ added \subseteq Task \X TagId
  BY <1>1, <1>9
<1>. HIDE DEF i
<1>. QED  BY <1>5, <1>6, <1>7, <1>8, <1>9, <1>10, CommitInv

LEMMA StepInv == Inv /\ [Next]_vars => Inv'
<1>. SUFFICES ASSUME Inv, [Next]_vars
              PROVE  Inv'
  OBVIOUS
<1>1. CASE UNCHANGED vars
  <2>1. TypeOK'
    BY <1>1 DEF vars, Inv, TypeOK
  <2>2. VocabularySound'
    BY <1>1 DEF vars, Inv, VocabularySound, Exists
  <2>3. ASSUME NEW s \in Session
        PROVE  Local(s)'
    BY <1>1, LocalFrame DEF vars, Inv, db, SameSession
  <2>4. ASSUME NEW s \in Session, NEW o \in Session, s # o
        PROVE  Apart(s, o)'
    BY <1>1, <2>4 DEF vars, Inv, Apart, HeldKeys, MintedKeys
  <2>. QED  BY <2>1, <2>2, <2>3, <2>4 DEF Inv
<1>2. ASSUME NEW s \in Session, ListTags(s) \/ Abort(s)
      PROVE  Inv'
  BY <1>2, RefuseInv DEF ListTags, Abort
<1>. QED  BY <1>1, <1>2, ReceiveInv, ReadTaskInv, ReadNamesInv, ResolveInv, ClearLinksInv,
             LockLinksInv, CommitTagsInv, CommitKeptInv, CommitDeleteInv, ReadTagInv,
             RemoveTagInv DEF Next

-----------------------------------------------------------------------------
(***************************************************************************)
(* The invariants the runs check hold in every reachable state.            *)
(***************************************************************************)

\* The inductive invariant holds.
THEOREM InvHolds == Spec => []Inv
<1>. QED  BY InitInv, StepInv, PTL DEF Spec

\* Every variable has its type: in particular a session reads names of tags
\* and never a hole (repository.py names_for_tasks).
THEOREM TypeCorrect == Spec => []TypeOK
<1>1. Inv => TypeOK
  BY DEF Inv
<1>. QED  BY <1>1, InvHolds, PTL

\* A key names one tag and a link joins a live task to an existing tag,
\* however mints, replacements, deletions and cascades interleave.
THEOREM VocabularyStaysSound == Spec => []VocabularySound
<1>1. Inv => VocabularySound
  BY DEF Inv
<1>. QED  BY <1>1, InvHolds, PTL

-----------------------------------------------------------------------------
(***************************************************************************)
(* What one committing step does: the action properties.                   *)
(***************************************************************************)

Step(s) ==
    \/ \E r \in Requests : Receive(s, r)
    \/ ReadTask(s) \/ ReadNames(s) \/ Resolve(s) \/ ClearLinks(s) \/ LockLinks(s)
    \/ CommitTags(s) \/ CommitKept(s) \/ CommitDelete(s)
    \/ ReadTag(s) \/ CountTasks(s) \/ RemoveTag(s) \/ ListTags(s)
    \/ Abort(s)

\* The steps that write a table are unrefused commits.
Commits(s) ==
    /\ CommitTags(s) \/ CommitKept(s) \/ CommitDelete(s) \/ RemoveTag(s)
    /\ ~Refuse(s)

\* A step moves the pc of its own session only.
LEMMA OthersStay ==
    ASSUME TypeOK, NEW s \in Session, Step(s), NEW o \in Others(s)
    PROVE  pc'[o] = pc[o]
<1>1. Refuse(s) => pc'[o] = pc[o]
  BY DEF Refuse, Reset, Goto, TypeOK, Others
<1>2. (\E r \in Requests : Receive(s, r)) => pc'[o] = pc[o]
  BY DEF Receive, Goto, TypeOK, Others
<1>3. ReadTask(s) \/ ReadNames(s) => pc'[o] = pc[o]
  BY <1>1 DEF ReadTask, ReadNames, Goto, TypeOK, Others
<1>4. Resolve(s) => pc'[o] = pc[o]
  BY <1>1 DEF Resolve, Goto, TypeOK, Others
<1>5. ClearLinks(s) \/ LockLinks(s) => pc'[o] = pc[o]
  BY <1>1 DEF ClearLinks, LockLinks, Goto, TypeOK, Others
<1>6. ReadTag(s) \/ CountTasks(s) => pc'[o] = pc[o]
  BY <1>1 DEF ReadTag, CountTasks, Goto, TypeOK, Others
<1>7. CommitTags(s) \/ CommitKept(s) \/ CommitDelete(s) \/ RemoveTag(s) => pc'[o] = pc[o]
  BY <1>1 DEF CommitTags, CommitKept, CommitDelete, RemoveTag, Commit, Reset, Goto, TypeOK, Others
<1>8. ListTags(s) \/ Abort(s) => pc'[o] = pc[o]
  BY <1>1 DEF ListTags, Abort
<1>. QED  BY <1>2, <1>3, <1>4, <1>5, <1>6, <1>7, <1>8 DEF Step

\* A step that is no commit leaves the tables alone.
LEMMA OnlyCommitsWrite ==
    ASSUME NEW s \in Session, Step(s)
    PROVE  UNCHANGED db \/ Commits(s)
<1>1. Refuse(s) => UNCHANGED db
  BY DEF Refuse
<1>2. ASSUME ~Refuse(s), ~(CommitTags(s) \/ CommitKept(s) \/ CommitDelete(s) \/ RemoveTag(s))
      PROVE  UNCHANGED db
  BY <1>2 DEF Step, Receive, ReadTask, ReadNames, Resolve, ClearLinks, LockLinks, ReadTag,
              CountTasks, ListTags, Abort
<1>. QED  BY <1>1, <1>2 DEF Commits

\* The committer of a step that changes the links or the outbox.
LEMMA Committer ==
    ASSUME [Next]_vars, (links' # links) \/ (outbox' # outbox)
    PROVE  \E s \in Session : Step(s) /\ Commits(s)
<1>1. \E s \in Session : Step(s)
  BY DEF Next, Step, vars
<1>. QED  BY <1>1, OnlyCommitsWrite DEF db

\* A session that ends with the outbox moved made the step.
LEMMA CommitterEnds ==
    ASSUME TypeOK, [Next]_vars, outbox' # outbox, NEW s \in Session,
           pc[s] # "idle", pc'[s] = "idle"
    PROVE  Commits(s)
<1>1. PICK a \in Session : Step(a) /\ Commits(a)
  BY Committer
<1>2. a = s
  BY <1>1, OthersStay DEF Others
<1>. QED  BY <1>1, <1>2

\* A committed replacement, in full.
LEMMA Replacement ==
    ASSUME NEW s \in Session, pc[s] = "commit", Commits(s)
    PROVE  /\ links' = (links \ doomed[s]) \cup {<<req[s].task, i>> : i \in resolved[s]}
           /\ tags' = Inserted(s) /\ outbox' = outbox \o TagEvents(s)
           /\ \A i \in resolved[s] \ DOMAIN minted[s] : Exists(i)
<1>1. CommitTags(s) /\ ~Refuse(s)
  BY DEF Commits, CommitKept, CommitDelete, RemoveTag
<1>. QED  BY <1>1 DEF CommitTags, Commit

\* A committed deletion of a tag.
LEMMA Removal ==
    ASSUME NEW s \in Session, pc[s] = "drop", Commits(s)
    PROVE  /\ links' = links \ HoldersOf(req[s].tag)
           /\ outbox' = outbox \o <<TagDeleted(req[s].tag)>>
  BY DEF Commits, CommitTags, CommitKept, CommitDelete, RemoveTag, Commit

\* The event a commit stages is the new last of the outbox.
LEMMA Told ==
    ASSUME TypeOK, NEW e, outbox' = outbox \o <<e>>
    PROVE  \E i \in DOMAIN outbox' \ DOMAIN outbox : outbox'[i] = e
<1>1. outbox \in Seq(Event \cup {e}) /\ <<e>> \in Seq(Event \cup {e})
  BY DEF TypeOK
<1>2. /\ Len(outbox') = Len(outbox) + 1 /\ outbox'[Len(outbox) + 1] = e
      /\ DOMAIN outbox = 1 .. Len(outbox) /\ DOMAIN outbox' = 1 .. Len(outbox')
      /\ Len(outbox) \in Nat
  BY <1>1, ConcatProperties
<1>. QED  BY <1>2

\* A replacement gives its task every tag asked for, and of the others leaves
\* only those that were linked after its DELETE had begun (set_for_task).
THEOREM ReplacementsBounded == Spec => ReplacementBounded
<1>1. ASSUME Inv, [Next]_vars, NEW s \in Session, NEW t \in Task, Replaces(s, t)
      PROVE  /\ AskedKeys(s) \subseteq KeysOf(t)'
             /\ \A row \in RowsOf(t)' : Key[tags'[row[2]]] \in AskedKeys(s) \/ row \in late[s]
  <2>1. pc[s] = "commit" /\ req[s].task = t /\ Commits(s)
    BY <1>1, CommitterEnds DEF Replaces, Inv
  <2>2. /\ links' = (links \ doomed[s]) \cup {<<t, i>> : i \in resolved[s]}
        /\ tags' = Inserted(s)
        /\ \A i \in resolved[s] \ DOMAIN minted[s] : Exists(i)
    BY <2>1, Replacement
  <2>3. /\ \A k \in AskedKeys(s) : \E i \in resolved[s] : Means(s, i, k)
        /\ \A i \in resolved[s] : \E k \in AskedKeys(s) : Means(s, i, k)
        /\ RowsOf(t) \subseteq doomed[s] \cup late[s]
    BY <1>1, <2>1 DEF Inv, Local, Resolves, Dooms, Staging, Holding
  <2>4. ASSUME NEW i \in resolved[s], NEW k, Means(s, i, k)
        PROVE  Key[tags'[i]] = k
    <3>1. i \in TagId /\ tags'[i] = IF i \in DOMAIN minted[s] THEN minted[s][i] ELSE tags[i]
      BY <1>1, <2>2, InsertMinted DEF Inv, TypeOK
    <3>. QED  BY <2>2, <2>4, <3>1 DEF Means
  <2>5. ASSUME NEW k \in AskedKeys(s)
        PROVE  k \in KeysOf(t)'
    <3>1. PICK i \in resolved[s] : Means(s, i, k)
      BY <2>3
    <3>2. <<t, i>> \in RowsOf(t)' /\ Key[tags'[i]] = k
      BY <2>2, <2>4, <3>1 DEF RowsOf
    <3>. QED  BY <3>2 DEF KeysOf
  <2>6. ASSUME NEW row \in RowsOf(t)'
        PROVE  Key[tags'[row[2]]] \in AskedKeys(s) \/ row \in late[s]
    <3>1. CASE row \in links \ doomed[s]
      BY <2>3, <2>6, <3>1 DEF RowsOf
    <3>2. ASSUME NEW i \in resolved[s], row = <<t, i>>
          PROVE  Key[tags'[row[2]]] \in AskedKeys(s)
      BY <2>3, <2>4, <3>2
    <3>. QED  BY <2>2, <3>1, <3>2 DEF RowsOf
  <2>. QED  BY <2>5, <2>6
<1>2. Inv /\ [Next]_vars =>
        \A s \in Session, t \in Task : Replaces(s, t) =>
          /\ AskedKeys(s) \subseteq KeysOf(t)'
          /\ \A row \in RowsOf(t)' : Key[tags'[row[2]]] \in AskedKeys(s) \/ row \in late[s]
  BY <1>1
<1>. QED  BY <1>2, InvHolds, PTL DEF Spec, ReplacementBounded

\* Deleting a tag takes from tasks only the links that were committed after
\* the delete had counted the tag's tasks (TagService.delete).
THEOREM DeletionsBounded == Spec => DeletionBounded
<1>1. ASSUME Inv, [Next]_vars, NEW s \in Session, Drops(s)
      PROVE  links \ links' \subseteq late[s]
  <2>1. Commits(s)
    BY <1>1, CommitterEnds DEF Inv, Drops
  <2>2. links' = links \ HoldersOf(req[s].tag)
    BY <1>1, <2>1, Removal DEF Drops
  <2>. QED  BY <1>1, <2>2 DEF Inv, Local, Dooms, Drops
<1>2. Inv /\ [Next]_vars =>
        \A s \in Session : Drops(s) => links \ links' \subseteq late[s]
  BY <1>1
<1>. QED  BY <1>2, InvHolds, PTL DEF Spec, DeletionBounded

\* A living task's tags move only in a commit that stages TaskTagsChanged
\* about it, or in the deletion of a tag it had (_stage_tags, TagDeleted).
THEOREM ChangesAreTold == Spec => ChangesTold
<1>. DEFINE ToldOf(t) ==
       \E i \in DOMAIN outbox' \ DOMAIN outbox :
          \/ outbox'[i].type = "TaskTagsChanged" /\ outbox'[i].task = t
          \/ outbox'[i].type = "TagDeleted" /\ <<t, outbox'[i].tag>> \in links
<1>1. ASSUME Inv, [Next]_vars, NEW t \in Task, tasks'[t] = Live, RowsOf(t)' # RowsOf(t)
      PROVE  ToldOf(t)
  <2>1. PICK s \in Session : Step(s) /\ Commits(s)
    BY <1>1, Committer DEF RowsOf
  <2>2. CASE pc[s] = "commit"
    <3>1. /\ links' = (links \ doomed[s]) \cup {<<req[s].task, i>> : i \in resolved[s]}
          /\ outbox' = outbox \o <<TagsChanged(s)>>
      BY <2>1, <2>2, Replacement DEF TagEvents
    <3>2. \A row \in doomed[s] : row[1] = req[s].task
      BY <1>1, <2>2 DEF Inv, Local, Dooms, Holding
    <3>3. req[s].task = t
      BY <1>1, <3>1, <3>2 DEF RowsOf
    <3>4. PICK i \in DOMAIN outbox' \ DOMAIN outbox : outbox'[i] = TagsChanged(s)
      BY <1>1, <3>1, Told DEF Inv
    <3>. QED  BY <3>3, <3>4 DEF TagsChanged
  <2>3. CASE pc[s] = "keep"
    BY <1>1, <2>1, <2>3 DEF Commits, CommitTags, CommitKept, CommitDelete, RemoveTag, Commit, RowsOf
  <2>4. CASE pc[s] = "erase"
    <3>1. /\ links' = links \ RowsOf(req[s].task)
          /\ tasks' = [tasks EXCEPT ![req[s].task] = Deleted]
      BY <2>1, <2>4 DEF Commits, CommitTags, CommitKept, CommitDelete, RemoveTag, Commit
    <3>2. req[s].task = t
      BY <1>1, <3>1 DEF RowsOf
    <3>. QED  BY <1>1, <3>1, <3>2, MarksDiffer DEF Inv, TypeOK
  <2>5. CASE pc[s] = "drop"
    <3>1. /\ links' = links \ HoldersOf(req[s].tag)
          /\ outbox' = outbox \o <<TagDeleted(req[s].tag)>>
      BY <2>1, <2>5, Removal
    <3>2. <<t, req[s].tag>> \in links
      <4>1. PICK row \in links : row[1] = t /\ row[2] = req[s].tag
        BY <1>1, <3>1 DEF RowsOf, HoldersOf
      <4>2. row = <<row[1], row[2]>>
        BY <1>1, <4>1 DEF Inv, TypeOK
      <4>. QED  BY <4>1, <4>2
    <3>3. PICK i \in DOMAIN outbox' \ DOMAIN outbox : outbox'[i] = TagDeleted(req[s].tag)
      BY <1>1, <3>1, Told DEF Inv
    <3>. QED  BY <3>2, <3>3 DEF TagDeleted
  <2>. QED
    BY <2>1, <2>2, <2>3, <2>4, <2>5 DEF Commits, CommitTags, CommitKept, CommitDelete, RemoveTag
<1>2. Inv /\ [Next]_vars =>
        \A t \in Task : tasks'[t] = Live /\ RowsOf(t)' # RowsOf(t) => ToldOf(t)
  BY <1>1
<1>. QED  BY <1>2, InvHolds, PTL DEF Spec, ChangesTold
=============================================================================
