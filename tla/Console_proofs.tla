--------------------------- MODULE Console_proofs ----------------------------
(***************************************************************************)
(* What the console's readers are shown, for every value of the constants. *)
(*                                                                         *)
(* Each group of endpoints is proved as a system of its own, with an       *)
(* inductive invariant of its own, and GroupsAlone carries the result over *)
(* to ConsoleSpec: a step of the console is a step of one group and leaves *)
(* the variables of the others as they were.  The sections:                *)
(*                                                                         *)
(*   PortalRuns     the listing of the run files, newest first, and what a *)
(*                  reader saw of the directory before it                  *)
(*   EdgeStatus     what a watcher counted of a queue that goes on         *)
(*   Registry       the share of time a unit was up, from the sum of its   *)
(*                  downtimes                                              *)
(*   Outcomes       which sections of a report failed, query by query; the *)
(*                  sums over the rows it counts, within a window that     *)
(*                  stands; the early-warning score, term by term          *)
(*   HandoffReads   a row and its last attempt, the gauges over the rows,  *)
(*                  the pages of a history                                 *)
(*   Console        the theorems                                           *)
(*                                                                         *)
(* The documents' group is in Documents_proofs.                            *)
(***************************************************************************)
EXTENDS Console, Handoff_proofs, Documents_proofs

-----------------------------------------------------------------------------
(***************************************************************************)
(* The run files and the repair plans (PortalRuns).                        *)
(***************************************************************************)

\* A finite set whose elements have each a rank of their own can be listed
\* from the highest rank down.
Listing(S, rank, s) ==
  /\ s \in [1..Cardinality(S) -> S]
  /\ \A x \in S : \E i \in 1..Cardinality(S) : s[i] = x
  /\ \A i, j \in 1..Cardinality(S) : i < j => rank[s[i]] > rank[s[j]]

\* A set of n elements has a listing if every one of fewer elements has.
LEMMA ListingAtLength ==
  ASSUME NEW rank, NEW n \in Nat, NEW S, IsFiniteSet(S), Cardinality(S) = n + 1,
         \A x \in S : rank[x] \in Nat,
         \A x, y \in S : rank[x] = rank[y] => x = y,
         \A T : IsFiniteSet(T) /\ T \subseteq S /\ Cardinality(T) = n => \E t : Listing(T, rank, t)
  PROVE  \E s : Listing(S, rank, s)
<1>1. PICK x \in S : \A y \in S : rank[x] <= rank[y]
  <2> DEFINE R == {rank[y] : y \in S}
  <2>1. R \in SUBSET Nat
    OBVIOUS
  <2>2. R # {}
    BY FS_EmptySet
  <2>3. PICK k \in R : \A m \in R : k <= m
    BY <2>1, <2>2, LeastOf
  <2> QED
    BY <2>3
<1>2. IsFiniteSet(S \ {x}) /\ Cardinality(S \ {x}) = n
  BY FS_RemoveElement
<1>3. PICK t : Listing(S \ {x}, rank, t)
  BY <1>2
<1> DEFINE s == [i \in 1..(n + 1) |-> IF i = n + 1 THEN x ELSE t[i]]
<1>4. /\ t \in [1..n -> S \ {x}]
      /\ \A y \in S \ {x} : \E i \in 1..n : t[i] = y
      /\ \A i, j \in 1..n : i < j => rank[t[i]] > rank[t[j]]
  BY <1>2, <1>3 DEF Listing
<1>5. s \in [1..(n + 1) -> S]
  BY <1>4
<1>6. \A y \in S : \E i \in 1..(n + 1) : s[i] = y
  BY <1>4
<1>7. ASSUME NEW i \in 1..(n + 1), NEW j \in 1..(n + 1), i < j PROVE rank[s[i]] > rank[s[j]]
  <2>1. i \in 1..n /\ s[i] = t[i] /\ t[i] \in S \ {x}
    BY <1>4, <1>7
  <2>2. CASE j = n + 1
    <3>1. s[j] = x /\ rank[x] <= rank[t[i]] /\ rank[x] # rank[t[i]]
      BY <1>1, <2>1, <2>2
    <3> QED
      BY <2>1, <3>1
  <2>3. CASE j # n + 1
    <3>1. j \in 1..n /\ s[j] = t[j]
      BY <2>3
    <3> QED
      BY <1>4, <1>7, <2>1, <3>1
  <2> QED
    BY <2>2, <2>3
<1> HIDE DEF s
<1>8. Listing(S, rank, s)
  BY <1>5, <1>6, <1>7 DEF Listing
<1> QED
  BY <1>8

\* Every finite set that is ranked has a listing.
LEMMA ListingExists ==
  ASSUME NEW rank, NEW S, IsFiniteSet(S),
         \A x \in S : rank[x] \in Nat,
         \A x, y \in S : rank[x] = rank[y] => x = y
  PROVE  \E s : Listing(S, rank, s)
<1> DEFINE Bad == {n \in Nat : \E T \in SUBSET S : /\ IsFiniteSet(T) /\ Cardinality(T) = n
                                                   /\ ~\E t : Listing(T, rank, t)}
<1>1. Bad = {}
  <2> SUFFICES ASSUME Bad # {} PROVE FALSE
    OBVIOUS
  <2>1. PICK n \in Bad : \A m \in Bad : n <= m
    <3>1. Bad \in SUBSET Nat
      OBVIOUS
    <3> QED
      BY <3>1, LeastOf
  <2>2. PICK T \in SUBSET S : /\ IsFiniteSet(T) /\ Cardinality(T) = n
                              /\ ~\E t : Listing(T, rank, t)
    BY <2>1
  <2>3. CASE n = 0
    <3>1. T = {}
      BY <2>2, <2>3, FS_EmptySet
    <3>2. Cardinality(T) = 0
      BY <2>2, <2>3
    <3>3. Listing(T, rank, [i \in 1..0 |-> 0])
      BY <3>1, <3>2 DEF Listing
    <3> QED
      BY <2>2, <3>3
  <2>4. CASE n # 0
    <3> DEFINE k == n - 1
    <3>1. k \in Nat /\ n = k + 1 /\ k \notin Bad
      BY <2>1, <2>4
    <3>2. \A U : IsFiniteSet(U) /\ U \subseteq T /\ Cardinality(U) = k => \E t : Listing(U, rank, t)
      BY <3>1
    <3>3. (\A x \in T : rank[x] \in Nat) /\ (\A x, y \in T : rank[x] = rank[y] => x = y)
      BY <2>2
    <3> HIDE DEF k
    <3> QED
      BY <2>2, <3>1, <3>2, <3>3, ListingAtLength
  <2> QED
    BY <2>3, <2>4
<1>2. Cardinality(S) \in Nat
  BY FS_CardinalityType
<1> QED
  BY <1>1, <1>2

-----------------------------------------------------------------------------
Summary == [content : {"none", "partial", "whole"}, mtime : Nat, plan : BOOLEAN]

Caller == {NobodyHere} \cup {ResolveIdentity(request) : request \in Requests}

Place == {"idle", "scan", "plan", "parts", "done"}

Question == {"none", "recent", "latest", "details"}

Argument == Run \cup {AssetOf[r] : r \in Run} \cup {None}

Code == {0, 200, 403, 404, 422}

OnPage == {"nothing", "its id", "no parts", "all of it", "load error"}

Directory == [Run -> Summary]

Paths == Seq(Run)

Limit == Int

ReaderState ==
  [pc : Place, what : Question, arg : Argument, who : Caller, limit : Limit, todo : Paths,
   seen : Paths, answer : Code, before : Directory, shown : OnPage]

PortalTyped ==
  /\ files \in [Run -> Summary] /\ plans \in SUBSET Run /\ deleted \in SUBSET Run
  /\ clock \in Nat /\ reader \in [Reader -> ReaderState]

\* The directory: a plan that a summary names was stored, and no two files
\* were written at the same time.
FilesInv ==
  /\ IsFiniteSet({r \in Run : files[r].content # "none"})
  /\ \A r \in Run : files[r].mtime <= clock /\ (files[r].plan => WasStored(r))
  /\ \A r, s \in Run : /\ files[r].content # "none" /\ files[s].content # "none"
                       /\ files[r].mtime = files[s].mtime
                       => r = s

\* The newest first: as the files were when the request came.
NewestFirst(v) ==
  \A i, j \in 1..Len(v.todo) :
    i < j => v.before[v.todo[i]].mtime > v.before[v.todo[j]].mtime

\* The runs that request v could have been shown when it came.
Showable(v, r) ==
  /\ v.before[r].content = "whole" /\ AssetOf[r] = v.arg
  /\ IdentityMatchesScope(v.who, OrgOf[r], None)

\* What the page a request v is given may say of the plan it names, when
\* those in d are deleted.
PlanTold(v, shown, d) ==
  v.before[v.arg].plan => shown \in {"all of it", "load error"} \/ v.arg \in d

\* The run shown first is the newest of those v could have been shown.
NewestShown(v, seen) ==
  \A r \in Run : Showable(v, r) => v.before[r].mtime <= v.before[seen[1]].mtime

\* What request v has read, against directory f and deleted plans d.  A file
\* that was whole stays so, and names what it named.
ReaderInv(v, f, d) ==
  /\ \A r \in Run : v.before[r].content = "whole" => f[r].content = "whole"
  /\ \A r \in Run : v.before[r].plan => f[r].plan
  /\ v.pc = "scan" /\ v.what = "latest" =>
       /\ v.seen = <<>> /\ v.limit = 1 /\ NewestFirst(v)
       /\ \A r \in Run : Showable(v, r) => \E i \in 1..Len(v.todo) : v.todo[i] = r
  /\ v.pc = "done" /\ v.what = "latest" /\ v.answer = 200 => NewestShown(v, v.seen)
  /\ v.what = "details" => v.arg \in Run
  /\ v.pc \in {"plan", "parts"} => v.what = "details"
  /\ v.pc = "done" /\ v.what = "details" /\ v.answer = 200 => PlanTold(v, v.shown, d)

PortalInv ==
  PortalTyped /\ FilesInv /\ \A q \in Reader : ReaderInv(reader[q], files, deleted)

\* The first state.
LEMMA PortalInitially == PortalInit => PortalInv
<1> SUFFICES ASSUME PortalInit PROVE PortalInv
  OBVIOUS
<1>1. NoFile \in Summary /\ NoFile.content = "none" /\ NoFile.mtime = 0 /\ NoFile.plan = FALSE
  BY DEF NoFile, Summary
<1>2. /\ NewReader \in ReaderState /\ NewReader.pc = "idle" /\ NewReader.what = "none"
      /\ NewReader.before = [r \in Run |-> NoFile]
  BY <1>1 DEF NewReader, ReaderState, Caller, Place, Question, Argument, Code, Directory, Paths,
         Limit, OnPage
<1>3. PortalTyped
  BY <1>1, <1>2 DEF PortalInit, PortalTyped
<1>4. FilesInv
  <2>1. {r \in Run : files[r].content # "none"} = {}
    BY <1>1 DEF PortalInit
  <2> QED
    BY <1>1, <2>1, FS_EmptySet DEF PortalInit, FilesInv
<1>5. \A q \in Reader : ReaderInv(reader[q], files, deleted)
  BY <1>1, <1>2 DEF PortalInit, ReaderInv
<1> QED
  BY <1>3, <1>4, <1>5 DEF PortalInv

\* The listing of the directory is complete, and newest first.
LEMMA DirectoryListed ==
  ASSUME files \in [Run -> Summary], FilesInv
  PROVE  /\ ListRunFiles \in Seq(Run)
         /\ \A r \in Run : files[r].content # "none" =>
              \E i \in 1..Len(ListRunFiles) : ListRunFiles[i] = r
         /\ \A i, j \in 1..Len(ListRunFiles) :
              i < j => files[ListRunFiles[i]].mtime > files[ListRunFiles[j]].mtime
<1> DEFINE found == {r \in Run : files[r].content # "none"}
           rank == [r \in Run |-> files[r].mtime]
           Fine(s) == /\ \A r \in found : \E i \in DOMAIN s : s[i] = r
                      /\ \A i, j \in DOMAIN s : i < j => files[s[i]].mtime > files[s[j]].mtime
           listed == CHOOSE s \in [1..Cardinality(found) -> found] : Fine(s)
<1>1. IsFiniteSet(found)
  BY DEF FilesInv
<1>2. (\A x \in found : rank[x] \in Nat) /\ (\A x, y \in found : rank[x] = rank[y] => x = y)
  BY DEF FilesInv, Summary
<1>3. PICK s : Listing(found, rank, s)
  <2> HIDE DEF found, rank
  <2> QED
    BY <1>1, <1>2, ListingExists
<1>4. s \in [1..Cardinality(found) -> found] /\ Fine(s)
  BY <1>3 DEF Listing
<1>5. listed \in [1..Cardinality(found) -> found] /\ Fine(listed)
  <2> HIDE DEF Fine, found
  <2> QED
    BY <1>4
<1>6. ListRunFiles = listed
  BY DEF ListRunFiles
<1>7. Cardinality(found) \in Nat
  BY <1>1, FS_CardinalityType
<1> HIDE DEF listed
<1>8. listed \in Seq(Run) /\ Len(listed) = Cardinality(found)
  BY <1>5, <1>7
<1> QED
  BY <1>5, <1>6, <1>8

\* A request keeps what it has read while summaries are written and plans
\* deleted.
LEMMA ReaderKept ==
  ASSUME NEW v \in ReaderState, NEW f \in [Run -> Summary], NEW g \in [Run -> Summary],
         NEW d \in SUBSET Run, NEW e \in SUBSET Run, ReaderInv(v, f, d),
         d \subseteq e,
         \A r \in Run : f[r].content = "whole" => g[r].content = "whole",
         \A r \in Run : f[r].plan => g[r].plan
  PROVE  ReaderInv(v, g, e)
BY DEF ReaderInv, PlanTold

\* The agent writes, and people delete.
LEMMA WriterKeeps ==
  ASSUME PortalInv, WriterStep \/ \E r \in Run : DeletePlan(r)
  PROVE  PortalInv'
<1>1. PICK r \in Run : PersistPlan(r) \/ OpenSummary(r) \/ CloseSummary(r) \/ DeletePlan(r)
  BY DEF WriterStep
<1> DEFINE found == {s \in Run : files[s].content # "none"}
           found2 == {s \in Run : files'[s].content # "none"}
<1>2. /\ files \in [Run -> Summary] /\ plans \in SUBSET Run /\ deleted \in SUBSET Run
      /\ clock \in Nat /\ reader \in [Reader -> ReaderState] /\ FilesInv /\ reader' = reader
      /\ files[r] \in Summary
  BY <1>1 DEF PortalInv, PortalTyped, PersistPlan, OpenSummary, Open, CloseSummary, DeletePlan
<1>3. ASSUME FilesInv', files' \in [Run -> Summary], plans' \in SUBSET Run,
             deleted' \in SUBSET Run, clock' \in Nat, deleted \subseteq deleted',
             \A s \in Run : files[s].content = "whole" => files'[s].content = "whole",
             \A s \in Run : files[s].plan => files'[s].plan
      PROVE  PortalInv'
  <2>1. \A q \in Reader : ReaderInv(reader[q], files', deleted')
    <3> TAKE q \in Reader
    <3>1. reader[q] \in ReaderState /\ ReaderInv(reader[q], files, deleted)
      BY <1>2 DEF PortalInv
    <3> QED
      BY <1>2, <1>3, <3>1, ReaderKept
  <2>2. PortalTyped'
    BY <1>2, <1>3 DEF PortalTyped
  <2> QED
    BY <1>2, <1>3, <2>1, <2>2 DEF PortalInv
<1>4. CASE PersistPlan(r)
  <2>1. files' = files /\ clock' = clock /\ plans' = plans \cup {r} /\ deleted' = deleted
    BY <1>4 DEF PersistPlan
  <2>2. FilesInv'
    BY <1>2, <2>1 DEF FilesInv, WasStored
  <2> QED
    BY <1>2, <1>3, <2>1, <2>2
<1>5. ASSUME NEW f \in Summary, files' = [files EXCEPT ![r] = f], f.content # "none",
             f.mtime = clock + 1, f.plan => WasStored(r), clock' = clock + 1, plans' = plans,
             deleted' = deleted, files[r].plan => f.plan,
             files[r].content = "whole" => f.content = "whole"
      PROVE  PortalInv'
  <2>1. files' \in [Run -> Summary] /\ files'[r] = f /\ \A s \in Run \ {r} : files'[s] = files[s]
    BY <1>2, <1>5
  <2>2. \A s \in Run : files[s].mtime \in Nat /\ files[s].mtime <= clock
    BY <1>2 DEF FilesInv, Summary
  <2>3. \A s \in Run : files[s].content = "whole" => files'[s].content = "whole"
    BY <1>5, <2>1
  <2>4. IsFiniteSet(found2)
    <3>1. found2 \subseteq found \cup {r}
      BY <2>1
    <3>2. IsFiniteSet(found \cup {r})
      BY <1>2, FS_AddElement DEF FilesInv
    <3> QED
      BY <3>1, <3>2, FS_Subset
  <2>5. \A s \in Run : files'[s].mtime <= clock' /\ (files'[s].plan => WasStored(s)')
    BY <1>2, <1>5, <2>1, <2>2 DEF FilesInv, WasStored
  <2>6. \A s, t \in Run : /\ files'[s].content # "none" /\ files'[t].content # "none"
                          /\ files'[s].mtime = files'[t].mtime
                          => s = t
    <3> SUFFICES ASSUME NEW s \in Run, NEW t \in Run,
                        files'[s].content # "none", files'[t].content # "none",
                        files'[s].mtime = files'[t].mtime
                 PROVE  s = t
      OBVIOUS
    <3>1. files[s].mtime # clock + 1 /\ files[t].mtime # clock + 1
      BY <1>2, <2>2
    <3>2. CASE s = r
      BY <1>5, <2>1, <3>1, <3>2
    <3>3. CASE t = r
      BY <1>5, <2>1, <3>1, <3>3
    <3>4. CASE s # r /\ t # r
      BY <1>2, <2>1, <3>4 DEF FilesInv
    <3> QED
      BY <3>2, <3>3, <3>4
  <2>7. FilesInv'
    BY <2>4, <2>5, <2>6 DEF FilesInv
  <2>8. \A s \in Run : files[s].plan => files'[s].plan
    BY <1>5, <2>1
  <2> QED
    BY <1>2, <1>3, <1>5, <2>1, <2>3, <2>7, <2>8
<1>6. CASE OpenSummary(r)
  <2> DEFINE f == [content |-> "partial", mtime |-> clock + 1, plan |-> WasStored(r)]
  <2>1. f \in Summary /\ f.content = "partial" /\ f.mtime = clock + 1 /\ f.plan = WasStored(r)
    BY <1>2 DEF Summary, WasStored
  <2>2. /\ files' = [files EXCEPT ![r] = f] /\ clock' = clock + 1 /\ plans' = plans
        /\ deleted' = deleted /\ files[r].content = "none"
    BY <1>6 DEF OpenSummary, Open
  <2> HIDE DEF f
  <2>3. files[r].plan => f.plan
    BY <1>2, <2>1 DEF FilesInv
  <2> QED
    BY <1>5, <2>1, <2>2, <2>3
<1>7. CASE CloseSummary(r)
  <2> DEFINE f == [files[r] EXCEPT !.content = "whole", !.mtime = clock + 1]
  <2>1. f \in Summary /\ f.content = "whole" /\ f.mtime = clock + 1 /\ f.plan = files[r].plan
    <3> DEFINE h == files[r]
               k == clock + 1
    <3>1. h \in Summary /\ k \in Nat /\ f = [h EXCEPT !.content = "whole", !.mtime = k]
      BY <1>2
    <3>2. k = clock + 1 /\ h = files[r]
      OBVIOUS
    <3> HIDE DEF h, k, f
    <3> QED
      BY <3>1, <3>2 DEF Summary
  <2>2. /\ files' = [files EXCEPT ![r] = f] /\ clock' = clock + 1 /\ plans' = plans
        /\ deleted' = deleted
    BY <1>2, <1>7 DEF CloseSummary
  <2> HIDE DEF f
  <2>3. f.plan => WasStored(r)
    BY <1>2, <2>1 DEF FilesInv
  <2> QED
    BY <1>5, <2>1, <2>2, <2>3
<1>8. CASE DeletePlan(r)
  <2>1. /\ files' = files /\ clock' = clock /\ plans' = plans \ {r}
        /\ deleted' = deleted \cup {r}
    BY <1>8 DEF DeletePlan
  <2>2. FilesInv'
    BY <1>2, <2>1 DEF FilesInv, WasStored
  <2> QED
    BY <1>2, <1>3, <2>1, <2>2
<1> QED
  BY <1>1, <1>4, <1>6, <1>7, <1>8

\* One request goes on.
LEMMA OneReads ==
  ASSUME PortalInv, NEW q \in Reader, UNCHANGED <<files, plans, deleted, clock>>,
         \E v \in ReaderState : /\ reader' = [reader EXCEPT ![q] = v]
                                /\ ReaderInv(v, files, deleted)
  PROVE  PortalInv'
<1>1. PortalTyped' /\ FilesInv'
  BY DEF PortalInv, PortalTyped, FilesInv, WasStored
<1>2. \A x \in Reader : ReaderInv(reader'[x], files, deleted)
  BY DEF PortalInv, PortalTyped
<1> QED
  BY <1>1, <1>2 DEF PortalInv

\* A request leaves the files it was asked about in the directory.
LEMMA AskKeeps ==
  ASSUME PortalInv, NEW q \in Reader,
         NEW what \in {"recent", "latest", "details"},
         NEW arg \in Run \cup {AssetOf[r] : r \in Run} \cup {None}, NEW limit \in Int,
         what = "latest" => limit = 1, what = "details" => arg \in Run,
         Ask(q, what, arg, limit)
  PROVE  PortalInv'
<1>1. PICK request \in Requests :
        LET who == ResolveIdentity(request)
        IN  reader' = [reader EXCEPT ![q] =
              [NewReader EXCEPT
                 !.pc = IF Authenticated(who) THEN "scan" ELSE "done",
                 !.answer = IF Authenticated(who) THEN 0 ELSE 403,
                 !.what = what, !.arg = arg, !.who = who, !.limit = limit,
                 !.todo = ListRunFiles, !.before = files]]
  BY Zenon DEF Ask
<1> DEFINE who == ResolveIdentity(request)
           place == IF Authenticated(who) THEN "scan" ELSE "done"
           code == IF Authenticated(who) THEN 0 ELSE 403
           v == [NewReader EXCEPT !.pc = place, !.answer = code, !.what = what, !.arg = arg,
                                  !.who = who, !.limit = limit,
                                  !.todo = ListRunFiles, !.before = files]
<1>2. reader' = [reader EXCEPT ![q] = v] /\ UNCHANGED <<files, plans, deleted, clock>>
  BY <1>1 DEF Ask
<1>3. /\ place \in {"scan", "done"} /\ code \in {0, 403} /\ who \in Caller
      /\ place \in Place /\ code \in Code /\ what \in Question /\ arg \in Argument
      /\ limit \in Limit
  BY DEF Caller, Place, Code, Question, Argument, Limit
<1>4. /\ files \in [Run -> Summary] /\ FilesInv
  BY DEF PortalInv, PortalTyped
<1>5. /\ ListRunFiles \in Paths /\ files \in Directory
      /\ \A r \in Run : files[r].content # "none" =>
           \E i \in 1..Len(ListRunFiles) : ListRunFiles[i] = r
      /\ \A i, j \in 1..Len(ListRunFiles) :
           i < j => files[ListRunFiles[i]].mtime > files[ListRunFiles[j]].mtime
  BY <1>4, DirectoryListed DEF Paths, Directory
<1> HIDE DEF who, place, code
<1>6. NewReader \in ReaderState /\ NewReader.seen = <<>>
  BY DEF NewReader, ReaderState, Caller, NoFile, Summary, Place, Question, Argument, Code,
         Directory, Paths, Limit, OnPage
<1> DEFINE v1 == [NewReader EXCEPT !.pc = place, !.answer = code, !.what = what]
           v2 == [v1 EXCEPT !.arg = arg, !.who = who, !.limit = limit]
<1>7. v = [v2 EXCEPT !.todo = ListRunFiles, !.before = files]
  OBVIOUS
<1> HIDE DEF v
<1>8. /\ v \in ReaderState /\ v.pc = place /\ v.what = what /\ v.arg = arg /\ v.limit = limit
      /\ v.todo = ListRunFiles /\ v.seen = <<>> /\ v.answer = code /\ v.before = files
  <2>1. /\ v1 \in ReaderState /\ v1.seen = <<>> /\ v1.pc = place /\ v1.answer = code
        /\ v1.what = what
    BY <1>3, <1>6 DEF ReaderState
  <2> HIDE DEF v1
  <2>2. v2 \in ReaderState
    BY <1>3, <2>1, ZenonT(60) DEF ReaderState
  <2>3. /\ v2.seen = <<>> /\ v2.pc = place /\ v2.answer = code
        /\ v2.what = what /\ v2.arg = arg /\ v2.limit = limit
    <3>1. v1.seen = <<>> /\ v1.pc = place /\ v1.answer = code /\ v1.what = what
      BY <2>1
    <3>2. DOMAIN v1 = {"pc", "what", "arg", "who", "limit", "todo", "seen", "answer", "before",
                       "shown"}
      BY <2>1 DEF ReaderState
    <3> QED
      BY <3>1, <3>2
  <2> HIDE DEF v2
  <2> QED
    BY <1>4, <1>5, <1>7, <2>2, <2>3 DEF ReaderState
<1>9. \A r \in Run : Showable(v, r) => files[r].content # "none"
  BY <1>8 DEF Showable
<1>10. NewestFirst(v)
  BY <1>5, <1>8 DEF NewestFirst
<1>11. ReaderInv(v, files, deleted)
  BY <1>3, <1>4, <1>5, <1>8, <1>9, <1>10 DEF ReaderInv, FilesInv
<1> QED
  BY <1>2, <1>8, <1>11, OneReads

\* What a reply must be for what it says to be right.
RightReply(v, d, code, seen, shown) ==
  /\ v.what = "latest" /\ code = 200 => NewestShown(v, seen)
  /\ v.what = "details" /\ code = 200 => PlanTold(v, shown, d)

\* An answer shows files of the directory, newest first.
LEMMA ReplyKeeps ==
  ASSUME PortalInv, NEW q \in Reader, NEW code \in Code, NEW seen \in Paths,
         NEW shown \in OnPage,
         Reply(q, code, seen, shown), UNCHANGED <<files, plans, deleted, clock>>,
         RightReply(reader[q], deleted, code, seen, shown)
  PROVE  PortalInv'
<1> DEFINE u == reader[q]
           v == [u EXCEPT !.pc = "done", !.answer = code, !.seen = seen, !.todo = <<>>,
                     !.shown = shown]
<1>1. u \in ReaderState /\ ReaderInv(u, files, deleted) /\ reader \in [Reader -> ReaderState]
  BY DEF PortalInv, PortalTyped
<1>2. reader' = [reader EXCEPT ![q] = v] /\ UNCHANGED <<files, plans, deleted, clock>>
  BY DEF Reply
<1>0. u = reader[q]
  OBVIOUS
<1> HIDE DEF u
<1>3. v \in ReaderState
  <2> DEFINE w == [u EXCEPT !.pc = "done", !.answer = code, !.seen = seen]
  <2>0. /\ "done" \in Place /\ code \in Code /\ seen \in Paths /\ <<>> \in Paths
    BY DEF Place, Code, Paths
  <2>1. w \in ReaderState
    BY <1>1, <2>0 DEF ReaderState
  <2>2. v = [w EXCEPT !.todo = <<>>, !.shown = shown]
    OBVIOUS
  <2> HIDE DEF v, w
  <2> QED
    BY <2>0, <2>1, <2>2 DEF ReaderState
<1>4. /\ v.pc = "done" /\ v.answer = code /\ v.seen = seen /\ v.shown = shown
      /\ v.what = u.what /\ v.arg = u.arg /\ v.who = u.who /\ v.before = u.before
  BY <1>1 DEF ReaderState
<1> HIDE DEF v
<1>5. \A r \in Run : Showable(v, r) <=> Showable(u, r)
  BY <1>4 DEF Showable
<1>7. ReaderInv(v, files, deleted)
  <2>1. RightReply(u, deleted, code, seen, shown)
    BY <1>0
  <2> QED
    BY ONLY <2>1, <1>1, <1>4, <1>5 DEF ReaderInv, RightReply, NewestShown, PlanTold
<1>8. \E x \in ReaderState : /\ reader' = [reader EXCEPT ![q] = x]
                             /\ ReaderInv(x, files, deleted)
  BY <1>2, <1>3, <1>7
<1>9. UNCHANGED <<files, plans, deleted, clock>>
  BY <1>2
<1>10. PortalInv /\ q \in Reader
  OBVIOUS
<1> QED
  BY ONLY <1>8, <1>9, <1>10, OneReads

\* A listing goes on past the first of its files, unless it was to be shown.
LEMMA PassKeeps ==
  ASSUME PortalInv, NEW q \in Reader, reader[q].pc = "scan", reader[q].todo # <<>>,
         NEW seen \in Seq(Run), UNCHANGED <<files, plans, deleted, clock>>,
         reader' = [reader EXCEPT ![q] = [reader[q] EXCEPT !.todo = Tail(reader[q].todo),
                                                           !.seen = seen]],
         reader[q].what = "latest" =>
           seen = reader[q].seen /\ ~Showable(reader[q], Head(reader[q].todo))
  PROVE  PortalInv'
<1> DEFINE u == reader[q]
           v == [u EXCEPT !.todo = Tail(u.todo), !.seen = seen]
<1>1. u \in ReaderState /\ ReaderInv(u, files, deleted) /\ u.pc = "scan"
  BY DEF PortalInv, PortalTyped
<1>2. reader' = [reader EXCEPT ![q] = v] /\ UNCHANGED <<files, plans, deleted, clock>>
  OBVIOUS
<1>3. u.what = "latest" => seen = u.seen /\ ~Showable(u, Head(u.todo))
  OBVIOUS
<1>4. u.todo \in Seq(Run) /\ u.todo # <<>> /\ seen \in Paths
  BY <1>1 DEF ReaderState, Paths
<1>5. PortalInv /\ q \in Reader
  OBVIOUS
<1> HIDE DEF u
<1>6. /\ Tail(u.todo) \in Seq(Run) /\ Len(Tail(u.todo)) = Len(u.todo) - 1 /\ Len(u.todo) \in Nat
      /\ \A i \in 1..(Len(u.todo) - 1) : Tail(u.todo)[i] = u.todo[i + 1]
      /\ Head(u.todo) = u.todo[1]
  BY <1>4
<1>7. v \in ReaderState
  <2>1. Tail(u.todo) \in Paths
    BY <1>6 DEF Paths
  <2> QED
    BY <1>1, <1>4, <2>1 DEF ReaderState
<1>8. /\ v.pc = u.pc /\ v.answer = u.answer /\ v.seen = seen /\ v.todo = Tail(u.todo)
      /\ v.what = u.what /\ v.arg = u.arg /\ v.who = u.who /\ v.before = u.before
      /\ v.limit = u.limit
  BY <1>1 DEF ReaderState
<1> HIDE DEF v
<1>9. \A r \in Run : Showable(v, r) <=> Showable(u, r)
  BY <1>8 DEF Showable
<1>10. NewestFirst(u) => NewestFirst(v)
  <2> SUFFICES ASSUME NewestFirst(u), NEW i \in 1..Len(v.todo), NEW j \in 1..Len(v.todo), i < j
               PROVE  v.before[v.todo[i]].mtime > v.before[v.todo[j]].mtime
    BY DEF NewestFirst
  <2>1. /\ i \in 1..(Len(u.todo) - 1) /\ j \in 1..(Len(u.todo) - 1)
        /\ i + 1 \in 1..Len(u.todo) /\ j + 1 \in 1..Len(u.todo) /\ i + 1 < j + 1
    BY <1>6, <1>8
  <2>2. v.todo[i] = u.todo[i + 1] /\ v.todo[j] = u.todo[j + 1]
    BY <1>6, <1>8, <2>1
  <2>3. u.before[u.todo[i + 1]].mtime > u.before[u.todo[j + 1]].mtime
    BY <2>1 DEF NewestFirst
  <2> QED
    BY <1>8, <2>2, <2>3
<1>11. u.what = "latest" =>
         \A r \in Run : Showable(v, r) => \E i \in 1..Len(v.todo) : v.todo[i] = r
  <2> SUFFICES ASSUME u.what = "latest", NEW r \in Run, Showable(v, r)
               PROVE  \E i \in 1..Len(v.todo) : v.todo[i] = r
    OBVIOUS
  <2>0. u.what = "latest" /\ r \in Run /\ Showable(v, r)
    OBVIOUS
  <2>1. PICK i \in 1..Len(u.todo) : u.todo[i] = r
    BY ONLY <2>0, <1>1, <1>8, <1>9 DEF ReaderInv
  <2>2. i # 1
    BY <1>3, <1>6, <1>8, <1>9, <2>1
  <2>3. i - 1 \in 1..(Len(u.todo) - 1) /\ (i - 1) + 1 = i
    BY <1>6, <2>2
  <2>4. v.todo[i - 1] = r
    BY <1>6, <1>8, <2>1, <2>3
  <2> QED
    BY <1>6, <1>8, <2>3, <2>4
<1>12. ReaderInv(v, files, deleted)
  BY ONLY <1>1, <1>3, <1>8, <1>10, <1>11 DEF ReaderInv
<1>13. \E x \in ReaderState : /\ reader' = [reader EXCEPT ![q] = x]
                              /\ ReaderInv(x, files, deleted)
  BY <1>2, <1>7, <1>12
<1> QED
  BY ONLY <1>2, <1>5, <1>13, OneReads

\* recent_runs and latest_run_for_asset.
LEMMA LoadListedKeeps ==
  ASSUME PortalInv, NEW q \in Reader, LoadListed(q)
  PROVE  PortalInv'
<1> DEFINE u == reader[q]
           r == Next1(q)
           s == Append(u.seen, r)
<1>0. PortalInv /\ q \in Reader
  OBVIOUS
<1>1. /\ u \in ReaderState /\ ReaderInv(u, files, deleted) /\ u.pc = "scan" /\ u.todo # <<>>
      /\ u.what \in {"recent", "latest"} /\ UNCHANGED <<files, plans, deleted, clock>>
      /\ reader \in [Reader -> ReaderState]
  BY DEF PortalInv, PortalTyped, LoadListed, Scanning
<1>2. /\ u.todo \in Seq(Run) /\ u.seen \in Seq(Run) /\ u.todo[1] = r /\ r \in Run
      /\ r = Head(u.todo)
  BY <1>1 DEF ReaderState, Paths, Next1
<1>3. s \in Seq(Run) /\ (u.seen = <<>> => s = <<r>> /\ s[1] = r /\ Len(s) = 1)
  <2>1. u.seen \in Seq(Run) /\ r \in Run
    BY <1>2
  <2> HIDE DEF u, r
  <2>2. s \in Seq(Run)
    BY <2>1
  <2>3. ASSUME u.seen = <<>> PROVE s = <<r>> /\ s[1] = r /\ Len(s) = 1
    <3>1. s = <<r>>
      BY <2>1, <2>3
    <3> HIDE DEF s
    <3> QED
      BY <3>1
  <2> QED
    BY <2>2, <2>3
<1>4. files \in [Run -> Summary] /\ u.before \in [Run -> Summary]
  BY <1>1 DEF PortalInv, PortalTyped, ReaderState, Directory
<1>5. u.what = "latest" => (Wanted(q, r) <=> AssetOf[r] = u.arg /\ IdentityMatchesScope(u.who, OrgOf[r], None))
  BY DEF Wanted, Visible
<1>6. CASE files[r].content # "whole" \/ ~Wanted(q, r)
  <2>1. reader' = [reader EXCEPT ![q].todo = Tail(u.todo)]
    BY <1>6 DEF LoadListed, PassOver
  <2>2. reader' = [reader EXCEPT ![q] = [u EXCEPT !.todo = Tail(u.todo), !.seen = u.seen]]
    <3>1. [u EXCEPT !.todo = Tail(u.todo)] = [u EXCEPT !.todo = Tail(u.todo), !.seen = u.seen]
      BY <1>1 DEF ReaderState
    <3> QED
      BY <1>1, <2>1, <3>1
  <2>3. u.what = "latest" => ~Showable(u, r)
    BY <1>1, <1>2, <1>4, <1>5, <1>6 DEF Showable, ReaderInv
  <2> QED
    BY <1>1, <1>2, <2>2, <2>3, PassKeeps
<1>7. CASE files[r].content = "whole" /\ Wanted(q, r) /\ Len(s) >= u.limit
  <2>1. Reply(q, 200, s, "nothing")
    BY <1>7 DEF LoadListed
  <2>2. u.what # "details"
    BY <1>1
  <2>3. u.what = "latest" => NewestShown(u, s)
    <3> SUFFICES ASSUME u.what = "latest", NEW x \in Run, Showable(u, x),
                        ~(u.before[x].mtime <= u.before[s[1]].mtime)
                 PROVE  FALSE
      BY DEF NewestShown
    <3>0. /\ u.what = "latest" /\ x \in Run /\ Showable(u, x)
          /\ ~(u.before[x].mtime <= u.before[s[1]].mtime)
      OBVIOUS
    <3> HIDE DEF u, r, s
    <3>1. u.seen = <<>> /\ NewestFirst(u)
      BY <1>1, <3>0 DEF ReaderInv
    <3>2. s[1] = r
      BY <1>3, <3>1
    <3>6. u.before[r].mtime \in Nat /\ u.before[x].mtime \in Nat
      BY <1>2, <1>4, <3>0 DEF Summary
    <3>3. PICK i \in 1..Len(u.todo) : u.todo[i] = x
      BY <1>1, <3>0 DEF ReaderInv
    <3>4. i # 1
      BY <1>2, <3>0, <3>2, <3>3, <3>6
    <3>5. u.before[u.todo[1]].mtime > u.before[u.todo[i]].mtime
      BY <1>2, <3>1, <3>3, <3>4 DEF NewestFirst
    <3> QED
      BY <1>2, <3>0, <3>2, <3>3, <3>5, <3>6
  <2> QED
    <3>1. RightReply(u, deleted, 200, s, "nothing")
      BY <2>2, <2>3 DEF RightReply
    <3>2. 200 \in Code /\ s \in Paths /\ "nothing" \in OnPage
      BY <1>3 DEF Code, Paths, OnPage
    <3> QED
      BY ONLY <1>0, <1>1, <2>1, <3>1, <3>2, ReplyKeeps
<1>8. CASE files[r].content = "whole" /\ Wanted(q, r) /\ ~(Len(s) >= u.limit)
  <2>1. reader' = [reader EXCEPT ![q].todo = Tail(u.todo), ![q].seen = s]
    BY <1>8 DEF LoadListed
  <2>2. reader' = [reader EXCEPT ![q] = [u EXCEPT !.todo = Tail(u.todo), !.seen = s]]
    BY <1>1, <2>1
  <2>3. u.what # "latest"
    BY <1>1, <1>3, <1>8 DEF ReaderInv
  <2> QED
    BY <1>1, <1>3, <2>2, <2>3, PassKeeps
<1> QED
  BY <1>6, <1>7, <1>8

\* The page turns to the database.
LEMMA GoOnKeeps ==
  ASSUME PortalInv, NEW q \in Reader, NEW place \in {"plan", "parts"},
         reader[q].what = "details", reader[q].pc # "done",
         GoOn(q, place), UNCHANGED <<files, plans, deleted, clock>>
  PROVE  PortalInv'
<1> DEFINE u == reader[q]
           v == [u EXCEPT !.pc = place]
<1>1. u \in ReaderState /\ ReaderInv(u, files, deleted) /\ reader \in [Reader -> ReaderState]
      /\ u.what = "details" /\ place \in Place
  BY DEF PortalInv, PortalTyped, Place
<1>2. reader' = [reader EXCEPT ![q] = v]
  BY <1>1 DEF GoOn
<1> HIDE DEF u
<1>3. /\ v \in ReaderState /\ v.pc = place /\ v.what = u.what /\ v.arg = u.arg
      /\ v.before = u.before
  BY <1>1 DEF ReaderState
<1> HIDE DEF v
<1>4. ReaderInv(v, files, deleted)
  BY <1>1, <1>3 DEF ReaderInv
<1> QED
  BY <1>2, <1>3, <1>4, OneReads

\* run_details.
LEMMA LoadDetailsKeeps ==
  ASSUME PortalInv, NEW q \in Reader, LoadDetails(q)
  PROVE  PortalInv'
<1> DEFINE u == reader[q]
           r == Next1(q)
<1>0. PortalInv /\ q \in Reader
  OBVIOUS
<1>1. /\ u \in ReaderState /\ ReaderInv(u, files, deleted) /\ u.pc = "scan" /\ u.todo # <<>>
      /\ u.what = "details" /\ UNCHANGED <<files, plans, deleted, clock>>
      /\ reader \in [Reader -> ReaderState]
  BY DEF PortalInv, PortalTyped, LoadDetails, Scanning
<1>2. u.todo \in Seq(Run) /\ u.seen \in Seq(Run) /\ r \in Run /\ r = Head(u.todo)
  BY <1>1 DEF ReaderState, Paths, Next1
<1>3. CASE r # u.arg
  <2>1. reader' = [reader EXCEPT ![q].todo = Tail(u.todo)]
    BY <1>3 DEF LoadDetails, PassOver
  <2>2. reader' = [reader EXCEPT ![q] = [u EXCEPT !.todo = Tail(u.todo), !.seen = u.seen]]
    <3>1. [u EXCEPT !.todo = Tail(u.todo)] = [u EXCEPT !.todo = Tail(u.todo), !.seen = u.seen]
      BY <1>1 DEF ReaderState
    <3> QED
      BY <1>1, <2>1, <3>1
  <2> QED
    BY <1>1, <1>2, <2>2, PassKeeps
<1>4. CASE r = u.arg
  <2>1. \/ Reply(q, 422, <<>>, "nothing")
        \/ Reply(q, 403, <<>>, "nothing")
        \/ files[r].plan /\ GoOn(q, "plan")
        \/ ~files[r].plan /\ Reply(q, 200, <<r>>, "nothing")
    BY <1>4 DEF LoadDetails
  <2>2. 200 \in Code /\ 422 \in Code /\ 403 \in Code /\ <<>> \in Paths /\ <<r>> \in Paths
        /\ "nothing" \in OnPage
    BY <1>2 DEF Code, Paths, OnPage
  <2>3. /\ RightReply(u, deleted, 422, <<>>, "nothing")
        /\ RightReply(u, deleted, 403, <<>>, "nothing")
    BY <1>1 DEF RightReply
  <2>4. CASE Reply(q, 422, <<>>, "nothing")
    BY ONLY <1>0, <1>1, <2>2, <2>3, <2>4, ReplyKeeps
  <2>5. CASE Reply(q, 403, <<>>, "nothing")
    BY ONLY <1>0, <1>1, <2>2, <2>3, <2>5, ReplyKeeps
  <2>6. CASE files[r].plan /\ GoOn(q, "plan")
    BY <1>1, <2>6, GoOnKeeps
  <2>7. CASE ~files[r].plan /\ Reply(q, 200, <<r>>, "nothing")
    <3>1. RightReply(u, deleted, 200, <<r>>, "nothing")
      BY <1>1, <1>2, <1>4, <2>7 DEF RightReply, PlanTold, ReaderInv
    <3> QED
      BY ONLY <1>0, <1>1, <2>2, <2>7, <3>1, ReplyKeeps
  <2> QED
    BY <2>1, <2>4, <2>5, <2>6, <2>7
<1> QED
  BY <1>3, <1>4

\* The two look-ups of a run's plan.
LEMMA PageKeeps ==
  ASSUME PortalInv, NEW q \in Reader, NEW shown \in OnPage, reader[q].what = "details",
         Page(q, shown), PlanTold(reader[q], shown, deleted)
  PROVE  PortalInv'
<1>1. reader[q].arg \in Run
  BY DEF PortalInv, ReaderInv
<1>2. 200 \in Code /\ <<reader[q].arg>> \in Paths
  BY <1>1 DEF Code, Paths
<1>3. RightReply(reader[q], deleted, 200, <<reader[q].arg>>, shown)
  BY DEF RightReply
<1> QED
  BY <1>2, <1>3, ReplyKeeps DEF Page

LEMMA LookUpsKeep ==
  ASSUME PortalInv, NEW q \in Reader, LookUpPlan(q) \/ LookUpParts(q) \/ LookUpFails(q)
  PROVE  PortalInv'
<1> DEFINE u == reader[q]
<1>1. /\ ReaderInv(u, files, deleted) /\ FilesInv /\ u.pc \in {"plan", "parts"}
  BY DEF PortalInv, LookUpPlan, LookUpParts, LookUpFails
<1>2. u.what = "details" /\ u.arg \in Run /\ (u.before[u.arg].plan => WasStored(u.arg))
  BY <1>1 DEF ReaderInv, FilesInv
<1>3. u.arg \notin plans => \A shown \in OnPage : PlanTold(u, shown, deleted)
  BY <1>2 DEF PlanTold, WasStored
<1>4. PlanTold(u, "all of it", deleted) /\ PlanTold(u, "load error", deleted)
  BY DEF PlanTold
<1>5. {"its id", "no parts", "all of it", "load error"} \subseteq OnPage
  BY DEF OnPage
<1>6. CASE LookUpPlan(q)
  <2>1. CASE u.arg \in plans
    <3>1. GoOn(q, "parts") /\ UNCHANGED <<files, plans, deleted, clock>>
      BY <1>6, <2>1 DEF LookUpPlan
    <3> QED
      BY <1>1, <1>2, <3>1, GoOnKeeps
  <2>2. CASE u.arg \notin plans
    <3>1. Page(q, "its id")
      BY <1>6, <2>2 DEF LookUpPlan
    <3> QED
      BY <1>2, <1>3, <1>5, <2>2, <3>1, PageKeeps
  <2> QED
    BY <2>1, <2>2
<1>7. CASE LookUpParts(q)
  <2>1. CASE u.arg \in plans
    <3>1. Page(q, "all of it")
      BY <1>7, <2>1 DEF LookUpParts
    <3> QED
      BY <1>2, <1>4, <1>5, <3>1, PageKeeps
  <2>2. CASE u.arg \notin plans
    <3>1. Page(q, "no parts")
      BY <1>7, <2>2 DEF LookUpParts
    <3> QED
      BY <1>2, <1>3, <1>5, <2>2, <3>1, PageKeeps
  <2> QED
    BY <2>1, <2>2
<1>8. CASE LookUpFails(q)
  <2>1. Page(q, "load error")
    BY <1>8 DEF LookUpFails
  <2> QED
    BY <1>2, <1>4, <1>5, <2>1, PageKeeps
<1> QED
  BY <1>6, <1>7, <1>8

\* A step of the portal or of the agent.
LEMMA PortalStep == PortalInv /\ [PortalNext]_portalVars => PortalInv'
<1> SUFFICES ASSUME PortalInv, [PortalNext]_portalVars PROVE PortalInv'
  OBVIOUS
<1>1. CASE UNCHANGED portalVars
  BY <1>1 DEF portalVars, PortalInv, PortalTyped, FilesInv, WasStored
<1>2. CASE WriterStep \/ \E r \in Run : DeletePlan(r)
  BY <1>2, WriterKeeps
<1>3. ASSUME NEW q \in Reader, ReaderStep(q) PROVE PortalInv'
  <2>1. CASE RecentRuns(q)
    <3>1. PICK limit \in 1..MaxLimit : Ask(q, "recent", None, limit)
      BY <2>1 DEF RecentRuns
    <3> QED
      BY <3>1, AskKeeps
  <2>2. CASE LatestRunForAsset(q)
    <3>1. PICK a \in {AssetOf[r] : r \in Run} : Ask(q, "latest", a, 1)
      BY <2>2 DEF LatestRunForAsset
    <3> QED
      BY <3>1, AskKeeps
  <2>3. CASE RunDetails(q)
    <3>1. PICK r \in Run : Ask(q, "details", r, 1)
      BY <2>3 DEF RunDetails
    <3> QED
      BY <3>1, AskKeeps
  <2>4. CASE EndOfFiles(q)
    <3> DEFINE code == IF reader[q].what = "recent" THEN 200 ELSE 404
    <3>1. /\ reader[q].pc = "scan" /\ Reply(q, code, reader[q].seen, "nothing")
          /\ UNCHANGED <<files, plans, deleted, clock>>
      BY <2>4 DEF EndOfFiles
    <3>2. code \in {200, 404} /\ (code = 200 => reader[q].what = "recent")
      OBVIOUS
    <3>3. reader[q].seen \in Paths /\ code \in Code /\ "nothing" \in OnPage
      BY <3>2 DEF PortalInv, PortalTyped, ReaderState, Code, OnPage
    <3>4. RightReply(reader[q], deleted, code, reader[q].seen, "nothing")
      <4> HIDE DEF code
      <4>1. code = 200 => reader[q].what = "recent"
        BY <3>2
      <4> QED
        BY <4>1 DEF RightReply
    <3>5. PortalInv /\ q \in Reader
      OBVIOUS
    <3> HIDE DEF code
    <3> QED
      BY ONLY <3>1, <3>3, <3>4, <3>5, ReplyKeeps
  <2> QED
    BY <1>3, <2>1, <2>2, <2>3, <2>4, LoadListedKeeps, LoadDetailsKeeps, LookUpsKeep
       DEF ReaderStep
<1> QED
  BY <1>1, <1>2, <1>3 DEF PortalNext

\* Every step of the writers and the readers keeps PortalInv.
LEMMA PortalInvariance == PortalInit /\ [][PortalNext]_portalVars => []PortalInv
  BY PortalInitially, PortalStep, PTL

\* The invariant is more than what is promised.
LEMMA PortalShown == PortalInv => LatestIsNewest /\ PlanMissingWasDeleted
<1> SUFFICES ASSUME PortalInv PROVE LatestIsNewest /\ PlanMissingWasDeleted
  OBVIOUS
<1>1. LatestIsNewest
  BY DEF PortalInv, LatestIsNewest, ReaderInv, NewestShown, Replied, Showable, Visible
<1>2. PlanMissingWasDeleted
  BY DEF PortalInv, PlanMissingWasDeleted, ReaderInv, PlanTold, Replied
<1> QED
  BY <1>1, <1>2

-----------------------------------------------------------------------------
(***************************************************************************)
(* The state of an edge site (EdgeStatus).                                 *)
(***************************************************************************)

StepName == {"event state", "event count", "look", "alter", "count", "queued", "replayed",
             "failures"}

ShownFlow == [buffered : Nat, replayed : Nat, failures : Nat, depth : Nat,
          status : Events!Statuses \cup {"disabled"},
          commandDepth : Nat, commandsQueued : Nat, commandsReplayed : Nat,
          commandFailures : Nat, eventsUp : BOOLEAN, commandsUp : BOOLEAN]

WatcherState ==
  [pc : StepName \cup {"idle", "done"}, what : {"none", "scrape", "portal"},
   hasColumn : BOOLEAN, since : Nat, shown : ShownFlow, last : ShownFlow, clashes : Nat,
   answer : {0, 200, 500}]

EdgeTyped ==
  /\ Events!BufferTypeOK /\ Queue!QueueTypeOK
  /\ column \in BOOLEAN /\ edgeOn \in BOOLEAN /\ calls \in Nat
  /\ watcher \in [Watcher -> WatcherState]
  /\ \A w \in Watcher : watcher[w].pc \in StepName => watcher[w].what # "none"

\* The step after the i-th is the one after it.
LEMMA AfterIth ==
  ASSUME NEW what, DOMAIN Steps(what) = 1..8, Len(Steps(what)) = 8,
         \A i, j \in 1..8 : Steps(what)[i] = Steps(what)[j] => i = j,
         NEW i \in 1..8
  PROVE  After(what, Steps(what)[i]) = IF i = 8 THEN "done" ELSE Steps(what)[i + 1]
<1> DEFINE here == CHOOSE j \in DOMAIN Steps(what) : Steps(what)[j] = Steps(what)[i]
<1>1. here \in 1..8 /\ Steps(what)[here] = Steps(what)[i]
  OBVIOUS
<1>2. here = i
  BY <1>1
<1>3. After(what, Steps(what)[i]) = IF here = Len(Steps(what)) THEN "done" ELSE Steps(what)[here + 1]
  BY DEF After
<1> HIDE DEF here
<1> QED
  BY <1>2, <1>3

\* The statements of an answer follow one another as the code has them.
LEMMA StepsFollow ==
  ASSUME NEW what \in {"scrape", "portal"}
  PROVE  /\ After(what, "event state") = "event count"
         /\ After(what, "event count") \in {"look", "count"}
         /\ After(what, "look") = "alter"
         /\ After(what, "alter") \in {"count", "event state"}
         /\ After(what, "count") = "queued"
         /\ After(what, "queued") = "replayed"
         /\ After(what, "replayed") = "failures"
         /\ After(what, "failures") = "done"
<1> DEFINE s == Steps(what)
<1>1. DOMAIN s = 1..8 /\ Len(s) = 8 /\ \A i, j \in 1..8 : s[i] = s[j] => i = j
  <2> DEFINE t == <<"event state", "event count", "look", "alter", "count", "queued",
                    "replayed", "failures">>
             u == <<"look", "alter", "event state", "event count", "count", "queued",
                    "replayed", "failures">>
  <2>1. DOMAIN t = 1..8 /\ \A i, j \in 1..8 : t[i] = t[j] => i = j
    OBVIOUS
  <2>2. DOMAIN u = 1..8 /\ \A i, j \in 1..8 : u[i] = u[j] => i = j
    OBVIOUS
  <2>3. Len(t) = 8 /\ Len(u) = 8
    OBVIOUS
  <2>4. s = t \/ s = u
    BY DEF Steps
  <2> HIDE DEF s, t, u
  <2> QED
    BY <2>1, <2>2, <2>3, <2>4
<1>2. \A i \in 1..8 : After(what, s[i]) = IF i = 8 THEN "done" ELSE s[i + 1]
  BY <1>1, AfterIth
<1>3. /\ s[5] = "count" /\ s[6] = "queued" /\ s[7] = "replayed" /\ s[8] = "failures"
      /\ \/ /\ s[1] = "event state" /\ s[2] = "event count"
            /\ s[3] = "look" /\ s[4] = "alter"
         \/ /\ s[3] = "event state" /\ s[4] = "event count"
            /\ s[1] = "look" /\ s[2] = "alter"
  BY DEF Steps
<1>4. \A i \in 1..7 : After(what, s[i]) = s[i + 1]
  BY <1>2
<1>5. After(what, s[8]) = "done"
  BY <1>2
<1> HIDE DEF s
<1>6. /\ After(what, s[1]) = s[2] /\ After(what, s[2]) = s[3] /\ After(what, s[3]) = s[4]
      /\ After(what, s[4]) = s[5] /\ After(what, s[5]) = s[6] /\ After(what, s[6]) = s[7]
      /\ After(what, s[7]) = s[8]
  BY <1>4
<1> QED
  BY <1>3, <1>5, <1>6

-----------------------------------------------------------------------------
\* A depth d was read while the totals went to q and r in m calls.
Close(d, q, r, m) == d <= q /\ d - (q - r) \in (0 - m)..m

\* What watcher v shows is no further from the queue file than the calls since
\* it began, each total from the moment it is read.
Torn(v, t, n) ==
  /\ v.since <= n
  /\ v.pc = "queued" =>
       Close(v.shown.commandDepth, t.queued, t.replayed, n - v.since)
  /\ v.pc = "replayed" =>
       Close(v.shown.commandDepth, v.shown.commandsQueued, t.replayed, n - v.since)
  /\ v.pc = "failures" \/ (edgeOn /\ v.pc = "done" /\ v.answer = 200 /\ v.shown.commandsUp) =>
       Close(v.shown.commandDepth, v.shown.commandsQueued, v.shown.commandsReplayed, n - v.since)

\* Whoever met another in the upgrade finds the column the next time.
Warned(v, c) ==
  /\ v.clashes \in {0, 1}
  /\ v.clashes = 1 => c /\ (v.pc = "alter" => v.hasColumn)

WatchersInv ==
  \A w \in Watcher : Torn(watcher[w], tally, calls) /\ Warned(watcher[w], column)

EdgeInv == EdgeTyped /\ Queue!CommandAccounting /\ WatchersInv

\* The first state.
LEMMA EdgeInitially == EdgeStatusInit => EdgeInv
<1> SUFFICES ASSUME EdgeStatusInit PROVE EdgeInv
  OBVIOUS
<1>1. Events!BufferTypeOK /\ Queue!QueueTypeOK /\ Queue!CommandAccounting
  BY DEF EdgeStatusInit, Events!BufferInit, Queue!QueueInit, Events!BufferTypeOK,
         Queue!QueueTypeOK, Queue!CommandAccounting, Events!NoBatch, Events!Statuses
<1>2. NewWatcher \in WatcherState /\ NewWatcher.pc = "idle" /\ NewWatcher.since = 0
      /\ NewWatcher.clashes = 0
  BY DEF NewWatcher, Nothing, WatcherState, ShownFlow, StepName, Events!Statuses
<1>3. watcher \in [Watcher -> WatcherState] /\ \A w \in Watcher : watcher[w] = NewWatcher
  BY <1>2 DEF EdgeStatusInit
<1>4. EdgeTyped
  BY <1>1, <1>2, <1>3 DEF EdgeStatusInit, EdgeTyped, StepName
<1>5. WatchersInv
  BY <1>2, <1>3 DEF WatchersInv, Torn, Warned, EdgeStatusInit
<1> QED
  BY <1>1, <1>4, <1>5 DEF EdgeInv

-----------------------------------------------------------------------------
(* The writers.                                                            *)

\* What a call of a writer does to the totals.
Counted(t, u) ==
  /\ u.queued \in {t.queued, t.queued + 1} /\ u.replayed \in {t.replayed, t.replayed + 1}
  /\ u.queued = t.queued \/ u.replayed = t.replayed

\* A call, or a file that is only read, leaves every watcher as right as it was.
LEMMA CallsKeep ==
  ASSUME NEW v \in WatcherState, NEW t, NEW u, NEW n \in Nat, NEW k \in Nat,
         t \in [queued : Nat, replayed : Nat, failures : Nat],
         u \in [queued : Nat, replayed : Nat, failures : Nat],
         Torn(v, t, n),
         \/ u = t /\ k \in {n, n + 1}
         \/ Counted(t, u) /\ k = n + 1
  PROVE  Torn(v, u, k)
<1>1. /\ v.since \in Nat /\ v.shown.commandDepth \in Nat /\ v.shown.commandsQueued \in Nat
      /\ v.shown.commandsReplayed \in Nat
      /\ t.queued \in Nat /\ t.replayed \in Nat /\ u.queued \in Nat /\ u.replayed \in Nat
  BY DEF WatcherState, ShownFlow
<1>2. /\ v.since <= k
      /\ \/ u.queued = t.queued /\ u.replayed = t.replayed /\ k \in {n, n + 1}
         \/ u.queued = t.queued + 1 /\ u.replayed = t.replayed /\ k = n + 1
         \/ u.queued = t.queued /\ u.replayed = t.replayed + 1 /\ k = n + 1
  BY <1>1 DEF Counted, Torn
<1>3. \A d, q, r \in Nat : Close(d, q, r, n - v.since) => Close(d, q, r, k - v.since)
  BY <1>1, <1>2 DEF Close, Torn
<1>4. \A d \in Nat : Close(d, t.queued, t.replayed, n - v.since) =>
                     Close(d, u.queued, u.replayed, k - v.since)
  BY <1>1, <1>2 DEF Close, Torn
<1>5. \A d, q \in Nat : Close(d, q, t.replayed, n - v.since) =>
                        Close(d, q, u.replayed, k - v.since)
  BY <1>1, <1>2 DEF Close, Torn
<1> QED
  BY <1>1, <1>2, <1>3, <1>4, <1>5 DEF Torn

\* What EdgeTyped says of the file, field by field.
LEMMA FileTyped ==
  ASSUME EdgeTyped, IngestionCalls \/ ReplayGoesOn
  PROVE  Events!BufferTypeOK'
<1> USE EdgeStatusAssumption
<1>1. Events!BufferTypeOK
  BY DEF EdgeTyped
<1>2. ASSUME NEW e \in Reading, Events!AddEvent(e, "offline") PROVE Events!BufferTypeOK'
  <2>1. Events!Overflow(buffer) \in Nat
    BY <1>1 DEF Events!BufferTypeOK, Events!Overflow, Events!LargerOf
  <2>2. buffer' \in Seq(Reading)
    BY <1>1, <1>2, <2>1 DEF Events!AddEvent, Events!BufferTypeOK
  <2>3. evictions' \in Nat
    BY <1>1, <1>2, <2>1 DEF Events!AddEvent, Events!BufferTypeOK
  <2>4. counters' \in [buffered : Nat, replayed : Nat, failures : Nat]
    <3>1. counters.buffered + 1 \in Nat
      BY <1>1 DEF Events!BufferTypeOK
    <3>2. counters' = [counters EXCEPT !.buffered = counters.buffered + 1]
      BY <1>2 DEF Events!AddEvent
    <3> QED
      BY <1>1, <3>1, <3>2 DEF Events!BufferTypeOK
  <2>5. Events!Overflow(buffer) <= Len(buffer)
    BY <1>1 DEF Events!BufferTypeOK, Events!Overflow, Events!LargerOf
  <2>6. evicted' \in SUBSET Reading
    <3>1. buffer \in Seq(Reading) /\ Len(buffer) \in Nat /\ evicted \in SUBSET Reading
      BY <1>1 DEF Events!BufferTypeOK
    <3>2. evicted' = evicted \cup {buffer[i] : i \in 1 .. Events!Overflow(buffer)}
      BY <1>2 DEF Events!AddEvent
    <3>3. ASSUME NEW i \in 1 .. Events!Overflow(buffer) PROVE buffer[i] \in Reading
      <4>1. i \in 1 .. Len(buffer)
        BY <2>1, <2>5, <3>1
      <4> QED
        BY <3>1, <4>1
    <3> QED
      BY <3>1, <3>2, <3>3
  <2> QED
    BY <1>1, <1>2, <2>2, <2>3, <2>6, <2>4 DEF Events!AddEvent, Events!BufferTypeOK, Events!Statuses
<1>3. ASSUME Events!SelectBatch PROVE Events!BufferTypeOK'
  BY <1>1, <1>3 DEF Events!SelectBatch, Events!BufferTypeOK, Events!SmallerOf
<1>4. ASSUME Events!MarkConnectivity("online") PROVE Events!BufferTypeOK'
  BY <1>1, <1>4 DEF Events!MarkConnectivity, Events!BufferTypeOK, Events!Statuses
<1>5. ASSUME Events!RowDeleted PROVE Events!BufferTypeOK'
  BY <1>1, <1>5 DEF Events!RowDeleted, Events!BufferTypeOK
<1>6. ASSUME NEW failed \in BOOLEAN, NEW s \in Events!Statuses, Events!CommitDeletions(failed, s)
      PROVE  Events!BufferTypeOK'
  <2>1. buffer' \in Seq(Reading)
    BY <1>1, <1>6 DEF Events!CommitDeletions, Events!BufferTypeOK
  <2>2. counters' \in [buffered : Nat, replayed : Nat, failures : Nat]
    <3> DEFINE more == counters.replayed + batch.done
               refused == counters.failures + (IF failed THEN 1 ELSE 0)
    <3>1. more \in Nat /\ refused \in Nat
      BY <1>1 DEF Events!BufferTypeOK
    <3>2. counters' = [counters EXCEPT !.replayed = more, !.failures = refused]
      BY <1>6 DEF Events!CommitDeletions
    <3> HIDE DEF more, refused
    <3> QED
      BY <1>1, <3>1, <3>2 DEF Events!BufferTypeOK
  <2> QED
    BY <1>1, <1>6, <2>1, <2>2 DEF Events!CommitDeletions, Events!BufferTypeOK, Events!NoBatch
<1>7. ASSUME Events!Rollback PROVE Events!BufferTypeOK'
  BY <1>1, <1>7 DEF Events!Rollback, Events!BufferTypeOK, Events!NoBatch
<1>8. "online" \in Events!Statuses /\ "degraded" \in Events!Statuses
  BY DEF Events!Statuses
<1> QED
  BY <1>2, <1>3, <1>4, <1>5, <1>6, <1>7, <1>8 DEF IngestionCalls, ReplayGoesOn

\* A call of the queue counts one command more, queued or replayed, with its row.
LEMMA QueueCallCounts ==
  ASSUME Queue!QueueTypeOK, Queue!CommandAccounting, QueueCalls
  PROVE  Queue!QueueTypeOK' /\ Queue!CommandAccounting' /\ Counted(tally, tally')
<1> USE EdgeStatusAssumption
<1>1. ASSUME NEW c \in Handoffs, Queue!Enqueue(c, Queue!IsQueued(c))
      PROVE  Queue!QueueTypeOK' /\ Queue!CommandAccounting' /\ Counted(tally, tally')
  <2>1. CASE Queue!IsQueued(c)
    BY <1>1, <2>1 DEF Queue!Enqueue, Queue!EnqueueUpdate, Queue!queueVars, Queue!QueueTypeOK,
                      Queue!CommandAccounting, Counted
  <2>2. CASE ~Queue!IsQueued(c)
    <3>1. /\ commands' = Append(commands, c)
          /\ tally' = [tally EXCEPT !.queued = tally.queued + 1]
      BY <1>1, <2>2 DEF Queue!Enqueue, Queue!EnqueueInsert
    <3>2. tally.queued + 1 \in Nat
      BY DEF Queue!QueueTypeOK
    <3>3. Queue!QueueTypeOK'
      BY <3>1, <3>2 DEF Queue!QueueTypeOK
    <3>4. Counted(tally, tally')
      BY <3>1 DEF Queue!QueueTypeOK, Counted
    <3>5. Len(commands') = Len(commands) + 1 /\ Len(commands) \in Nat
      BY <3>1 DEF Queue!QueueTypeOK
    <3>6. tally'.queued = tally.queued + 1 /\ tally'.replayed = tally.replayed
      BY <3>1 DEF Queue!QueueTypeOK
    <3>7. tally'.queued = tally'.replayed + Len(commands')
      BY <3>5, <3>6 DEF Queue!CommandAccounting, Queue!QueueTypeOK
    <3>8. \A i, j \in 1..Len(commands') : commands'[i] = commands'[j] => i = j
      BY <2>2, <3>1, <3>5 DEF Queue!CommandAccounting, Queue!QueueTypeOK, Queue!IsQueued
    <3> QED
      BY <3>3, <3>4, <3>7, <3>8 DEF Queue!CommandAccounting
  <2> QED
    BY <2>1, <2>2
<1>2. ASSUME NEW n \in DOMAIN Queue!Oldest(ReplaySize), Queue!RecordReplaySuccess(commands[n])
      PROVE  Queue!QueueTypeOK' /\ Queue!CommandAccounting' /\ Counted(tally, tally')
  <2>1. n \in 1..Len(commands)
    BY DEF Queue!Oldest, Queue!QueueTypeOK
  <2> DEFINE k == CHOOSE i \in 1..Len(commands) : commands[i] = commands[n]
  <2>2. Queue!IsQueued(commands[n]) /\ k \in 1..Len(commands) /\ commands[k] = commands[n]
    BY <2>1 DEF Queue!IsQueued
  <2>3. /\ commands' = Queue!RemoveAt(commands, k)
        /\ tally' = [tally EXCEPT !.replayed = tally.replayed + 1]
    BY <1>2, <2>2 DEF Queue!RecordReplaySuccess
  <2> HIDE DEF k
  <2>4. /\ commands' \in Seq(Handoffs) /\ Len(commands') = Len(commands) - 1
        /\ Len(commands) \in Nat
        /\ \A i \in 1..Len(commands') :
             commands'[i] = IF i < k THEN commands[i] ELSE commands[i + 1]
    <3> DEFINE a == SubSeq(commands, 1, k - 1)
               b == SubSeq(commands, k + 1, Len(commands))
    <3>1. commands \in Seq(Handoffs) /\ Len(commands) \in Nat /\ k \in 1..Len(commands)
      BY <2>2 DEF Queue!QueueTypeOK
    <3>2. /\ a \in Seq(Handoffs) /\ Len(a) = k - 1
          /\ \A i \in 1..(k - 1) : a[i] = commands[i]
      BY <3>1
    <3>3. /\ b \in Seq(Handoffs) /\ Len(b) = Len(commands) - k
          /\ \A i \in 1..(Len(commands) - k) : b[i] = commands[k + i]
      BY <3>1
    <3>4. commands' = a \o b
      BY <2>3 DEF Queue!RemoveAt
    <3> HIDE DEF a, b
    <3>5. /\ commands' \in Seq(Handoffs) /\ Len(commands') = Len(commands) - 1
      <4>1. commands' \in Seq(Handoffs)
        BY <3>2, <3>3, <3>4
      <4>2. Len(commands') = Len(a) + Len(b)
        BY <3>2, <3>3, <3>4, ConcatProperties
      <4> QED
        BY <3>1, <3>2, <3>3, <4>1, <4>2
    <3>6. ASSUME NEW i \in 1..Len(commands')
          PROVE  commands'[i] = IF i < k THEN commands[i] ELSE commands[i + 1]
      <4>1. CASE i < k
        BY <3>1, <3>2, <3>3, <3>4, <3>5, <4>1
      <4>2. CASE ~(i < k)
        <5>1. i - (k - 1) \in 1..(Len(commands) - k)
          BY <3>1, <3>5, <4>2
        <5>2. commands'[i] = b[i - (k - 1)]
          BY <3>1, <3>2, <3>3, <3>4, <3>5, <4>2
        <5>3. k + (i - (k - 1)) = i + 1
          BY <3>1, <3>5
        <5> QED
          BY <3>3, <4>2, <5>1, <5>2, <5>3
      <4> QED
        BY <4>1, <4>2
    <3> QED
      BY <3>1, <3>5, <3>6
  <2>5. tally.replayed + 1 \in Nat
    BY DEF Queue!QueueTypeOK
  <2>6. Queue!QueueTypeOK'
    BY <2>3, <2>4, <2>5 DEF Queue!QueueTypeOK
  <2>7. Counted(tally, tally')
    BY <2>3 DEF Queue!QueueTypeOK, Counted
  <2>8. tally'.queued = tally.queued /\ tally'.replayed = tally.replayed + 1
    BY <2>3 DEF Queue!QueueTypeOK
  <2>9. tally'.queued = tally'.replayed + Len(commands')
    BY <2>4, <2>8 DEF Queue!CommandAccounting, Queue!QueueTypeOK
  <2>10. \A i, j \in 1..Len(commands') : commands'[i] = commands'[j] => i = j
    BY <2>2, <2>4 DEF Queue!CommandAccounting
  <2> QED
    BY <2>6, <2>7, <2>9, <2>10 DEF Queue!CommandAccounting
<1>3. ASSUME Queue!RecordReplayFailure
      PROVE  Queue!QueueTypeOK' /\ Queue!CommandAccounting' /\ Counted(tally, tally')
  <2>1. tally' = [tally EXCEPT !.failures = tally.failures + 1] /\ commands' = commands
    BY <1>3 DEF Queue!RecordReplayFailure
  <2>2. tally.failures + 1 \in Nat
    BY DEF Queue!QueueTypeOK
  <2>3. tally' \in [queued : Nat, replayed : Nat, failures : Nat]
    BY <2>1, <2>2 DEF Queue!QueueTypeOK
  <2>4. tally'.queued = tally.queued /\ tally'.replayed = tally.replayed
    BY <2>1 DEF Queue!QueueTypeOK
  <2> QED
    BY <2>1, <2>3, <2>4 DEF Queue!QueueTypeOK, Queue!CommandAccounting, Counted
<1> QED
  BY <1>1, <1>2, <1>3 DEF QueueCalls

-----------------------------------------------------------------------------
(* The watchers.                                                           *)

\* One watcher moves to r, the others stay; nobody loses what holds of them.
LEMMA OneMoves ==
  ASSUME EdgeInv, NEW w \in Watcher, NEW r \in WatcherState,
         watcher' = [watcher EXCEPT ![w] = r],
         r.pc \in StepName => r.what # "none",
         UNCHANGED <<eventFile, queueFile, edgeOn>>,
         column' \in {column, TRUE}, calls' \in {calls, calls + 1},
         Torn(r, tally, calls'), Warned(r, column')
  PROVE  EdgeInv'
<1>1. /\ EdgeTyped /\ tally' = tally /\ calls \in Nat /\ calls' \in Nat /\ edgeOn' = edgeOn
      /\ tally \in [queued : Nat, replayed : Nat, failures : Nat]
  BY DEF EdgeInv, EdgeTyped, queueFile, Queue!QueueTypeOK
<1>2. EdgeTyped' /\ Queue!CommandAccounting'
  BY <1>1 DEF EdgeInv, EdgeTyped, eventFile, queueFile, Events!BufferTypeOK, Queue!QueueTypeOK,
              Queue!CommandAccounting
<1>3. ASSUME NEW x \in Watcher
      PROVE  Torn(watcher[x]', tally, calls') /\ Warned(watcher[x]', column')
  <2>1. CASE x = w
    BY <1>1, <2>1 DEF EdgeTyped
  <2>2. CASE x # w
    <3>1. watcher[x]' = watcher[x] /\ watcher[x] \in WatcherState
      BY <1>1, <2>2 DEF EdgeTyped
    <3>2. Torn(watcher[x], tally, calls) /\ Warned(watcher[x], column)
      BY DEF EdgeInv, WatchersInv
    <3>3. Torn(watcher[x], tally, calls')
      BY <1>1, <3>1, <3>2, CallsKeep
    <3>4. Warned(watcher[x], column')
      BY <3>2 DEF Warned
    <3> QED
      BY <3>1, <3>3, <3>4
  <2> QED
    BY <2>1, <2>2
<1>4. WatchersInv'
  BY <1>1, <1>3 DEF WatchersInv, Torn, Warned
<1> QED
  BY <1>2, <1>4 DEF EdgeInv

\* A writer is at work.
LEMMA WritersKeep ==
  ASSUME EdgeInv, IngestionCalls \/ ReplayGoesOn \/ QueueCalls
  PROVE  EdgeInv'
<1>1. /\ EdgeTyped /\ calls \in Nat /\ watcher' = watcher /\ edgeOn' = edgeOn
      /\ tally \in [queued : Nat, replayed : Nat, failures : Nat]
      /\ calls' \in {calls, calls + 1} /\ column' \in {column, TRUE}
  BY DEF EdgeInv, EdgeTyped, Queue!QueueTypeOK, IngestionCalls, ReplayGoesOn, QueueCalls, Call
<1>2. Events!BufferTypeOK'
  <2>1. CASE QueueCalls
    BY <1>1, <2>1 DEF EdgeTyped, QueueCalls, eventFile, Events!BufferTypeOK
  <2> QED
    BY <1>1, <2>1, FileTyped
<1>3. /\ Queue!QueueTypeOK' /\ Queue!CommandAccounting'
      /\ \/ tally' = tally
         \/ Counted(tally, tally') /\ calls' = calls + 1
  <2>1. CASE QueueCalls
    BY <1>1, <2>1, QueueCallCounts DEF EdgeInv, EdgeTyped, QueueCalls, Call
  <2>2. CASE IngestionCalls \/ ReplayGoesOn
    BY <1>1, <2>2 DEF EdgeInv, EdgeTyped, IngestionCalls, ReplayGoesOn, queueFile,
                      Queue!QueueTypeOK, Queue!CommandAccounting
  <2> QED
    BY <2>1, <2>2
<1>4. EdgeTyped'
  <2>1. calls' \in Nat /\ column' \in BOOLEAN /\ edgeOn' \in BOOLEAN
    <3>1. column \in BOOLEAN /\ edgeOn \in BOOLEAN
      BY <1>1 DEF EdgeTyped
    <3>2. calls' \in Nat
      BY <1>1
    <3> QED
      BY <1>1, <3>1, <3>2
  <2>2. /\ watcher' \in [Watcher -> WatcherState]
        /\ \A w \in Watcher : watcher'[w].pc \in StepName => watcher'[w].what # "none"
    BY <1>1 DEF EdgeTyped
  <2> QED
    BY <1>2, <1>3, <2>1, <2>2 DEF EdgeTyped
<1>5. ASSUME NEW w \in Watcher
      PROVE  Torn(watcher[w], tally', calls') /\ Warned(watcher[w], column')
  <2>1. /\ watcher[w] \in WatcherState /\ Torn(watcher[w], tally, calls)
        /\ Warned(watcher[w], column)
    BY <1>1 DEF EdgeInv, EdgeTyped, WatchersInv
  <2>2. /\ tally' \in [queued : Nat, replayed : Nat, failures : Nat] /\ calls' \in Nat
    BY <1>1, <1>3 DEF Queue!QueueTypeOK
  <2>3. Torn(watcher[w], tally', calls')
    BY <1>1, <1>3, <2>1, <2>2, CallsKeep
  <2>4. Warned(watcher[w], column')
    BY <1>1, <2>1 DEF Warned
  <2> QED
    BY <2>3, <2>4
<1>6. WatchersInv'
  BY <1>1, <1>5 DEF WatchersInv, Torn, Warned
<1> QED
  BY <1>3, <1>4, <1>6 DEF EdgeInv

\* A step of an answer that changes neither file: to r, with the calls there were.
LEMMA StepsAlong ==
  ASSUME EdgeInv, NEW w \in Watcher, watcher[w].pc \in StepName,
         NEW r \in WatcherState, Continue(w, r),
         r.what = watcher[w].what,
         UNCHANGED <<eventFile, queueFile, edgeOn>>,
         column' \in {column, TRUE}, calls' = calls,
         NEW next, next = After(r.what, watcher[w].pc),
         next \in StepName \cup {"done"},
         NEW ans, ans = IF next = "done" THEN 200 ELSE 0,
         Torn([r EXCEPT !.pc = next, !.answer = ans], tally, calls),
         Warned([r EXCEPT !.pc = next, !.answer = ans], column')
  PROVE  EdgeInv'
<1> DEFINE q == [r EXCEPT !.pc = next, !.answer = ans]
<1>1. watcher' = [watcher EXCEPT ![w] = q]
  BY DEF Continue
<1>2. ans \in {0, 200, 500} /\ next \in StepName \cup {"idle", "done"}
  OBVIOUS
<1>3. q \in WatcherState
  <2> DEFINE p == [r EXCEPT !.pc = next]
  <2>1. p \in WatcherState
    BY <1>2 DEF WatcherState
  <2>2. q = [p EXCEPT !.answer = ans]
    BY DEF WatcherState
  <2> HIDE DEF p, q
  <2> QED
    BY <1>2, <2>1, <2>2 DEF WatcherState
<1>4. q.what # "none"
  BY DEF EdgeInv, EdgeTyped, WatcherState
<1>5. Torn(q, tally, calls') /\ Warned(q, column')
  OBVIOUS
<1>6. calls' \in {calls, calls + 1}
  OBVIOUS
<1> HIDE DEF q
<1> QED
  BY <1>1, <1>3, <1>4, <1>5, <1>6, OneMoves

\* A statement is read: what it shows is right if its figures are.
LEMMA ShowKeeps ==
  ASSUME EdgeInv, NEW w \in Watcher, watcher[w].pc \in StepName,
         NEW t \in ShownFlow, Show(w, t),
         UNCHANGED <<eventFile, queueFile, edgeOn>>,
         column' \in {column, TRUE}, calls' = calls,
         NEW next, next = After(watcher[w].what, watcher[w].pc),
         next \in (StepName \ {"alter"}) \cup {"done"},
         next = "queued" =>
           Close(t.commandDepth, tally.queued, tally.replayed, calls - watcher[w].since),
         next = "replayed" =>
           Close(t.commandDepth, t.commandsQueued, tally.replayed, calls - watcher[w].since),
         next \in {"failures", "done"} =>
           Close(t.commandDepth, t.commandsQueued, t.commandsReplayed, calls - watcher[w].since)
  PROVE  EdgeInv'
<1> DEFINE r == [watcher[w] EXCEPT !.shown = t]
           ans == IF next = "done" THEN 200 ELSE 0
           q == [r EXCEPT !.pc = next, !.answer = ans]
<1>1. watcher[w] \in WatcherState /\ Torn(watcher[w], tally, calls) /\ Warned(watcher[w], column)
  BY DEF EdgeInv, EdgeTyped, WatchersInv
<1>2. r \in WatcherState
  BY <1>1 DEF WatcherState
<1>3. /\ r.what = watcher[w].what /\ r.since = watcher[w].since /\ r.shown = t
      /\ r.clashes = watcher[w].clashes
  BY <1>1 DEF WatcherState
<1>4. Continue(w, r)
  BY DEF Show
<1> HIDE DEF r
<1>5. /\ q.pc = next /\ q.since = watcher[w].since /\ q.shown = t
      /\ q.clashes = watcher[w].clashes
  BY <1>2, <1>3 DEF WatcherState
<1>6. Torn(q, tally, calls)
  <2>1. watcher[w].since <= calls
    BY <1>1 DEF Torn
  <2> HIDE DEF q
  <2> QED
    BY <1>5, <2>1 DEF Torn
<1>7. Warned(q, column')
  <2> HIDE DEF q
  <2> QED
    BY <1>1, <1>5 DEF Warned
<1>8. ans = IF next = "done" THEN 200 ELSE 0
  OBVIOUS
<1>9. Torn([r EXCEPT !.pc = next, !.answer = ans], tally, calls)
      /\ Warned([r EXCEPT !.pc = next, !.answer = ans], column')
  BY <1>6, <1>7
<1> HIDE DEF ans, q
<1> QED
  BY <1>2, <1>3, <1>4, <1>8, <1>9, StepsAlong, ZenonT(60)

\* A watcher that takes one of its steps keeps what is known of it.
LEMMA StepKeeps ==
  ASSUME EdgeInv, NEW w \in Watcher, WatcherStep(w)
  PROVE  EdgeInv'
<1> DEFINE v == watcher[w]
           s == watcher[w].shown
           m == calls - watcher[w].since
<1>1. /\ EdgeTyped /\ v \in WatcherState /\ s \in ShownFlow /\ calls \in Nat /\ v.since \in Nat
      /\ v.pc \in StepName => v.what \in {"scrape", "portal"}
      /\ Torn(v, tally, calls) /\ Warned(v, column)
      /\ Events!BufferTypeOK /\ Queue!QueueTypeOK /\ Queue!CommandAccounting
  BY DEF EdgeInv, EdgeTyped, WatchersInv, WatcherState
<1>2. /\ counters.buffered \in Nat /\ counters.replayed \in Nat /\ counters.failures \in Nat
      /\ connectivity \in Events!Statuses /\ Len(buffer) \in Nat
      /\ tally.queued \in Nat /\ tally.replayed \in Nat /\ tally.failures \in Nat
      /\ Len(commands) \in Nat /\ tally.queued = tally.replayed + Len(commands)
  BY <1>1 DEF Events!BufferTypeOK, Queue!QueueTypeOK, Queue!CommandAccounting
<1>3. Nothing \in ShownFlow
  BY DEF Nothing, ShownFlow, Events!Statuses
<1> HIDE DEF v, s, m
<1>4. ASSUME ReadEventState(w) PROVE EdgeInv'
  <2> DEFINE t == [s EXCEPT !.buffered = counters.buffered, !.replayed = counters.replayed,
                     !.failures = counters.failures, !.status = connectivity]
  <2>1. t \in ShownFlow
    BY <1>1, <1>2 DEF ShownFlow
  <2>2. After(v.what, v.pc) = "event count" /\ v.pc = "event state"
    BY <1>1, <1>4, StepsFollow DEF ReadEventState, Reached, StepName, v
  <2>3. Show(w, t) /\ UNCHANGED <<fileVars, edgeOn, calls>>
    BY <1>4 DEF ReadEventState, s
  <2> HIDE DEF t
  <2> QED
    BY <2>1, <2>2, <2>3, ShowKeeps DEF v, StepName, fileVars
<1>5. ASSUME ReadEventCount(w) PROVE EdgeInv'
  <2> DEFINE t == [s EXCEPT !.depth = Len(buffer)]
  <2>1. t \in ShownFlow
    BY <1>1, <1>2 DEF ShownFlow
  <2>2. After(v.what, v.pc) \in {"look", "count"} /\ v.pc = "event count"
    BY <1>1, <1>5, StepsFollow DEF ReadEventCount, Reached, StepName, v
  <2>3. Show(w, t) /\ UNCHANGED <<fileVars, edgeOn, calls>>
    BY <1>5 DEF ReadEventCount, s
  <2> HIDE DEF t
  <2> QED
    BY <2>1, <2>2, <2>3, ShowKeeps DEF v, StepName, fileVars
<1>6. ASSUME AddColumn(w) PROVE EdgeInv'
  <2>1. v = [v EXCEPT !.shown = s]
    BY <1>1 DEF v, s, WatcherState
  <2>2. After(v.what, v.pc) \in {"count", "event state"} /\ v.pc = "alter"
    BY <1>1, <1>6, StepsFollow DEF AddColumn, Reached, StepName, v
  <2>3. Show(w, s) /\ UNCHANGED <<eventFile, queueFile, edgeOn, calls>> /\ column' = TRUE
    BY <1>6, <2>1 DEF AddColumn, Show, v
  <2> QED
    BY <1>1, <2>2, <2>3, ShowKeeps DEF v, StepName
<1>7. ASSUME ReadCommandCount(w) PROVE EdgeInv'
  <2> DEFINE t == [s EXCEPT !.commandDepth = Len(commands)]
  <2>1. t \in ShownFlow /\ t.commandDepth = Len(commands)
    BY <1>1, <1>2 DEF ShownFlow
  <2>2. After(v.what, v.pc) = "queued" /\ v.pc = "count"
    BY <1>1, <1>7, StepsFollow DEF ReadCommandCount, Reached, StepName, v
  <2>3. Show(w, t) /\ UNCHANGED <<fileVars, edgeOn, calls>>
    BY <1>7 DEF ReadCommandCount, s
  <2> HIDE DEF t
  <2>4. v.since <= calls
    BY <1>1 DEF Torn
  <2>5. Close(t.commandDepth, tally.queued, tally.replayed, calls - v.since)
    BY <1>1, <1>2, <2>1, <2>4, SMTT(30) DEF Close
  <2> QED
    BY <2>1, <2>2, <2>3, <2>5, ShowKeeps DEF v, StepName, fileVars
<1>8. ASSUME ReadQueued(w) PROVE EdgeInv'
  <2> DEFINE t == [s EXCEPT !.commandsQueued = tally.queued]
  <2>1. t \in ShownFlow /\ t.commandDepth = s.commandDepth /\ t.commandsQueued = tally.queued
    BY <1>1, <1>2 DEF ShownFlow
  <2>2. After(v.what, v.pc) = "replayed" /\ v.pc = "queued"
    BY <1>1, <1>8, StepsFollow DEF ReadQueued, Reached, StepName, v
  <2>3. Show(w, t) /\ UNCHANGED <<fileVars, edgeOn, calls>>
    BY <1>8 DEF ReadQueued, s
  <2> HIDE DEF t
  <2>4. Close(t.commandDepth, t.commandsQueued, tally.replayed, calls - v.since)
    BY <1>1, <2>1, <2>2 DEF Torn, v, s
  <2> QED
    BY <2>1, <2>2, <2>3, <2>4, ShowKeeps DEF v, StepName, fileVars
<1>9. ASSUME ReadCommandsReplayed(w) PROVE EdgeInv'
  <2> DEFINE t == [s EXCEPT !.commandsReplayed = tally.replayed]
  <2>1. /\ t \in ShownFlow /\ t.commandDepth = s.commandDepth
        /\ t.commandsQueued = s.commandsQueued /\ t.commandsReplayed = tally.replayed
    BY <1>1, <1>2 DEF ShownFlow
  <2>2. After(v.what, v.pc) = "failures" /\ v.pc = "replayed"
    BY <1>1, <1>9, StepsFollow DEF ReadCommandsReplayed, Reached, StepName, v
  <2>3. Show(w, t) /\ UNCHANGED <<fileVars, edgeOn, calls>>
    BY <1>9 DEF ReadCommandsReplayed, s
  <2> HIDE DEF t
  <2>4. Close(t.commandDepth, t.commandsQueued, t.commandsReplayed, calls - v.since)
    BY <1>1, <2>1, <2>2 DEF Torn, v, s
  <2> QED
    BY <2>1, <2>2, <2>3, <2>4, ShowKeeps DEF v, StepName, fileVars
<1>10. ASSUME ReadFailures(w) PROVE EdgeInv'
  <2> DEFINE t == [s EXCEPT !.commandFailures = tally.failures]
  <2>1. /\ t \in ShownFlow /\ t.commandDepth = s.commandDepth
        /\ t.commandsQueued = s.commandsQueued /\ t.commandsReplayed = s.commandsReplayed
    BY <1>1, <1>2 DEF ShownFlow
  <2>2. After(v.what, v.pc) = "done" /\ v.pc = "failures"
    BY <1>1, <1>10, StepsFollow DEF ReadFailures, Reached, StepName, v
  <2>3. Show(w, t) /\ UNCHANGED <<fileVars, edgeOn, calls>>
    BY <1>10 DEF ReadFailures, s
  <2> HIDE DEF t
  <2>4. Close(t.commandDepth, t.commandsQueued, t.commandsReplayed, calls - v.since)
    BY <1>1, <2>1, <2>2 DEF Torn, v, s
  <2> QED
    BY <2>1, <2>2, <2>3, <2>4, ShowKeeps DEF v, StepName, fileVars
<1>11. ASSUME LookAtSchema(w) PROVE EdgeInv'
  <2> DEFINE r == [v EXCEPT !.hasColumn = column]
             q == [r EXCEPT !.pc = "alter", !.answer = 0]
  <2>1. r \in WatcherState /\ r.what = v.what
    BY <1>1 DEF WatcherState, EdgeTyped
  <2>2. /\ q.pc = "alter" /\ q.since = v.since /\ q.clashes = v.clashes /\ q.hasColumn = column
    BY <1>1 DEF WatcherState
  <2>3. After(r.what, v.pc) = "alter" /\ v.pc = "look"
    BY <1>1, <1>11, <2>1, StepsFollow DEF LookAtSchema, Reached, StepName, v
  <2>4. Continue(w, r) /\ UNCHANGED <<fileVars, edgeOn, calls>>
    BY <1>11 DEF LookAtSchema, v, SeesColumn
  <2>5. Torn(q, tally, calls) /\ Warned(q, column')
    <3> HIDE DEF q
    <3> QED
      BY <1>1, <2>2, <2>4 DEF Torn, Warned, fileVars
  <2> HIDE DEF r
  <2> QED
    BY <2>1, <2>3, <2>4, <2>5, StepsAlong DEF v, StepName, fileVars
<1>12. ASSUME Watch(w) PROVE EdgeInv'
  <2>1. PICK what \in {"scrape", "portal"} :
       watcher' = [watcher EXCEPT ![w] =
         [v EXCEPT !.what = what, !.since = calls, !.answer = IF edgeOn THEN 0 ELSE 200,
                   !.pc = IF edgeOn THEN Steps(what)[1] ELSE "done",
                   !.shown = [Nothing EXCEPT !.eventsUp = edgeOn, !.commandsUp = edgeOn,
                                !.status = IF edgeOn THEN "unknown" ELSE "disabled"]]]
    BY <1>12 DEF Watch, v
  <2> DEFINE ans == IF edgeOn THEN 0 ELSE 200
             step == IF edgeOn THEN Steps(what)[1] ELSE "done"
             t == [Nothing EXCEPT !.eventsUp = edgeOn, !.commandsUp = edgeOn,
                                !.status = IF edgeOn THEN "unknown" ELSE "disabled"]
             half == [v EXCEPT !.what = what, !.since = calls, !.answer = ans]
             r == [half EXCEPT !.pc = step, !.shown = t]
  <2>2. Steps(what)[1] \in {"event state", "look"}
    BY DEF Steps
  <2>3. t \in ShownFlow
    BY <1>1, <1>3 DEF ShownFlow, EdgeTyped, Events!Statuses
  <2>4. ans \in {0, 200} /\ step \in {"event state", "look", "done"}
        /\ (step = "done" => ~edgeOn)
    BY <2>2
  <2> HIDE DEF ans, step, t
  <2>5. watcher' = [watcher EXCEPT ![w] = r]
    BY <2>1 DEF ans, step, t
  <2>6. /\ half \in WatcherState /\ half.what = what /\ half.since = calls
        /\ half.clashes = v.clashes
    <3>1. calls \in Nat /\ v \in WatcherState
      BY <1>1
    <3>2. half \in WatcherState
      BY <2>4, <3>1, ZenonT(60) DEF WatcherState
    <3>3. half.what = what /\ half.since = calls /\ half.clashes = v.clashes
      BY <3>1 DEF WatcherState
    <3> QED
      BY <3>2, <3>3
  <2> HIDE DEF half
  <2>7. r \in WatcherState
    BY <2>3, <2>4, <2>6, ZenonT(60) DEF WatcherState, StepName
  <2>8. r.what = what /\ r.since = calls /\ r.pc = step /\ r.clashes = v.clashes
    BY <2>6 DEF WatcherState
  <2> HIDE DEF r
  <2>9. Torn(r, tally, calls) /\ Warned(r, column)
    <3>1. calls <= calls
      BY <1>1
    <3>2. r.pc \notin {"queued", "replayed", "failures", "alter"} /\ ~(edgeOn /\ r.pc = "done")
      BY <2>4, <2>8
    <3> QED
      BY <1>1, <2>8, <3>1, <3>2 DEF Torn, Warned
  <2>10. r.what # "none"
    BY <2>8
  <2>11. /\ column' = column /\ calls' = calls /\ UNCHANGED <<eventFile, queueFile, edgeOn>>
    BY <1>12 DEF Watch, fileVars
  <2> QED
    BY <2>5, <2>7, <2>9, <2>10, <2>11, OneMoves
<1>13. ASSUME ColumnClashes(w) PROVE EdgeInv'
  <2>1. /\ v.pc = "alter" /\ ~v.hasColumn /\ column = TRUE
        /\ column' = column /\ calls' = calls /\ UNCHANGED <<eventFile, queueFile, edgeOn>>
    BY <1>1, <1>13 DEF ColumnClashes, Reached, v, fileVars, EdgeTyped
  <2>2. v.clashes = 0 /\ v.since <= calls
    BY <1>1, <2>1 DEF Warned, Torn
  <2> DEFINE t == IF v.what = "portal" THEN Nothing ELSE [s EXCEPT !.commandsUp = FALSE]
             ans == IF v.what = "portal" THEN 500 ELSE 200
             r == [v EXCEPT !.pc = "done", !.answer = ans, !.shown = t,
                            !.clashes = v.clashes + 1]
  <2>3. watcher' = [watcher EXCEPT ![w] = r]
    <3>1. CASE v.what = "portal"
      BY <1>13, <3>1 DEF ColumnClashes, Clash, v
    <3>2. CASE v.what # "portal"
      <4>1. watcher' = [watcher EXCEPT ![w] =
              [v EXCEPT !.pc = "done", !.answer = 200, !.shown.commandsUp = FALSE,
                        !.clashes = v.clashes + 1]]
        BY <1>13, <3>2 DEF ColumnClashes, Clash, v
      <4>2. r = [v EXCEPT !.pc = "done", !.answer = 200, !.shown.commandsUp = FALSE,
                          !.clashes = v.clashes + 1]
        BY <3>2 DEF s, v
      <4> QED
        BY <4>1, <4>2
    <3> QED
      BY <3>1, <3>2
  <2>4. t \in ShownFlow /\ (v.what # "portal" => t.commandsUp = FALSE)
    BY <1>1, <1>3 DEF ShownFlow
  <2>5. ans \in {0, 200, 500} /\ (v.what = "portal" => ans # 200)
    OBVIOUS
  <2>6. v.clashes + 1 \in Nat /\ v.clashes + 1 = 1
    BY <2>2
  <2> HIDE DEF t, ans
  <2>7. r \in WatcherState
    <3> DEFINE more == v.clashes + 1
    <3>1. more \in Nat
      BY <2>6
    <3> HIDE DEF more
    <3>2. [v EXCEPT !.pc = "done", !.answer = ans, !.shown = t, !.clashes = more]
            \in WatcherState
      BY <1>1, <2>4, <2>5, <3>1, ZenonT(60) DEF WatcherState
    <3> QED
      BY <3>2 DEF more
  <2>8. r.pc = "done" /\ r.answer = ans /\ r.shown = t /\ r.clashes = v.clashes + 1
        /\ r.since = v.since
    BY <1>1 DEF WatcherState
  <2> HIDE DEF r
  <2>9. Torn(r, tally, calls)
    BY <2>2, <2>4, <2>5, <2>8 DEF Torn
  <2>10. Warned(r, column)
    BY <2>1, <2>6, <2>8 DEF Warned
  <2>11. r.pc \in StepName => r.what # "none"
    BY <2>8 DEF StepName
  <2> QED
    BY <2>1, <2>3, <2>7, <2>9, <2>10, <2>11, OneMoves
<1>14. ASSUME ReadingFails(w) PROVE EdgeInv'
  <2>1. /\ v.pc \in StepName /\ calls' = calls + 1 /\ column' = column
        /\ UNCHANGED <<eventFile, queueFile, edgeOn>> /\ Unread(w) /\ v.since <= calls
    BY <1>1, <1>14 DEF ReadingFails, Call, fileVars, v, WatcherState, Torn
  <2>2. CASE v.what = "portal"
    <3> DEFINE t == Nothing
               ans == 500
               r == [v EXCEPT !.pc = "done", !.answer = ans, !.shown = t]
    <3>1. watcher' = [watcher EXCEPT ![w] = r]
      BY <2>1, <2>2 DEF Unread, PortalFails, v
    <3>2. t \in ShownFlow /\ ans \in {0, 200, 500} /\ ans # 200
      BY <1>3
    <3> HIDE DEF t, ans
    <3>3. r \in WatcherState
      BY <1>1, <3>2, ZenonT(60) DEF WatcherState
    <3>4. r.pc = "done" /\ r.answer = ans /\ r.clashes = v.clashes /\ r.since = v.since
      BY <1>1 DEF WatcherState
    <3> HIDE DEF r
    <3>5. Torn(r, tally, calls') /\ Warned(r, column)
      BY <1>1, <2>1, <3>2, <3>4 DEF Torn, Warned
    <3>6. r.pc \in StepName => r.what # "none"
      BY <3>4 DEF StepName
    <3> QED
      BY <2>1, <3>1, <3>3, <3>5, <3>6, OneMoves
  <2>3. CASE v.what # "portal" /\ v.pc \in {"event state", "event count"}
    <3> DEFINE t == [Nothing EXCEPT !.commandsUp = TRUE]
               r == [v EXCEPT !.pc = "look", !.shown = t]
    <3>1. watcher' = [watcher EXCEPT ![w] = r]
      BY <2>1, <2>3 DEF Unread, EventsUnread, v
    <3>2. t \in ShownFlow
      BY <1>3 DEF ShownFlow
    <3> HIDE DEF t
    <3>3. r \in WatcherState
      BY <1>1, <3>2, ZenonT(60) DEF WatcherState, StepName
    <3>4. r.pc = "look" /\ r.clashes = v.clashes /\ r.since = v.since /\ r.what = v.what
      BY <1>1 DEF WatcherState
    <3> HIDE DEF r
    <3>5. Torn(r, tally, calls') /\ Warned(r, column)
      BY <1>1, <2>1, <3>4 DEF Torn, Warned
    <3>6. r.what # "none"
      BY <1>1, <2>1, <3>4
    <3> QED
      BY <2>1, <3>1, <3>3, <3>5, <3>6, OneMoves
  <2>4. CASE v.what # "portal" /\ v.pc \notin {"event state", "event count"}
    <3> DEFINE t == [s EXCEPT !.commandsUp = FALSE, !.commandDepth = 0, !.commandsQueued = 0,
                        !.commandsReplayed = 0]
               r == [v EXCEPT !.pc = "done", !.answer = 200, !.shown = t]
    <3>1. watcher' = [watcher EXCEPT ![w] = r]
      BY <2>1, <2>4 DEF Unread, CommandsUnread, v, s
    <3>2. t \in ShownFlow /\ t.commandsUp = FALSE
      BY <1>1 DEF ShownFlow
    <3> HIDE DEF t
    <3>3. r \in WatcherState
      BY <1>1, <3>2, ZenonT(60) DEF WatcherState
    <3>4. r.pc = "done" /\ r.shown = t /\ r.clashes = v.clashes /\ r.since = v.since
      BY <1>1 DEF WatcherState
    <3> HIDE DEF r
    <3>5. Torn(r, tally, calls') /\ Warned(r, column)
      BY <1>1, <2>1, <3>2, <3>4 DEF Torn, Warned
    <3> QED
      BY <2>1, <3>1, <3>3, <3>4, <3>5, OneMoves DEF StepName
  <2> QED
    BY <2>2, <2>3, <2>4
<1>15. ASSUME Again(w) PROVE EdgeInv'
  <2> DEFINE kept == v.last
             events == IF s.eventsUp THEN s ELSE kept
             filed == IF s.commandsUp THEN s ELSE kept
             t == [filed EXCEPT !.buffered = events.buffered, !.replayed = events.replayed,
                       !.failures = events.failures, !.depth = 0, !.commandDepth = 0,
                       !.status = "unknown", !.eventsUp = FALSE, !.commandsUp = FALSE]
             r == [NewWatcher EXCEPT !.clashes = v.clashes, !.last = t]
  <2>1. /\ watcher' = [watcher EXCEPT ![w] = r] /\ column' = column /\ calls' = calls
        /\ UNCHANGED <<eventFile, queueFile, edgeOn>>
    BY <1>15 DEF Again, v, s, fileVars
  <2>2. events \in ShownFlow /\ filed \in ShownFlow
    BY <1>1 DEF WatcherState
  <2> HIDE DEF events, filed
  <2>3. t \in ShownFlow
    BY <2>2 DEF ShownFlow, Events!Statuses
  <2> HIDE DEF t
  <2>4. r \in WatcherState /\ r.pc = "idle" /\ r.since = 0 /\ r.clashes = v.clashes
    BY <1>1, <1>3, <2>3, ZenonT(60) DEF WatcherState, NewWatcher
  <2> HIDE DEF r
  <2>5. Torn(r, tally, calls) /\ Warned(r, column)
    BY <1>1, <2>4 DEF Torn, Warned
  <2> QED
    BY <2>1, <2>4, <2>5, OneMoves DEF StepName
<1> QED
  BY <1>4, <1>5, <1>6, <1>7, <1>8, <1>9, <1>10, <1>11, <1>12, <1>13, <1>14, <1>15
     DEF WatcherStep

\* Every step of the writers and the watchers keeps EdgeInv.
LEMMA EdgeStatusInvariance == EdgeStatusInit /\ [][EdgeStatusNext]_edgeVars => []EdgeInv
<1>1. EdgeInv /\ [EdgeStatusNext]_edgeVars => EdgeInv'
  <2> SUFFICES ASSUME EdgeInv, [EdgeStatusNext]_edgeVars PROVE EdgeInv'
    OBVIOUS
  <2>1. CASE EdgeStatusNext
    BY <2>1, WritersKeep, StepKeeps DEF EdgeStatusNext
  <2>2. CASE UNCHANGED edgeVars
    BY <2>2 DEF edgeVars, fileVars, eventFile, queueFile, EdgeInv, EdgeTyped, WatchersInv, Torn,
                Warned, Events!BufferTypeOK, Queue!QueueTypeOK, Queue!CommandAccounting
  <2> QED
    BY <2>1, <2>2
<1> QED
  BY <1>1, EdgeInitially, PTL

\* The invariant is more than what is promised.
LEMMA EdgeShown == EdgeInv => DepthWithinTotals /\ ClashesOnce
<1> SUFFICES ASSUME EdgeInv PROVE DepthWithinTotals /\ ClashesOnce
  OBVIOUS
<1>1. DepthWithinTotals
  BY DEF EdgeInv, WatchersInv, DepthWithinTotals, Complete, Reached, Torn, Close
<1>2. ClashesOnce
  BY DEF EdgeInv, WatchersInv, ClashesOnce, Warned
<1> QED
  BY <1>1, <1>2

-----------------------------------------------------------------------------
(***************************************************************************)
(* Failure events and reliability figures (Registry).                      *)
(***************************************************************************)

\* The downtimes of finitely many failures add up to a number of hours.
LEMMA DownTotal ==
  ASSUME NEW S, IsFiniteSet(S), \A x \in S : Downtime(x) \in Nat
  PROVE  MapThenSumSet(Downtime, S) \in Nat
<1> DEFINE w == [x \in S |-> Downtime(x)]
           D(g) == [s \in SUBSET S |-> IF s = {} THEN 0
                          ELSE Downtime(CHOOSE x \in s : TRUE) + g[s \ {CHOOSE x \in s : TRUE}]]
           h == CHOOSE g : g = D(g)
<1>1. \A x \in S : w[x] = Downtime(x) /\ w[x] \in Nat
  OBVIOUS
<1> HIDE DEF w
<1>2. PICK f : AddsUp(f, w, S)
  BY SumExists
<1>3. f = D(f)
  <2>1. ASSUME NEW s \in SUBSET S, s # {} PROVE One(s) \in S
    BY <2>1 DEF One
  <2>2. \A s \in SUBSET S : f[s] = IF s = {} THEN 0 ELSE Downtime(One(s)) + f[s \ {One(s)}]
    BY <1>1, <1>2, <2>1 DEF AddsUp
  <2> QED
    BY <1>2, <2>2 DEF AddsUp, One
<1>4. h = D(h)
  BY <1>3
<1>5. MapThenSumSet(Downtime, S) = h[S]
  BY DEF MapThenSumSet, MapThenFoldSet
<1> HIDE DEF h
<1>6. AddsUp(h, w, S)
  <2>1. ASSUME NEW s \in SUBSET S, s # {} PROVE One(s) \in S
    BY <2>1 DEF One
  <2>2. \A s \in SUBSET S : h[s] = IF s = {} THEN 0 ELSE Downtime(One(s)) + h[s \ {One(s)}]
    BY <1>4 DEF One
  <2>3. h = [s \in SUBSET S |-> h[s]]
    BY <1>4
  <2> QED
    BY <1>1, <2>1, <2>2, <2>3 DEF AddsUp
<1>7. h[S] \in Nat
  BY <1>1, <1>6, SumOfNaturals
<1> QED
  BY <1>5, <1>7

-----------------------------------------------------------------------------
(***************************************************************************)
(* The figures of the failures of one unit.                                *)
(***************************************************************************)

\* A failure the figures may be computed from: it lies in the window, so its
\* start is known.
Timed(f) == f.start \in Int /\ {f.restored, f.down} \subseteq Int \cup {NoValue}

\* What AvailabilityHonest says of the figures of one unit.
Honest(r) ==
  LET a == r.availability
  IN  a # NoValue =>
        /\ 0 < a[1] /\ a[1] <= a[2]
        /\ a[1] * Observed <= r.operating * a[2]
        /\ r.known = r.count => a[1] * Observed = r.operating * a[2]

\* A share of what is observed, count failures of which known have a downtime.
LEMMA ShareHonest ==
  ASSUME NEW count \in Nat, NEW known \in Nat, known <= count, NEW down \in Nat,
         NEW op \in Nat, op > 0, op = Observed - down, NEW seen \in Nat, seen = Observed,
         known > 0
  PROVE  LET up == op * known
             all == op * known + down * count
         IN  /\ up \in Nat /\ all \in Nat /\ 0 < up /\ up <= all /\ all > 0
             /\ up * Observed <= op * all
             /\ known = count => up * Observed = op * all
<1>1. PICK more \in Nat : count = known + more
  <2>1. count - known \in Nat /\ count = known + (count - known)
    OBVIOUS
  <2> QED
    BY <2>1
<1>2. Observed = op + down
  OBVIOUS
<1> DEFINE a == op * known
           b == down * known
           c == down * more
<1>3. a \in Nat /\ b \in Nat /\ c \in Nat /\ a > 0
  OBVIOUS
<1>4. down * count = b + c
  BY <1>1
<1>5. (op * known) * Observed = op * (a + b)
  BY <1>2
<1>6. op * (a + b + c) = op * (a + b) + op * c
  BY <1>3
<1>7. op * c \in Nat /\ op * (a + b) \in Nat
  BY <1>3
<1>8. op * known + down * count = a + b + c
  BY <1>3, <1>4
<1>9. known = count => c = 0
  BY <1>1
<1> HIDE DEF a, b, c
<1>10. known = count => op * c = 0
  BY <1>9
<1>11. a = op * known
  BY DEF a
<1> QED
  BY <1>3, <1>5, <1>6, <1>7, <1>8, <1>10, <1>11

\* The figures count the failures, and are honest about them.
LEMMA FiguresHonest ==
  ASSUME NEW rows, IsFiniteSet(rows), \A f \in rows : Timed(f)
  PROVE  /\ FiguresOf(rows).count = Cardinality(rows)
         /\ Honest(FiguresOf(rows))
<1> DEFINE count == Cardinality(rows)
           those == WithDowntime(rows)
           down == TotalDowntime(rows)
           known == Cardinality(those)
           op == IF rows = {} THEN 0 ELSE Larger(Observed - down, 0)
           mtbf == CalculateMtbf(op, count)
           mttr == CalculateMttr(down, known)
           a == CalculateAvailability(mtbf, mttr)
<1>1. FiguresOf(rows) =
        [count |-> count, known |-> known, downtime |-> down, operating |-> op,
         mtbf |-> mtbf, mttr |-> mttr, availability |-> a,
         rate |-> CalculateFailureRate(op, count)]
  BY DEF FiguresOf, CalculateReliability
<1>2. \A f \in those : Downtime(f) \in Nat
  <2> SUFFICES ASSUME NEW f \in those PROVE Downtime(f) \in Nat
    OBVIOUS
  <2>1. f \in rows /\ Downtime(f) # NoValue /\ Downtime(f) >= 0
    BY DEF WithDowntime
  <2>2. Downtime(f) \in Int
    BY <2>1 DEF Downtime, Timed, Larger
  <2> QED
    BY <2>1, <2>2
<1>3. those \subseteq rows
  BY DEF WithDowntime
<1>4. /\ IsFiniteSet(those) /\ count \in Nat /\ known \in Nat /\ known <= count
  BY <1>3, FS_Subset, FS_CardinalityType
<1>5. down \in Nat
  <2> HIDE DEF those
  <2>1. MapThenSumSet(Downtime, those) \in Nat
    BY <1>2, <1>4, DownTotal
  <2> QED
    BY <2>1 DEF TotalDowntime, those
<1>6. op \in Nat /\ (op > 0 => op = Observed - down)
  BY <1>5, RegistryAssumption DEF Larger
<1> HIDE DEF count, those, down, known, op
<1>7. ASSUME a # NoValue
      PROVE  /\ 0 < a[1] /\ a[1] <= a[2]
             /\ a[1] * Observed <= op * a[2]
             /\ known = count => a[1] * Observed = op * a[2]
  <2>1. mtbf # NoValue /\ mttr # NoValue
    BY <1>7 DEF CalculateAvailability
  <2>2. /\ mtbf = <<op, count>> /\ mttr = <<down, known>>
        /\ ~ (count <= 0 \/ op <= 0) /\ ~ (known <= 0)
    BY <2>1 DEF CalculateMtbf, CalculateMttr
  <2>3. count > 0 /\ op > 0 /\ known > 0
    BY <1>4, <1>6, <2>2
  <2>4. mtbf[1] = op /\ mtbf[2] = count /\ mttr[1] = down /\ mttr[2] = known
    BY <2>2
  <2> DEFINE up == op * known
             all == op * known + down * count
  <2>5. /\ up \in Nat /\ all \in Nat /\ 0 < up /\ up <= all /\ all > 0
        /\ up * Observed <= op * all
        /\ known = count => up * Observed = op * all
    BY <1>4, <1>5, <1>6, <2>3, ShareHonest, RegistryAssumption
  <2> HIDE DEF mtbf, mttr
  <2>6. a = <<up, all>>
    <3>1. ~ (all <= 0)
      BY <2>5
    <3> HIDE DEF all
    <3>2. all = up + down * count
      BY DEF all
    <3> QED
      BY <2>1, <2>4, <3>1, <3>2 DEF CalculateAvailability
  <2>7. a[1] = up /\ a[2] = all
    BY <2>6
  <2> HIDE DEF a, up, all
  <2> QED
    BY <2>5, <2>7
<1> HIDE DEF a, mtbf, mttr
<1>8. /\ FiguresOf(rows).count = count /\ FiguresOf(rows).known = known
      /\ FiguresOf(rows).operating = op /\ FiguresOf(rows).availability = a
  BY <1>1
<1> QED
  BY <1>7, <1>8 DEF Honest, count

-----------------------------------------------------------------------------
(***************************************************************************)
(* The reader.  What it was shown stays in the table: events are inserted, *)
(* never updated or deleted.                                               *)
(***************************************************************************)

HasParts(i) ==
  i = [pc |-> i.pc, page |-> i.page, who |-> i.who, of |-> i.of, class |-> i.class,
       shown |-> i.shown, similar |-> i.similar, figures |-> i.figures, end |-> i.end]

OfTenant(i, f) ==
  TenantScope(i.who, None) = None \/ f.tenant = TenantScope(i.who, None)

\* The failures of u shown that are still in the window when the figures are.
Due(i, u) ==
  {f \in i.shown : f.unit = u /\ f.start # NoValue /\ f.start >= i.end - Observed}

Covered(i) ==
  \A u \in {f.unit : f \in i.shown} \ {None} :
    Due(i, u) # {} => u \in DOMAIN i.figures
                      /\ i.figures[u].count >= Cardinality(Due(i, u))

InquiryTold(i, stored) ==
  /\ HasParts(i)
  /\ i.shown \subseteq stored
  /\ \A u \in DOMAIN i.figures : Honest(i.figures[u])
  /\ i.pc \in {"hierarchy", "history", "similar", "reliability"} => i.page = "context"
  /\ i.pc \in {"similar", "reliability"} => \A f \in i.shown : f.unit = i.of
  /\ i.pc \in {"idle", "listed"} => i.page = "none"
  /\ i.pc = "listed" => \A f \in i.shown : OfTenant(i, f)
  /\ i.pc = "legacy" => i.page = "asset"
  /\ i.pc = "done" /\ (i.page = "fleet" => i.class = None) /\ i.page # "asset" => Covered(i)

TableTyped ==
  /\ IsFiniteSet(failures) /\ \A f \in failures : HasFields(f) /\ HasHours(f)
  /\ IsFiniteSet(alarms) /\ alarms \subseteq Alarms
  /\ hour \in Nat

RegistryInv == TableTyped /\ InquiryTold(inquiry, failures)

\* More events stored change nothing for the reader.
LEMMA MoreStored ==
  ASSUME NEW i, NEW a, NEW b, a \subseteq b, InquiryTold(i, a)
  PROVE  InquiryTold(i, b)
  BY DEF InquiryTold

\* Initially the table is empty and nobody asked.
LEMMA RegistryInitially == RegistryInit => RegistryInv
<1> SUFFICES ASSUME RegistryInit PROVE RegistryInv
  OBVIOUS
<1>1. TableTyped
  BY FS_EmptySet, RegistryAssumption DEF RegistryInit, TableTyped
<1>2. DOMAIN <<>> = {}
  OBVIOUS
<1>3. InquiryTold(NewInquiry, {})
  BY <1>2 DEF InquiryTold, NewInquiry, HasParts
<1> QED
  BY <1>1, <1>3 DEF RegistryInv, RegistryInit

\* The writers, and the time.
LEMMA WritersKeepTables ==
  ASSUME RegistryInv,
         CreateFailureEvent \/ UpsertEquipment \/ RaiseAlarm \/ HourPasses
  PROVE  RegistryInv'
<1>1. TableTyped /\ InquiryTold(inquiry, failures)
  BY DEF RegistryInv
<1>2. CASE CreateFailureEvent
  <2>1. PICK body \in Posts, request \in Requests :
          failures' = IF \E f \in failures : f.id = body.id THEN failures
                      ELSE failures \cup {[body EXCEPT !.tenant = TenantScope(ResolveIdentity(request), @)]}
    BY <1>2 DEF CreateFailureEvent
  <2> DEFINE t == TenantScope(ResolveIdentity(request), body.tenant)
             new == [body EXCEPT !.tenant = t]
  <2>2. failures' = failures \/ failures' = failures \cup {new}
    BY <2>1
  <2> HIDE DEF t
  <2>3. HasFields(body) /\ HasHours(body)
    BY RegistryAssumption
  <2>4. /\ new = [id |-> body.id, tenant |-> t, unit |-> body.unit, asset |-> body.asset,
                  start |-> body.start, restored |-> body.restored, down |-> body.down]
    BY <2>3 DEF HasFields
  <2> HIDE DEF new
  <2>5. /\ new.id = body.id /\ new.tenant = t /\ new.unit = body.unit /\ new.asset = body.asset
        /\ new.start = body.start /\ new.restored = body.restored /\ new.down = body.down
    BY <2>4
  <2>6. HasFields(new) /\ HasHours(new)
    BY <2>3, <2>4, <2>5 DEF HasFields, HasHours
  <2>7. failures \subseteq failures' /\ IsFiniteSet(failures')
    BY <1>1, <2>2, FS_AddElement DEF TableTyped
  <2>8. UNCHANGED <<alarms, hour, inquiry>>
    BY <1>2 DEF CreateFailureEvent
  <2>9. TableTyped'
    BY <1>1, <2>2, <2>6, <2>7, <2>8 DEF TableTyped
  <2> QED
    BY <1>1, <2>7, <2>8, <2>9, MoreStored DEF RegistryInv
<1>3. CASE UpsertEquipment
  BY <1>1, <1>3 DEF UpsertEquipment, RegistryInv, TableTyped
<1>4. CASE RaiseAlarm
  <2>1. PICK a \in Alarms : alarms' = alarms \cup {a}
    BY <1>4 DEF RaiseAlarm
  <2>2. IsFiniteSet(alarms') /\ alarms' \subseteq Alarms
    BY <1>1, <2>1, FS_AddElement DEF TableTyped
  <2>3. UNCHANGED <<failures, hour, inquiry>>
    BY <1>4 DEF RaiseAlarm
  <2> QED
    BY <1>1, <2>2, <2>3 DEF RegistryInv, TableTyped
<1>5. CASE HourPasses
  BY <1>1, <1>5 DEF HourPasses, RegistryInv, TableTyped
<1> QED
  BY <1>2, <1>3, <1>4, <1>5

\* The figures of stored failures that lie in the window are honest, and
\* count every one of them that was shown.
LEMMA RowsHonest ==
  ASSUME TableTyped, NEW rows \in SUBSET failures, \A f \in rows : Since(f)
  PROVE  /\ IsFiniteSet(rows) /\ Honest(FiguresOf(rows))
         /\ FiguresOf(rows).count = Cardinality(rows)
         /\ \A s \in SUBSET rows : FiguresOf(rows).count >= Cardinality(s)
<1>1. IsFiniteSet(rows)
  BY FS_Subset DEF TableTyped
<1>2. \A f \in rows : Timed(f)
  BY DEF TableTyped, Timed, HasHours, Since
<1>3. Honest(FiguresOf(rows)) /\ FiguresOf(rows).count = Cardinality(rows)
  BY <1>1, <1>2, FiguresHonest
<1>4. ASSUME NEW s \in SUBSET rows PROVE Cardinality(s) <= Cardinality(rows)
  BY <1>1, FS_Subset
<1>5. ASSUME NEW s \in SUBSET rows PROVE FiguresOf(rows).count >= Cardinality(s)
  <2>1. Cardinality(rows) \in Nat /\ Cardinality(s) \in Nat
    BY <1>1, FS_Subset, FS_CardinalityType
  <2> QED
    BY <1>3, <1>4, <2>1
<1> QED
  BY <1>1, <1>3, <1>5

\* The queries of the reader.
LEMMA InquiryKeeps ==
  ASSUME RegistryInv, InquiryStep
  PROVE  RegistryInv'
<1>1. TableTyped /\ InquiryTold(inquiry, failures) /\ TableTyped'
      /\ failures' = failures /\ hour' = hour
  BY DEF RegistryInv, InquiryStep, TableTyped
<1> SUFFICES InquiryTold(inquiry', failures)
  BY <1>1 DEF RegistryInv
<1> DEFINE i == inquiry
<1>2. HasParts(i)
  BY <1>1 DEF InquiryTold
<1>3. CASE AskContext
  <2>1. PICK request \in Requests, f \in Posts :
          inquiry' = [inquiry EXCEPT !.pc = "hierarchy", !.page = "context",
                        !.who = ResolveIdentity(request), !.of = f.unit]
    BY <1>3 DEF AskContext
  <2> DEFINE who == ResolveIdentity(request)
  <2>2. inquiry' = [pc |-> "hierarchy", page |-> "context", who |-> who, of |-> f.unit,
                    class |-> i.class, shown |-> i.shown, similar |-> i.similar,
                    figures |-> i.figures, end |-> i.end]
    BY <1>2, <2>1 DEF HasParts
  <2> HIDE DEF who
  <2> QED
    BY <1>1, <2>2 DEF InquiryTold, HasParts
<1>4. CASE GetHierarchyContext
  <2> DEFINE class == IF i.of \in DOMAIN units THEN units[i.of] ELSE None
  <2>1. /\ inquiry' = [pc |-> "history", page |-> i.page, who |-> i.who, of |-> i.of,
                       class |-> class, shown |-> i.shown, similar |-> i.similar,
                       figures |-> i.figures, end |-> i.end]
        /\ i.pc = "hierarchy"
    BY <1>2, <1>4 DEF GetHierarchyContext, HasParts
  <2> HIDE DEF class
  <2> QED
    BY <1>1, <2>1 DEF InquiryTold, HasParts
<1>5. CASE GetFailureHistory
  <2>1. PICK rows \in Newest(OfUnit(inquiry.of), ListLimit) :
          inquiry' = [inquiry EXCEPT !.shown = rows,
                        !.pc = IF inquiry.class = None THEN "reliability" ELSE "similar"]
    BY <1>5 DEF GetFailureHistory
  <2> DEFINE next == IF inquiry.class = None THEN "reliability" ELSE "similar"
  <2>2. /\ inquiry' = [pc |-> next, page |-> i.page, who |-> i.who, of |-> i.of,
                       class |-> i.class, shown |-> rows, similar |-> i.similar,
                       figures |-> i.figures, end |-> i.end]
        /\ i.pc = "history" /\ next \in {"reliability", "similar"}
    BY <1>2, <1>5, <2>1 DEF GetFailureHistory, HasParts
  <2>3. rows \subseteq failures /\ \A f \in rows : f.unit = i.of
    BY DEF Newest, OfUnit
  <2> HIDE DEF next
  <2> QED
    BY <1>1, <2>2, <2>3 DEF InquiryTold, HasParts
<1>6. CASE GetSimilarEquipmentFailures
  <2>1. PICK rows \in Newest(SimilarRows(inquiry.class, inquiry.of), ListLimit) :
          inquiry' = [inquiry EXCEPT !.similar = rows, !.pc = "reliability"]
    BY <1>6 DEF GetSimilarEquipmentFailures
  <2>2. /\ inquiry' = [pc |-> "reliability", page |-> i.page, who |-> i.who, of |-> i.of,
                       class |-> i.class, shown |-> i.shown, similar |-> rows,
                       figures |-> i.figures, end |-> i.end]
        /\ i.pc = "similar"
    BY <1>2, <1>6, <2>1 DEF GetSimilarEquipmentFailures, HasParts
  <2> QED
    BY <1>1, <2>2 DEF InquiryTold, HasParts
<1>7. CASE GetEquipmentReliability
  <2> DEFINE rows == OfUnit(i.of)
             figures == [u \in {i.of} |-> FiguresOf(OfUnit(u))]
             j == [pc |-> "done", page |-> i.page, who |-> i.who, of |-> i.of,
                   class |-> i.class, shown |-> i.shown, similar |-> i.similar,
                   figures |-> figures, end |-> hour]
  <2>1. inquiry' = j /\ i.pc = "reliability"
    BY <1>2, <1>7 DEF GetEquipmentReliability, HasParts
  <2>2. rows \in SUBSET failures /\ \A f \in rows : Since(f)
    BY DEF OfUnit
  <2>3. /\ Honest(FiguresOf(rows))
        /\ \A s \in SUBSET rows : FiguresOf(rows).count >= Cardinality(s)
    BY <1>1, <2>2, RowsHonest
  <2>4. DOMAIN figures = {i.of} /\ figures[i.of] = FiguresOf(rows)
    OBVIOUS
  <2>5. i.shown \subseteq failures /\ \A f \in i.shown : f.unit = i.of
    BY <1>1, <2>1 DEF InquiryTold
  <2>6. j.shown = i.shown /\ j.end = hour /\ j.figures = figures /\ HasParts(j) /\ j.pc = "done"
    BY DEF HasParts
  <2>7. \A f \in failures : f.start # NoValue /\ f.start >= hour - Observed /\ f.unit = i.of => f \in rows
    BY DEF OfUnit, Since
  <2> HIDE DEF rows, figures, j
  <2>8. Covered(j)
    <3> SUFFICES ASSUME NEW u \in {f.unit : f \in i.shown} \ {None}
                 PROVE  u \in DOMAIN figures /\ figures[u].count >= Cardinality(Due(j, u))
      BY <2>6 DEF Covered
    <3>1. u = i.of
      BY <2>5
    <3>2. Due(j, u) \in SUBSET rows
      BY <2>5, <2>6, <2>7, <3>1 DEF Due
    <3> QED
      BY <2>3, <2>4, <3>1, <3>2
  <2> QED
    BY <2>1, <2>3, <2>4, <2>5, <2>6, <2>8 DEF InquiryTold
<1>8. CASE ListFailureEvents
  <2>1. PICK request \in Requests :
          LET who == ResolveIdentity(request)
              tenant == TenantScope(who, None)
          IN  \E rows \in Newest({f \in failures : tenant = None \/ f.tenant = tenant}, ListLimit) :
                inquiry' = [inquiry EXCEPT !.pc = "listed", !.who = who, !.shown = rows]
    BY <1>8 DEF ListFailureEvents
  <2> DEFINE who == ResolveIdentity(request)
             tenant == TenantScope(who, None)
  <2>2. PICK rows \in Newest({f \in failures : tenant = None \/ f.tenant = tenant}, ListLimit) :
          inquiry' = [inquiry EXCEPT !.pc = "listed", !.who = who, !.shown = rows]
    BY <2>1
  <2>3. inquiry' = [pc |-> "listed", page |-> i.page, who |-> who, of |-> i.of,
                    class |-> i.class, shown |-> rows, similar |-> i.similar,
                    figures |-> i.figures, end |-> i.end] /\ i.pc = "idle"
    BY <1>2, <1>8, <2>2 DEF ListFailureEvents, HasParts
  <2>4. rows \subseteq failures /\ \A f \in rows : tenant = None \/ f.tenant = tenant
    BY DEF Newest
  <2> HIDE DEF who
  <2> DEFINE j == [pc |-> "listed", page |-> i.page, who |-> who, of |-> i.of,
                   class |-> i.class, shown |-> rows, similar |-> i.similar,
                   figures |-> i.figures, end |-> i.end]
  <2>5. /\ HasParts(j) /\ j.pc = "listed" /\ j.page = i.page /\ j.who = who /\ j.shown = rows
        /\ j.figures = i.figures
    BY DEF HasParts
  <2> HIDE DEF j
  <2>6. \A f \in rows : OfTenant(j, f)
    BY <2>4, <2>5 DEF OfTenant
  <2>7. InquiryTold(j, failures)
    BY <1>1, <2>3, <2>4, <2>5, <2>6 DEF InquiryTold
  <2> QED
    BY <2>3, <2>7 DEF j
<1>9. CASE GetFleetReliability
  <2> DEFINE t == TenantScope(i.who, None)
  <2>1. PICK class \in {None} \cup DOMAIN Upper :
          inquiry' = [inquiry EXCEPT !.pc = "done", !.page = "fleet", !.end = hour,
                        !.class = class,
                        !.figures = [u \in {f.unit : f \in FleetRows(t, class)} |->
                                       FiguresOf({f \in FleetRows(t, class) : f.unit = u})]]
    BY <1>9 DEF GetFleetReliability
  <2> DEFINE rows == FleetRows(t, class)
             of(u) == {f \in rows : f.unit = u}
             figures == [u \in {f.unit : f \in rows} |-> FiguresOf(of(u))]
             j == [pc |-> "done", page |-> "fleet", who |-> i.who, of |-> i.of,
                   class |-> class, shown |-> i.shown, similar |-> i.similar,
                   figures |-> figures, end |-> hour]
  <2>2. inquiry' = j /\ i.pc = "listed"
    BY <1>2, <1>9, <2>1 DEF GetFleetReliability, HasParts
  <2>3. rows \in SUBSET failures /\ \A f \in rows : Since(f)
    BY DEF FleetRows
  <2>4. i.shown \subseteq failures /\ \A f \in i.shown : OfTenant(i, f)
    BY <1>1, <2>2 DEF InquiryTold
  <2>5. /\ j.shown = i.shown /\ j.end = hour /\ j.figures = figures /\ HasParts(j)
        /\ j.pc = "done" /\ j.page = "fleet" /\ j.class = class
    BY DEF HasParts
  <2>6. class = None => \A f \in failures :
          f.start # NoValue /\ f.start >= hour - Observed /\ f.unit # None /\ OfTenant(i, f) => f \in rows
    BY DEF FleetRows, Since, OfTenant
  <2> HIDE DEF rows
  <2>7. ASSUME NEW u
        PROVE  /\ Honest(FiguresOf(of(u)))
               /\ \A s \in SUBSET of(u) : FiguresOf(of(u)).count >= Cardinality(s)
    <3>1. of(u) \in SUBSET failures /\ \A f \in of(u) : Since(f)
      BY <2>3
    <3> QED
      BY <1>1, <3>1, RowsHonest
  <2>8. /\ DOMAIN figures = {f.unit : f \in rows}
        /\ \A u \in {f.unit : f \in rows} : figures[u] = FiguresOf(of(u))
    OBVIOUS
  <2> HIDE DEF figures, j
  <2>9. ASSUME class = None PROVE Covered(j)
    <3> SUFFICES ASSUME NEW u \in {f.unit : f \in i.shown} \ {None}, Due(j, u) # {}
                 PROVE  u \in DOMAIN figures /\ figures[u].count >= Cardinality(Due(j, u))
      BY <2>5 DEF Covered
    <3>1. Due(j, u) \in SUBSET of(u)
      BY <2>4, <2>5, <2>6, <2>9 DEF Due
    <3>2. u \in {f.unit : f \in rows}
      BY <3>1
    <3> HIDE DEF of
    <3> QED
      BY <2>7, <2>8, <3>1, <3>2
  <2>10. \A u \in DOMAIN figures : Honest(figures[u])
    BY <2>7, <2>8
  <2> QED
    BY <2>2, <2>4, <2>5, <2>9, <2>10 DEF InquiryTold
<1>10. CASE GetAssetReliability
  <2>1. PICK x \in Alarms :
          LET asked == [inquiry EXCEPT !.page = "asset", !.of = x.asset, !.end = hour]
          IN  inquiry' = IF OfAsset(x.asset) = {} THEN [asked EXCEPT !.pc = "legacy"]
                         ELSE [asked EXCEPT !.pc = "done",
                                 !.figures = [a \in {x.asset} |-> FiguresOf(OfAsset(a))]]
    BY <1>10 DEF GetAssetReliability
  <2> DEFINE figures == [a \in {x.asset} |-> FiguresOf(OfAsset(a))]
  <2>2. \/ inquiry' = [pc |-> "legacy", page |-> "asset", who |-> i.who, of |-> x.asset,
                       class |-> i.class, shown |-> i.shown, similar |-> i.similar,
                       figures |-> i.figures, end |-> hour]
        \/ inquiry' = [pc |-> "done", page |-> "asset", who |-> i.who, of |-> x.asset,
                       class |-> i.class, shown |-> i.shown, similar |-> i.similar,
                       figures |-> figures, end |-> hour]
    BY <1>2, <2>1 DEF HasParts
  <2>3. OfAsset(x.asset) \in SUBSET failures /\ \A f \in OfAsset(x.asset) : Since(f)
    BY DEF OfAsset
  <2>4. Honest(FiguresOf(OfAsset(x.asset)))
    BY <1>1, <2>3, RowsHonest
  <2>5. \A u \in DOMAIN figures : Honest(figures[u])
    BY <2>4
  <2> HIDE DEF figures
  <2> QED
    BY <1>1, <2>2, <2>5 DEF InquiryTold, HasParts
<1>11. CASE QueryLegacyFailures
  <2> DEFINE figures == [a \in {i.of} |-> FiguresOf(LegacyFailures(a))]
             chosen == {y \in alarms : y.asset = i.of /\ y.time >= i.end - Observed}
             rows == {[id |-> x.id, start |-> x.time, restored |-> NoValue, down |-> NoValue] :
                        x \in chosen}
  <2>1. /\ inquiry' = [pc |-> "done", page |-> i.page, who |-> i.who, of |-> i.of,
                       class |-> i.class, shown |-> i.shown, similar |-> i.similar,
                       figures |-> figures, end |-> i.end]
        /\ i.pc = "legacy"
    BY <1>2, <1>11 DEF QueryLegacyFailures, HasParts
  <2>2. LegacyFailures(i.of) = rows
    BY DEF LegacyFailures
  <2>3. IsFiniteSet(rows)
    <3>1. IsFiniteSet(chosen)
      BY <1>1, FS_Subset DEF TableTyped
    <3> DEFINE f == [x \in chosen |-> [id |-> x.id, start |-> x.time, restored |-> NoValue,
                                       down |-> NoValue]]
    <3>2. rows = {f[x] : x \in chosen}
      OBVIOUS
    <3> HIDE DEF rows
    <3>3. f \in Surjection(chosen, rows)
      BY <3>2 DEF Surjection
    <3> HIDE DEF f, chosen
    <3> QED
      BY <3>1, <3>3, FS_Surjection
  <2>4. \A f \in rows : Timed(f)
    BY <1>1, RegistryAssumption DEF Timed, TableTyped
  <2> HIDE DEF rows
  <2>5. Honest(FiguresOf(rows))
    BY <2>3, <2>4, FiguresHonest
  <2>6. \A u \in DOMAIN figures : Honest(figures[u])
    BY <2>2, <2>5
  <2> HIDE DEF figures
  <2> QED
    BY <1>1, <2>1, <2>6 DEF InquiryTold, HasParts
<1> QED
  BY <1>3, <1>4, <1>5, <1>6, <1>7, <1>8, <1>9, <1>10, <1>11 DEF InquiryStep

\* The registry's invariant.
LEMMA RegistryInvariance == RegistryInit /\ [][RegistryNext]_registryVars => []RegistryInv
<1>1. ASSUME RegistryInv, InquiryFails PROVE RegistryInv'
  <2> DEFINE i == inquiry
  <2>1. /\ TableTyped /\ InquiryTold(i, failures) /\ HasParts(i)
    BY <1>1 DEF RegistryInv, InquiryTold
  <2>2. inquiry' = [pc |-> "failed", page |-> i.page, who |-> i.who, of |-> i.of,
                    class |-> i.class, shown |-> i.shown, similar |-> i.similar,
                    figures |-> i.figures, end |-> i.end]
    BY <1>1, <2>1 DEF InquiryFails, HasParts
  <2>3. InquiryTold(inquiry', failures)
    BY <2>1, <2>2 DEF InquiryTold, HasParts
  <2> QED
    BY <1>1, <2>1, <2>3 DEF InquiryFails, RegistryInv, TableTyped
<1>2. RegistryInv /\ UNCHANGED registryVars => RegistryInv'
  BY DEF RegistryInv, TableTyped, registryVars
<1>3. RegistryInv /\ [RegistryNext]_registryVars => RegistryInv'
  BY <1>1, <1>2, WritersKeepTables, InquiryKeeps DEF RegistryNext
<1> QED
  BY <1>3, RegistryInitially, PTL

\* What the reader is told.
LEMMA RegistryShown == RegistryInv => AvailabilityHonest /\ ShownIsCounted
<1> SUFFICES ASSUME RegistryInv PROVE AvailabilityHonest /\ ShownIsCounted
  OBVIOUS
<1>1. InquiryTold(inquiry, failures)
  BY DEF RegistryInv
<1>2. AvailabilityHonest
  BY <1>1 DEF InquiryTold, AvailabilityHonest, Honest
<1>3. ShownIsCounted
  BY <1>1 DEF InquiryTold, ShownIsCounted, Covered, Due
<1> QED
  BY <1>2, <1>3

-----------------------------------------------------------------------------
(***************************************************************************)
(* The sections of an outcomes report.                                     *)
(***************************************************************************)

\* The place of a query, from its name.
PlaceOf(q) ==
  CASE q = "feedback" -> 1 [] q = "ttr" -> 2 [] q = "mtbf" -> 3 [] q = "mttr" -> 4
    [] q = "top assets" -> 5 [] q = "asset volume" -> 6 [] q = "asset acceptance" -> 7
    [] q = "early events" -> 8 [] q = "early warning" -> 9 [] q = "cmms" -> 10
    [] q = "user totals" -> 11 [] q = "user volume" -> 12 [] q = "user acceptance" -> 13
    [] q = "top users" -> 14 [] q = "org totals" -> 15 [] q = "org volume" -> 16
    [] q = "org acceptance" -> 17 [] q = "top orgs" -> 18

\* The queries are eighteen different ones, of which two are known by place.
LEMMA QueryPlaces ==
  /\ DOMAIN Queries = 1 .. 18 /\ Len(Queries) = 18
  /\ \A i, j \in 1 .. 18 : Queries[i] = Queries[j] => i = j
  /\ \A i \in 1 .. 18 : Queries[i] = "early events" <=> i = 8
  /\ Queries[9] = "early warning"
<1>1. DOMAIN Queries = 1 .. 18 /\ Len(Queries) = 18
  BY DEF Queries
<1>2. /\ Queries[1] = "feedback" /\ Queries[2] = "ttr" /\ Queries[3] = "mtbf"
      /\ Queries[4] = "mttr" /\ Queries[5] = "top assets" /\ Queries[6] = "asset volume"
      /\ Queries[7] = "asset acceptance" /\ Queries[8] = "early events" /\ Queries[9] = "early warning"
      /\ Queries[10] = "cmms" /\ Queries[11] = "user totals" /\ Queries[12] = "user volume"
      /\ Queries[13] = "user acceptance" /\ Queries[14] = "top users" /\ Queries[15] = "org totals"
      /\ Queries[16] = "org volume" /\ Queries[17] = "org acceptance" /\ Queries[18] = "top orgs"
  BY DEF Queries
<1>3. /\ PlaceOf("feedback") = 1 /\ PlaceOf("ttr") = 2 /\ PlaceOf("mtbf") = 3
      /\ PlaceOf("mttr") = 4 /\ PlaceOf("top assets") = 5 /\ PlaceOf("asset volume") = 6
      /\ PlaceOf("asset acceptance") = 7 /\ PlaceOf("early events") = 8 /\ PlaceOf("early warning") = 9
      /\ PlaceOf("cmms") = 10 /\ PlaceOf("user totals") = 11 /\ PlaceOf("user volume") = 12
      /\ PlaceOf("user acceptance") = 13 /\ PlaceOf("top users") = 14 /\ PlaceOf("org totals") = 15
      /\ PlaceOf("org volume") = 16 /\ PlaceOf("org acceptance") = 17 /\ PlaceOf("top orgs") = 18
  BY DEF PlaceOf
<1> HIDE DEF Queries, PlaceOf
<1>4. /\ PlaceOf(Queries[1]) = 1 /\ PlaceOf(Queries[2]) = 2 /\ PlaceOf(Queries[3]) = 3
      /\ PlaceOf(Queries[4]) = 4 /\ PlaceOf(Queries[5]) = 5 /\ PlaceOf(Queries[6]) = 6
      /\ PlaceOf(Queries[7]) = 7 /\ PlaceOf(Queries[8]) = 8 /\ PlaceOf(Queries[9]) = 9
      /\ PlaceOf(Queries[10]) = 10 /\ PlaceOf(Queries[11]) = 11 /\ PlaceOf(Queries[12]) = 12
      /\ PlaceOf(Queries[13]) = 13 /\ PlaceOf(Queries[14]) = 14 /\ PlaceOf(Queries[15]) = 15
      /\ PlaceOf(Queries[16]) = 16 /\ PlaceOf(Queries[17]) = 17 /\ PlaceOf(Queries[18]) = 18
  BY <1>2, <1>3, ZenonT(60)
<1>5. \A i \in 1 .. 18 : PlaceOf(Queries[i]) = i
  <2>1. \A i \in 1 .. 18 :
          \/ i \in {1, 2, 3, 4, 5, 6, 7, 8, 9}
          \/ i \in {10, 11, 12, 13, 14, 15, 16, 17, 18}
    OBVIOUS
  <2> QED
    BY <1>4, <2>1
<1>6. \A i, j \in 1 .. 18 : Queries[i] = Queries[j] => i = j
  BY <1>5
<1>7. \A i \in 1 .. 18 : Queries[i] = "early events" <=> i = 8
  <2>1. Queries[8] = "early events"
    BY <1>2
  <2>2. 8 \in 1 .. 18
    OBVIOUS
  <2> QED
    BY <1>6, <2>1, <2>2
<1> QED
  BY <1>1, <1>2, <1>6, <1>7

\* The fields of a report.
ReportFields(r) ==
  r = [pc |-> r.pc, who |-> r.who, days |-> r.days, scope |-> r.scope,
       begun |-> r.begun, tx |-> r.tx, next |-> r.next, early |-> r.early,
       failed |-> r.failed, faults |-> r.faults, out |-> r.out]

\* Of the queries before next, the eighth apart, those without a section have
\* failed; those from next on have left no trace.
Sections(answered, faulty, next) ==
  /\ \A f \in faulty : \E i \in 1 .. 18 : f = Queries[i]
  /\ \A i \in 1 .. 18 : i < next =>
       IF Queries[i] \in answered \/ i = 8 THEN Queries[i] \notin faulty
       ELSE Queries[i] \in faulty
  /\ \A i \in 1 .. 18 : i >= next =>
       Queries[i] \notin answered /\ Queries[i] \notin faulty

\* While nothing cut the connection, a report names the queries that failed
\* and no others.
ReportTold(r) ==
  /\ ReportFields(r)
  /\ r.pc \in {"idle", "scope", "query", "done"}
  /\ r.next \in Nat \ {0}
  /\ r.tx \in {"open", "lost"}
  /\ r.tx = "open" => r.failed = r.faults /\ Sections(DOMAIN r.out, r.faults, r.next)

\* One more answer; that of the eighth query is a section only with the ninth.
LEMMA MoreAnswered ==
  ASSUME NEW answered, NEW faulty, NEW n \in 1 .. 18, Sections(answered, faulty, n)
  PROVE  /\ n # 8 => Sections(answered \cup {Queries[n]}, faulty, n + 1)
         /\ n = 8 => Sections(answered, faulty, n + 1)
<1>1. \A i \in 1 .. 18 : i # n => Queries[i] # Queries[n]
  BY QueryPlaces
<1>2. ASSUME n # 8 PROVE Sections(answered \cup {Queries[n]}, faulty, n + 1)
  BY <1>1, <1>2 DEF Sections
<1>3. ASSUME n = 8 PROVE Sections(answered, faulty, n + 1)
  BY <1>1, <1>3 DEF Sections
<1> QED
  BY <1>2, <1>3

\* One more failure: early events that cannot be read cost the early warning.
LEMMA MoreFailed ==
  ASSUME NEW answered, NEW faulty, NEW n \in 1 .. 18, Sections(answered, faulty, n)
  PROVE  /\ n # 8 => Sections(answered, faulty \cup {Queries[n]}, n + 1)
         /\ n = 8 => Sections(answered, faulty \cup {Queries[9]}, n + 2)
<1>1. \A i, j \in 1 .. 18 : i # j => Queries[i] # Queries[j]
  BY QueryPlaces
<1>2. ASSUME n # 8 PROVE Sections(answered, faulty \cup {Queries[n]}, n + 1)
  BY <1>1, <1>2 DEF Sections
<1>3. ASSUME n = 8 PROVE Sections(answered, faulty \cup {Queries[9]}, n + 2)
  <2>1. \A i \in 1 .. 18 : i # 9 => Queries[i] # Queries[9]
    BY <1>1
  <2>2. \A i \in 1 .. 18 : i < 10 => i < 8 \/ i = 8 \/ i = 9
    OBVIOUS
  <2>3. 9 \in 1 .. 18 /\ n + 2 = 10
    BY <1>3
  <2> HIDE DEF Queries
  <2>4. \A f \in faulty \cup {Queries[9]} : \E i \in 1 .. 18 : f = Queries[i]
    BY <2>3 DEF Sections
  <2>5. \A i \in 1 .. 18 : i < 10 =>
          IF Queries[i] \in answered \/ i = 8 THEN Queries[i] \notin faulty \cup {Queries[9]}
          ELSE Queries[i] \in faulty \cup {Queries[9]}
    BY <1>3, <2>1, <2>2, <2>3 DEF Sections
  <2>6. \A i \in 1 .. 18 : i >= 10 =>
          Queries[i] \notin answered /\ Queries[i] \notin faulty \cup {Queries[9]}
    BY <1>3, <2>1 DEF Sections
  <2> QED
    BY <2>3, <2>4, <2>5, <2>6 DEF Sections
<1> QED
  BY <1>2, <1>3

\* What a step changes of a report, told from its fields.
LEMMA ReportKept ==
  ASSUME ReportTold(report), OutcomesNext
  PROVE  ReportTold(report')
<1> DEFINE r == report
           n == report.next
<1>0. /\ ReportFields(r) /\ n \in Nat \ {0} /\ r.tx \in {"open", "lost"}
      /\ r.tx = "open" => r.failed = r.faults /\ Sections(DOMAIN r.out, r.faults, n)
      /\ r.pc \in {"idle", "scope", "query", "done"}
  BY DEF ReportTold
<1>1. CASE WriterActs
  BY <1>1 DEF WriterActs, IngestEvent, StoreOrder, CompleteOrder, SubmitFeedback, HalfADay
<1>2. CASE AskForReport
  <2>1. PICK request \in Requests :
          LET who == ResolveIdentity(request)
          IN  report' = [NewReport EXCEPT
                !.pc = IF Authenticated(who) THEN "scope" ELSE "done", !.who = who,
                !.days = (Day(tables.now) - Window + 1)..Day(tables.now)]
    BY <1>2 DEF AskForReport
  <2> DEFINE who == ResolveIdentity(request)
             place == IF Authenticated(who) THEN "scope" ELSE "done"
             days == (Day(tables.now) - Window + 1)..Day(tables.now)
  <2>2. place \in {"scope", "done"}
    OBVIOUS
  <2>3. report' = [NewReport EXCEPT !.pc = place, !.who = who, !.days = days]
    BY <2>1
  <2> HIDE DEF who, place, days
  <2> DEFINE k == [pc |-> place, who |-> who, days |-> days, scope |-> {},
                   begun |-> Absent, tx |-> "open", next |-> 1, early |-> <<>>,
                   failed |-> {}, faults |-> {}, out |-> <<>>]
  <2>4. report' = k
    BY <2>3 DEF NewReport
  <2>5. /\ ReportFields(k) /\ k.pc = place /\ k.next = 1 /\ k.tx = "open"
        /\ k.failed = {} /\ k.faults = {} /\ DOMAIN k.out = {}
    BY DEF ReportFields
  <2>6. Sections({}, {}, 1)
    BY DEF Sections
  <2> HIDE DEF k
  <2>7. ReportTold(k)
    BY <2>2, <2>5, <2>6 DEF ReportTold
  <2> QED
    BY <2>4, <2>7
<1>3. CASE ReadScope \/ ScopeUnread \/ ConnectionLost \/ ReturnReport
  <2> DEFINE k == [pc |-> report'.pc, who |-> r.who, days |-> r.days, scope |-> report'.scope,
                   begun |-> report'.begun, tx |-> report'.tx, next |-> n,
                   early |-> report'.early, failed |-> r.failed, faults |-> r.faults,
                   out |-> r.out]
  <2>1. report' = k
    BY <1>0, <1>3 DEF ReportFields, ReadScope, ScopeUnread, ConnectionLost, ReturnReport
  <2>2. report'.pc \in {"scope", "query", "done"} /\ report'.tx \in {r.tx, "lost"}
    BY <1>0, <1>3 DEF ReportFields, ReadScope, ScopeUnread, ConnectionLost, ReturnReport,
                      AtQuery
  <2>3. /\ k.pc = report'.pc /\ k.next = n /\ k.tx = report'.tx
        /\ k.failed = r.failed /\ k.faults = r.faults /\ k.out = r.out
    OBVIOUS
  <2> HIDE DEF k
  <2>4. ReportFields(k)
    BY DEF ReportFields, k
  <2>5. ReportTold(k)
    BY <1>0, <2>2, <2>3, <2>4 DEF ReportTold
  <2> QED
    BY <2>1, <2>5
<1>4. ASSUME AtQuery
      PROVE  n \in 1 .. 18 /\ r.pc = "query" /\ Query = Queries[n]
  <2>1. r.pc = "query" /\ n <= Len(Queries)
    BY <1>4 DEF AtQuery
  <2>2. n <= 18
    BY <2>1, QueryPlaces
  <2> QED
    BY <1>0, <2>1, <2>2 DEF Query
<1>5. \A i \in 1 .. 18 : Queries[i] = "early events" <=> i = 8
  BY QueryPlaces
<1>6. CASE QueryAnswered
  <2>1. AtQuery /\ r.tx = "open"
    BY <1>6 DEF QueryAnswered
  <2>2. n \in 1 .. 18 /\ r.pc = "query" /\ Query = Queries[n] /\ Following = n + 1
    BY <1>4, <2>1 DEF Following
  <2>3. r.failed = r.faults /\ Sections(DOMAIN r.out, r.faults, n)
    BY <1>0, <2>1
  <2>4. CASE n = 8
    <3>1. Query = "early events"
      BY <1>5, <2>2, <2>4
    <3>2. report' = [report EXCEPT !.early = EarlyEvents, !.next = n + 1, !.begun = Now]
      BY <1>6, <2>2, <3>1 DEF QueryAnswered
    <3> DEFINE k == [pc |-> r.pc, who |-> r.who, days |-> r.days, scope |-> r.scope,
                     begun |-> Now, tx |-> r.tx, next |-> n + 1, early |-> EarlyEvents,
                     failed |-> r.failed, faults |-> r.faults, out |-> r.out]
    <3>3. report' = k
      BY <1>0, <3>2 DEF ReportFields
    <3>4. /\ ReportFields(k) /\ k.pc = r.pc /\ k.next = n + 1 /\ k.tx = r.tx
          /\ k.failed = r.failed /\ k.faults = r.faults /\ k.out = r.out
      BY DEF ReportFields
    <3> HIDE DEF k
    <3>5. Sections(DOMAIN r.out, r.faults, n + 1)
      BY <2>2, <2>3, <2>4, MoreAnswered
    <3>6. ReportTold(k)
      BY <1>0, <2>2, <2>3, <3>4, <3>5 DEF ReportTold
    <3> QED
      BY <3>3, <3>6
  <2>5. CASE n # 8
    <3>1. Query # "early events"
      BY <1>5, <2>2, <2>5
    <3>2. PICK result \in Answers(Query) :
            report' = [report EXCEPT !.out = Extended(@, Query, result),
                                     !.next = Following, !.begun = Now]
      BY <1>6, <3>1 DEF QueryAnswered
    <3> DEFINE out == Extended(r.out, Query, result)
               k == [pc |-> r.pc, who |-> r.who, days |-> r.days, scope |-> r.scope,
                     begun |-> Now, tx |-> r.tx, next |-> n + 1, early |-> r.early,
                     failed |-> r.failed, faults |-> r.faults, out |-> out]
    <3>3. DOMAIN out = DOMAIN r.out \cup {Queries[n]}
      BY <2>2 DEF Extended
    <3> HIDE DEF out
    <3>4. report' = k
      BY <1>0, <2>2, <3>2 DEF ReportFields, out
    <3>5. /\ ReportFields(k) /\ k.pc = r.pc /\ k.next = n + 1 /\ k.tx = r.tx
          /\ k.failed = r.failed /\ k.faults = r.faults /\ k.out = out
      BY DEF ReportFields
    <3> HIDE DEF k
    <3>6. Sections(DOMAIN r.out \cup {Queries[n]}, r.faults, n + 1)
      BY <2>2, <2>3, <2>5, MoreAnswered
    <3>7. ReportTold(k)
      BY <1>0, <2>2, <2>3, <3>3, <3>5, <3>6 DEF ReportTold
    <3> QED
      BY <3>4, <3>7
  <2> QED
    BY <2>4, <2>5
<1>7. ASSUME NEW tx \in {"aborted", "lost"}, NEW faulty, AtQuery, GiveUp(tx, faulty),
             tx = "aborted" => r.tx = "open" /\ faulty = r.faults \cup {Section}
      PROVE  ReportTold(report')
  <2>1. n \in 1 .. 18 /\ r.pc = "query" /\ Query = Queries[n]
    BY <1>4, <1>7
  <2> DEFINE next == IF n = 8 THEN n + 2 ELSE n + 1
             section == IF n = 8 THEN Queries[9] ELSE Queries[n]
             link == IF tx = "aborted" THEN "open" ELSE "lost"
  <2>2. AfterGap = next /\ Section = section
    <3>1. Query = "early events" <=> n = 8
      BY <1>5, <2>1
    <3>2. Queries[9] = "early warning"
      BY QueryPlaces
    <3>3. CASE n = 8
      BY <2>1, <3>1, <3>2, <3>3 DEF AfterGap, Section
    <3>4. CASE n # 8
      BY <2>1, <3>1, <3>4 DEF AfterGap, Section
    <3> QED
      BY <3>3, <3>4
  <2>3. SafeRollback(tx) = link
    BY <1>7 DEF SafeRollback
  <2> DEFINE failed == r.failed \cup {section}
             k == [pc |-> r.pc, who |-> r.who, days |-> r.days, scope |-> r.scope,
                   begun |-> Absent, tx |-> link, next |-> next, early |-> r.early,
                   failed |-> failed, faults |-> faulty, out |-> r.out]
  <2>4. next \in Nat \ {0} /\ link \in {"open", "lost"} /\ (link = "open" => tx = "aborted")
    BY <2>1, <1>7
  <2>5. r.tx = "open" /\ faulty = r.faults \cup {section}
          => failed = faulty /\ Sections(DOMAIN r.out, faulty, next)
    <3>1. r.tx = "open" => r.failed = r.faults /\ Sections(DOMAIN r.out, r.faults, n)
      BY <1>0
    <3>2. SUFFICES ASSUME r.tx = "open", faulty = r.faults \cup {section}
                   PROVE  failed = faulty /\ Sections(DOMAIN r.out, faulty, next)
      OBVIOUS
    <3>3. failed = faulty /\ Sections(DOMAIN r.out, r.faults, n)
      BY <3>1, <3>2
    <3>4. Sections(DOMAIN r.out, r.faults \cup {section}, next)
      <4>1. CASE n = 8
        BY ONLY <2>1, <3>3, <4>1, MoreFailed
      <4>2. CASE n # 8
        BY ONLY <2>1, <3>3, <4>2, MoreFailed
      <4> QED
        BY <4>1, <4>2
    <3> QED
      BY <3>2, <3>3, <3>4
  <2> HIDE DEF next, section, link, failed
  <2>6. report' = k
    BY <1>0, <1>7, <2>2, <2>3 DEF GiveUp, ReportFields, failed
  <2>7. /\ ReportFields(k) /\ k.pc = r.pc /\ k.next = next /\ k.tx = link
        /\ k.failed = failed /\ k.faults = faulty /\ k.out = r.out
    BY DEF ReportFields
  <2> HIDE DEF k
  <2>8. ReportTold(k)
    BY <1>7, <2>1, <2>2, <2>4, <2>5, <2>7 DEF ReportTold
  <2> QED
    BY <2>6, <2>8
<1>8. CASE QueryFails
  <2>1. /\ AtQuery /\ r.tx = "open" /\ GiveUp("aborted", r.faults \cup {Section})
    BY <1>8 DEF QueryFails
  <2> QED
    BY <1>7, <2>1
<1>9. CASE QueryRefused
  <2>1. AtQuery /\ r.tx = "lost" /\ GiveUp("lost", r.faults)
    BY <1>0, <1>9 DEF QueryRefused
  <2> QED
    BY <1>7, <2>1
<1> QED
  BY <1>1, <1>2, <1>3, <1>6, <1>8, <1>9 DEF OutcomesNext

\* Every step of the writers and of the report keeps ReportTold.
LEMMA ReportInvariance == OutcomesInit /\ [][OutcomesNext]_outcomeVars => []ReportTold(report)
<1>1. OutcomesInit => ReportTold(report)
  <2> SUFFICES ASSUME OutcomesInit PROVE ReportTold(report)
    OBVIOUS
  <2>1. Sections({}, {}, 1)
    BY DEF Sections
  <2>2. report = NewReport /\ DOMAIN NewReport.out = {}
    BY DEF OutcomesInit, NewReport
  <2> QED
    BY <2>1, <2>2 DEF NewReport, ReportTold, ReportFields
<1>2. ReportTold(report) /\ [OutcomesNext]_outcomeVars => ReportTold(report)'
  BY ReportKept DEF outcomeVars
<1> QED
  BY <1>1, <1>2, PTL

\* The invariant is more than what is promised.
LEMMA ReportShown == ReportTold(report) => OneFailureOneSection
<1> SUFFICES ASSUME ReportTold(report), Returned, report.tx # "lost"
             PROVE  /\ report.failed = report.faults
                    /\ {Queries[i] : i \in DOMAIN Queries}
                           \ (DOMAIN report.out \cup {"early events"}) = report.faults
  BY DEF OneFailureOneSection
<1>1. /\ report.failed = report.faults
      /\ Sections(DOMAIN report.out, report.faults, report.next)
      /\ report.next \in Nat /\ report.next > 18
  BY QueryPlaces DEF ReportTold, Returned
<1> DEFINE answered == DOMAIN report.out
           faulty == report.faults
<1> HIDE DEF Queries
<1>2. /\ \A f \in faulty : \E i \in 1 .. 18 : f = Queries[i]
      /\ \A i \in 1 .. 18 :
           IF Queries[i] \in answered \/ i = 8 THEN Queries[i] \notin faulty
           ELSE Queries[i] \in faulty
  BY <1>1 DEF Sections
<1>3. \A i \in 1 .. 18 : Queries[i] = "early events" <=> i = 8
  BY QueryPlaces
<1>4. DOMAIN Queries = 1 .. 18
  BY QueryPlaces
<1> HIDE DEF answered, faulty, Queries
<1>5. {Queries[i] : i \in 1 .. 18} \ (answered \cup {"early events"}) = faulty
  <2>1. \A f \in faulty : f \in {Queries[i] : i \in 1 .. 18} /\ f \notin answered \cup {"early events"}
    BY <1>2, <1>3, ZenonT(60)
  <2>2. \A i \in 1 .. 18 : Queries[i] \notin answered \cup {"early events"} => Queries[i] \in faulty
    BY <1>2, <1>3
  <2> QED
    BY <2>1, <2>2
<1> QED
  BY <1>1, <1>4, <1>5 DEF answered, faulty

-----------------------------------------------------------------------------
(***************************************************************************)
(* The figures of an outcomes report.                                      *)
(***************************************************************************)

\* Total adds up what the entries count.
LEMMA TotalIs ==
  ASSUME NEW S, IsFiniteSet(S), NEW w, S = DOMAIN w
  PROVE  \E g : AddsUp(g, w, S) /\ Total(w) = g[S]
<1> DEFINE D(g) == [s \in SUBSET S |-> IF s = {} THEN 0
                      ELSE w[CHOOSE x \in s : TRUE] + g[s \ {CHOOSE x \in s : TRUE}]]
           h == CHOOSE g : g = D(g)
<1>1. PICK f : AddsUp(f, w, S)
  BY SumExists
<1>2. f = D(f)
  <2>1. \A s \in SUBSET S : f[s] = IF s = {} THEN 0 ELSE w[One(s)] + f[s \ {One(s)}]
    BY <1>1 DEF AddsUp
  <2>2. f = [s \in SUBSET S |-> f[s]]
    BY <1>1 DEF AddsUp
  <2> QED
    BY <2>1, <2>2 DEF One
<1>3. h = D(h)
  BY <1>2
<1>4. Total(w) = h[S]
  BY DEF Total, MapThenSumSet, MapThenFoldSet
<1> HIDE DEF h
<1>5. AddsUp(h, w, S)
  <2>1. \A s \in SUBSET S : h[s] = IF s = {} THEN 0 ELSE w[One(s)] + h[s \ {One(s)}]
    BY <1>3 DEF One
  <2>2. h = [s \in SUBSET S |-> h[s]]
    BY <1>3
  <2> QED
    BY <2>1, <2>2 DEF AddsUp
<1> QED
  BY <1>4, <1>5

\* The members of S of which f is v.
With(S, f, v) == {i \in S : f[i] = v}

\* What is counted class by class is what the classes hold together.
LEMMA ClassesAddUp ==
  ASSUME NEW S, IsFiniteSet(S), NEW f, NEW V, IsFiniteSet(V), NEW w,
         \A v \in V : w[v] = Cardinality(With(S, f, v)),
         NEW g, AddsUp(g, w, V)
  PROVE  g[V] = Cardinality({i \in S : f[i] \in V})
<1> DEFINE Held(s) == {i \in S : f[i] \in s}
           bad == {Cardinality(s) : s \in {t \in SUBSET V : g[t] # Cardinality(Held(t))}}
<1> SUFFICES ASSUME bad # {} PROVE FALSE
  OBVIOUS
<1>1. bad \in SUBSET Nat
  <2>1. \A t \in SUBSET V : Cardinality(t) \in Nat
    BY FS_Subset, FS_CardinalityType
  <2> QED
    BY <2>1
<1>2. PICK n \in bad : \A m \in bad : n <= m
  BY <1>1, LeastOf
<1>3. PICK s \in SUBSET V : g[s] # Cardinality(Held(s)) /\ Cardinality(s) = n
  BY <1>2
<1>4. s # {} /\ g[s] = w[One(s)] + g[s \ {One(s)}]
  <2>1. g[s] = IF s = {} THEN 0 ELSE w[One(s)] + g[s \ {One(s)}]
    BY DEF AddsUp
  <2>2. s # {}
    <3>1. Held({}) = {}
      OBVIOUS
    <3> QED
      BY <1>3, <2>1, <3>1, FS_EmptySet
  <2> QED
    BY <2>1, <2>2
<1> DEFINE v == One(s)
           rest == s \ {v}
<1>5. /\ v \in s /\ v \in V /\ rest \in SUBSET V /\ Cardinality(rest) \in Nat
      /\ Cardinality(s) = Cardinality(rest) + 1
  BY <1>4, OneLess
<1>6. g[rest] = Cardinality(Held(rest))
  <2> SUFFICES ASSUME g[rest] # Cardinality(Held(rest)) PROVE FALSE
    OBVIOUS
  <2>1. Cardinality(rest) \in bad
    BY <1>5
  <2>2. Cardinality(s) <= Cardinality(rest)
    BY <1>2, <1>3, <2>1
  <2> QED
    BY <1>5, <2>2
<1>7. Cardinality(Held(s)) = Cardinality(With(S, f, v)) + Cardinality(Held(rest))
  <2>1. Held(rest) = Held(s) \ With(S, f, v) /\ With(S, f, v) = Held(s) \cap With(S, f, v)
    BY <1>5 DEF With
  <2>2. IsFiniteSet(Held(s)) /\ IsFiniteSet(With(S, f, v))
    BY FS_Subset DEF With
  <2> DEFINE all == Held(s)
             one == With(S, f, v)
  <2> HIDE DEF all, one
  <2>3. /\ Cardinality(all) \in Nat /\ Cardinality(one) \in Nat
        /\ Cardinality(all \ one) = Cardinality(all) - Cardinality(all \cap one)
    BY <2>2, FS_Difference, FS_CardinalityType DEF all, one
  <2>4. Held(rest) = all \ one /\ one = all \cap one
    BY <2>1 DEF all, one
  <2> DEFINE met == all \cap one
             others == all \ one
  <2>5. Cardinality(all) = Cardinality(one) + Cardinality(all \ one)
    <3>1. Cardinality(met) = Cardinality(one)
      BY <2>4, Zenon
    <3>2. Cardinality(others) = Cardinality(all) - Cardinality(met)
      BY <2>3
    <3> HIDE DEF met, others
    <3>3. Cardinality(all) = Cardinality(one) + Cardinality(others)
      BY <2>3, <3>1, <3>2
    <3> QED
      BY <3>3 DEF others
  <2> QED
    BY <2>4, <2>5 DEF all, one
<1>8. w[v] = Cardinality(With(S, f, v))
  BY <1>5
<1> QED
  BY <1>3, <1>4, <1>6, <1>7, <1>8

\* How often each value of a field occurs; the occurrences of them all are the
\* rows, if no row is without one.
LEMMA TallyShape ==
  ASSUME NEW table, NEW rows, IsFiniteSet(rows), NEW field,
         NEW count, count = Tally(table, rows, field)
  PROVE  /\ IsFiniteSet(DOMAIN count)
         /\ \A v \in DOMAIN count : count[v] = Cardinality({i \in rows : table[i][field] = v})
         /\ (\A i \in rows : table[i][field] # None) => Total(count) = Cardinality(rows)
<1> DEFINE values == {table[i][field] : i \in rows}
           value == [i \in rows |-> table[i][field]]
           V == values \ {None}
<1>1. /\ DOMAIN count = V
      /\ \A v \in V : count[v] = Cardinality({i \in rows : table[i][field] = v})
  BY DEF Tally
<1>2. IsFiniteSet(V)
  <2>1. value \in Surjection(rows, values)
    BY Zenon DEF Surjection
  <2>2. IsFiniteSet(values)
    BY <2>1, FS_Surjection
  <2> QED
    BY <2>2, FS_Subset
<1>3. \A i \in rows : value[i] = table[i][field]
  OBVIOUS
<1>4. \A v \in V : count[v] = Cardinality(With(rows, value, v))
  <2> HIDE DEF value, V
  <2>1. ASSUME NEW v \in V
        PROVE  With(rows, value, v) = {i \in rows : table[i][field] = v}
    BY <1>3 DEF With
  <2> QED
    BY <1>1, <2>1
<1>5. ASSUME \A i \in rows : table[i][field] # None
      PROVE  Total(count) = Cardinality(rows)
  <2>1. {i \in rows : value[i] \in V} = rows
    BY <1>3, <1>5
  <2> HIDE DEF value, V
  <2>2. PICK g : AddsUp(g, count, V) /\ Total(count) = g[V]
    BY <1>1, <1>2, TotalIs
  <2>3. g[V] = Cardinality({i \in rows : value[i] \in V})
    BY <1>2, <1>4, <2>2, ClassesAddUp
  <2> QED
    BY <2>1, <2>2, <2>3
<1> QED
  BY <1>1, <1>2, <1>5

\* The answers that are counted are rows.
LEMMA AnswersAreRows ==
  ASSUME IsFiniteSet(FeedbackRows)
  PROVE  Total(FeedbackCounts) \in Nat /\ Total(FeedbackCounts) <= Cardinality(FeedbackRows)
<1> DEFINE rows == FeedbackRows
           V == FeedbackActions
           count == FeedbackCounts
           value == [i \in rows |-> tables.feedback[i].action]
<1>1. IsFiniteSet(V)
  <2>1. V = ({"accept"} \cup {"reject"}) \cup {"edited"}
    BY DEF FeedbackActions
  <2>2. IsFiniteSet({"accept"})
    BY FS_Singleton
  <2>3. IsFiniteSet({"accept"} \cup {"reject"})
    BY <2>2, FS_AddElement
  <2>4. IsFiniteSet(({"accept"} \cup {"reject"}) \cup {"edited"})
    BY <2>3, FS_AddElement
  <2> QED
    BY <2>1, <2>4
<1>2. DOMAIN count = V
  BY DEF FeedbackCounts
<1>3. \A v \in V : count[v] = Cardinality({i \in rows : tables.feedback[i].action = v})
  BY DEF FeedbackCounts
<1>4. \A i \in rows : value[i] = tables.feedback[i].action
  OBVIOUS
<1> HIDE DEF rows, V, count, value
<1>5. \A v \in V : count[v] = Cardinality(With(rows, value, v))
  <2>1. ASSUME NEW v \in V
        PROVE  With(rows, value, v) = {i \in rows : tables.feedback[i].action = v}
    BY <1>4 DEF With
  <2> QED
    BY <1>3, <2>1
<1>6. PICK g : AddsUp(g, count, V) /\ Total(count) = g[V]
  BY <1>1, <1>2, TotalIs
<1>7. IsFiniteSet(rows)
  BY DEF rows
<1>8. g[V] = Cardinality({i \in rows : value[i] \in V})
  BY <1>1, <1>5, <1>6, <1>7, ClassesAddUp
<1>9. /\ Cardinality({i \in rows : value[i] \in V}) \in Nat
      /\ Cardinality({i \in rows : value[i] \in V}) <= Cardinality(rows)
  BY <1>7, FS_Subset, FS_CardinalityType
<1> QED
  BY <1>6, <1>8, <1>9 DEF count, rows

\* The places of a leaderboard are taken by those who are counted.
LEMMA LeadersCounted ==
  ASSUME NEW count, IsFiniteSet(DOMAIN count), NEW s \in Leaders(count), NEW i \in DOMAIN s
  PROVE  s[i] \in DOMAIN count
<1> DEFINE D == DOMAIN count
<1>1. PICK t \in SetToSeqs(D) : s = SubSeq(t, 1, AtMost(TopLimit, Len(t)))
  BY DEF Leaders
<1>2. Cardinality(D) \in Nat /\ t \in [1 .. Cardinality(D) -> D]
  BY <1>1, FS_CardinalityType DEF SetToSeqs
<1> HIDE DEF D
<1>3. Len(t) = Cardinality(D) /\ Len(t) \in Nat /\ DOMAIN t = 1 .. Len(t)
  BY <1>2
<1> DEFINE k == AtMost(TopLimit, Len(t))
<1>4. k \in Nat /\ k <= Len(t)
  BY <1>3, OutcomesAssumption DEF AtMost
<1>5. \A j \in 1 .. k : t[j] \in D
  BY <1>2, <1>3, <1>4
<1> HIDE DEF k
<1>6. s = SubSeq(t, 1, k)
  BY <1>1 DEF k
<1>7. SubSeq(t, 1, k) \in Seq(D)
  BY <1>4, <1>5, SubSeqProperties
<1>8. s \in Seq(D)
  BY <1>6, <1>7
<1>9. i \in 1 .. Len(s)
  BY <1>8
<1>10. s[i] \in D
  BY ONLY <1>8, <1>9, ElementOfSeq
<1> QED
  BY <1>10 DEF D

\* The tables hold rows, and rows hold what the assumption says.
TablesTyped ==
  /\ tables = [now |-> tables.now, events |-> tables.events, rollups |-> tables.rollups,
               orders |-> tables.orders, feedback |-> tables.feedback,
               proposals |-> tables.proposals]
  /\ tables.now \in Nat
  /\ IsTable(tables.events) /\ IsTable(tables.rollups) /\ IsTable(tables.feedback)
  /\ \A i \in DOMAIN tables.events : EventMeasures(tables.events[i])
  /\ \A i \in DOMAIN tables.rollups : RollupMeasures(tables.rollups[i])
  /\ \A i \in DOMAIN tables.feedback : tables.feedback[i].user # None

\* A table and the same with one row more.
OneMore(table, after, more) ==
  /\ DOMAIN table = 1 .. Len(table) /\ Len(table) \in Nat
  /\ DOMAIN after = 1 .. Len(table) + 1
  /\ \A i \in DOMAIN table : after[i] = table[i]
  /\ after[Len(table) + 1] = more

\* A row more makes a table of rows.
LEMMA RowAdded ==
  ASSUME NEW table, IsTable(table), NEW more
  PROVE  IsTable(Append(table, more)) /\ OneMore(table, Append(table, more), more)
<1> DEFINE S == Range(table) \cup {more}
           after == Append(table, more)
<1>1. table \in Seq(Range(table)) /\ DOMAIN table = 1 .. Len(table) /\ Len(table) \in Nat
  BY DEF IsTable
<1>2. table \in Seq(S) /\ more \in S
  BY <1>1, SeqMonotonic
<1> HIDE DEF S
<1>3. /\ after \in Seq(S) /\ Len(after) = Len(table) + 1
      /\ \A i \in 1 .. Len(table) : after[i] = table[i]
      /\ after[Len(table) + 1] = more
  BY <1>2, AppendProperties
<1> HIDE DEF after
<1>4. DOMAIN after = 1 .. Len(table) + 1
  BY <1>1, <1>3
<1>5. after \in Seq(Range(after))
  <2>1. after = [i \in 1 .. Len(after) |-> after[i]] /\ Len(after) \in Nat
    BY <1>3
  <2>2. \A i \in 1 .. Len(after) : after[i] \in Range(after)
    BY <1>3, <1>4 DEF Range
  <2>3. after \in [1 .. Len(after) -> Range(after)]
    BY <2>1, <2>2
  <2> QED
    BY <2>1, <2>3, SeqDef
<1> QED
  BY <1>1, <1>3, <1>4, <1>5 DEF IsTable, OneMore, after

LEMMA TablesInitially == OutcomesInit => TablesTyped
BY OutcomesAssumption DEF OutcomesInit, TablesTyped

\* What a writer leaves of the tables: the hour but for HalfADay, the rollups
\* always, and of events and feedback all rows, with at most one row more.
LEMMA WritersAdd ==
  ASSUME TablesTyped, WriterActs
  PROVE  /\ TablesTyped'
         /\ tables'.rollups = tables.rollups
         /\ \/ tables'.events = tables.events
            \/ /\ tables'.now = tables.now
               /\ \E more : EventMeasures(more) /\ OneMore(tables.events, tables'.events, more)
         /\ \/ tables'.feedback = tables.feedback
            \/ \E more : OneMore(tables.feedback, tables'.feedback, more)
<1>0. /\ tables = [now |-> tables.now, events |-> tables.events, rollups |-> tables.rollups, orders |-> tables.orders,
              feedback |-> tables.feedback, proposals |-> tables.proposals]
      /\ tables.now \in Nat /\ IsTable(tables.events) /\ IsTable(tables.rollups) /\ IsTable(tables.feedback)
      /\ \A i \in DOMAIN tables.events : EventMeasures(tables.events[i])
      /\ \A i \in DOMAIN tables.rollups : RollupMeasures(tables.rollups[i])
      /\ \A i \in DOMAIN tables.feedback : tables.feedback[i].user # None
  BY DEF TablesTyped
<1>1. CASE IngestEvent
  <2>1. PICK e \in Incoming :
          tables' = [tables EXCEPT !.events = Append(@,
            [asset |-> e.asset, org |-> e.org, severity |-> e.severity, kind |-> e.kind,
             vibration |-> e.vibration, temperature |-> e.temperature,
             threshold |-> e.threshold, time |-> tables.now])]
    BY <1>1 DEF IngestEvent
  <2> DEFINE more == [asset |-> e.asset, org |-> e.org, severity |-> e.severity, kind |-> e.kind,
                     vibration |-> e.vibration, temperature |-> e.temperature,
                     threshold |-> e.threshold, time |-> tables.now]
             after == Append(tables.events, more)
             k == [now |-> tables.now, events |-> after, rollups |-> tables.rollups, orders |-> tables.orders,
                   feedback |-> tables.feedback, proposals |-> tables.proposals]
  <2>2. EventMeasures(more)
    <3>1. {e.vibration, e.temperature} \subseteq Int
      BY OutcomesAssumption
    <3> QED
      BY <1>0, <3>1 DEF EventMeasures
  <2> HIDE DEF more
  <2>3. IsTable(after) /\ OneMore(tables.events, after, more)
    BY <1>0, RowAdded
  <2>4. tables' = [tables EXCEPT !.events = after]
    BY <2>1 DEF more
  <2> HIDE DEF after
  <2>5. tables' = k
    BY <1>0, <2>4
  <2>6. \A i \in DOMAIN after : EventMeasures(after[i])
    BY <1>0, <2>2, <2>3 DEF OneMore
  <2>7. /\ tables'.now = tables.now /\ tables'.events = after /\ tables'.rollups = tables.rollups
        /\ tables'.orders = tables.orders /\ tables'.feedback = tables.feedback /\ tables'.proposals = tables.proposals
    BY <2>5
  <2>8. TablesTyped'
    BY <1>0, <2>3, <2>5, <2>6, <2>7 DEF TablesTyped
  <2> QED
    BY <2>2, <2>3, <2>7, <2>8
<1>2. CASE StoreOrder \/ CompleteOrder \/ HalfADay
  <2> DEFINE k == [now |-> tables'.now, events |-> tables.events, rollups |-> tables.rollups,
                   orders |-> tables'.orders, feedback |-> tables.feedback, proposals |-> tables.proposals]
  <2>1. tables' = k /\ tables'.now \in Nat
    <3>1. CASE StoreOrder
      BY <1>0, <3>1 DEF StoreOrder
    <3>2. CASE CompleteOrder
      BY <1>0, <3>2 DEF CompleteOrder
    <3>3. CASE HalfADay
      BY <1>0, <3>3 DEF HalfADay
    <3> QED
      BY <1>2, <3>1, <3>2, <3>3
  <2>2. /\ tables'.events = tables.events /\ tables'.rollups = tables.rollups
        /\ tables'.feedback = tables.feedback /\ tables'.proposals = tables.proposals
    BY <2>1
  <2>3. TablesTyped'
    BY <1>0, <2>1, <2>2 DEF TablesTyped
  <2> QED
    BY <2>2, <2>3
<1>3. CASE SubmitFeedback
  <2>1. PICK f \in Feedback, request \in Requests :
          LET who == ResolveIdentity(request)
          IN  /\ MayDecide(who) /\ IdentityMatchesScope(who, f.org, None)
              /\ tables' = [tables EXCEPT !.feedback = Append(@,
                   [org |-> f.org, asset |-> f.asset, action |-> f.action,
                    user |-> who.subject, at |-> tables.now])]
    BY <1>3 DEF SubmitFeedback
  <2> DEFINE who == ResolveIdentity(request)
             more == [org |-> f.org, asset |-> f.asset, action |-> f.action,
                     user |-> who.subject, at |-> tables.now]
             after == Append(tables.feedback, more)
             k == [now |-> tables.now, events |-> tables.events, rollups |-> tables.rollups, orders |-> tables.orders,
                   feedback |-> after, proposals |-> tables.proposals]
  <2>2. who.subject # None /\ tables' = [tables EXCEPT !.feedback = after]
    BY <2>1 DEF MayDecide, Authenticated
  <2>3. more.user # None
    BY <2>2
  <2> HIDE DEF more
  <2>4. IsTable(after) /\ OneMore(tables.feedback, after, more)
    BY <1>0, RowAdded
  <2> HIDE DEF after
  <2>5. tables' = k
    BY <1>0, <2>2
  <2>6. \A i \in DOMAIN after : after[i].user # None
    BY <1>0, <2>3, <2>4 DEF OneMore
  <2>7. /\ tables'.now = tables.now /\ tables'.feedback = after /\ tables'.rollups = tables.rollups
        /\ tables'.orders = tables.orders /\ tables'.events = tables.events /\ tables'.proposals = tables.proposals
    BY <2>5
  <2>8. TablesTyped'
    BY <1>0, <2>4, <2>5, <2>6, <2>7 DEF TablesTyped
  <2> QED
    BY <2>4, <2>7, <2>8
<1> QED
  BY <1>1, <1>2, <1>3 DEF WriterActs

\* The rows of a user among rows.
Of(feedback, rows, v) == {i \in rows : feedback[i].user = v}

\* What a report that is past a query has counted, beside the rows there are.
CountedWithin(out, next, feedback, rows) ==
  /\ next > 1 => /\ "feedback" \in DOMAIN out
                 /\ Total(out["feedback"]) \in Nat
                 /\ Total(out["feedback"]) <= Cardinality(rows)
  /\ next > 11 => /\ "user totals" \in DOMAIN out
                  /\ Total(out["feedback"]) <= Total(out["user totals"])
                  /\ \A v \in DOMAIN out["user totals"] :
                       /\ out["user totals"][v] \in Nat
                       /\ out["user totals"][v] <= Cardinality(Of(feedback, rows, v))
  /\ next > 12 => /\ "user volume" \in DOMAIN out
                  /\ \A v \in DOMAIN out["user volume"] :
                       /\ out["user volume"][v] \in Nat
                       /\ out["user volume"][v] <= Cardinality(Of(feedback, rows, v))

\* The figures fit together once the leaderboard is there.
Fitting(out) ==
  LET given == out["user totals"]
      volume == out["user volume"]
      top == out["top users"]
  IN  /\ Total(out["feedback"]) <= Total(given)
      /\ \A i \in DOMAIN top :
           /\ top[i].id \in DOMAIN given => top[i].count >= given[top[i].id]
           /\ top[i].id \in DOMAIN volume => top[i].count >= volume[top[i].id]

Fits(out, next) ==
  next > 14 => {"feedback", "user totals", "user volume", "top users"} \subseteq DOMAIN out
               /\ Fitting(out)

\* While no query has failed the window stands since the first answer, and
\* the report has counted no more than is there.
FiguresTold ==
  /\ report.pc \in {"idle", "scope"} => report.next = 1
  /\ report.failed = {} =>
       /\ report.pc = "query" =>
            /\ report.next > 1 => report.begun # Absent
            /\ CountedWithin(report.out, report.next, tables.feedback, FeedbackRows)
       /\ Fits(report.out, report.next)

\* Rows are never taken back: what was counted stays within what there is.
LEMMA MoreRows ==
  ASSUME NEW out, NEW next \in Nat, NEW feedback, NEW rows, NEW later, NEW after,
         CountedWithin(out, next, feedback, rows), rows \subseteq after, IsFiniteSet(after),
         \A i \in rows : later[i] = feedback[i]
  PROVE  CountedWithin(out, next, later, after)
<1>1. /\ Cardinality(rows) \in Nat /\ Cardinality(after) \in Nat
      /\ Cardinality(rows) <= Cardinality(after)
  BY FS_Subset, FS_CardinalityType
<1>2. ASSUME NEW v
      PROVE  /\ Cardinality(Of(feedback, rows, v)) \in Nat
             /\ Cardinality(Of(later, after, v)) \in Nat
             /\ Cardinality(Of(feedback, rows, v)) <= Cardinality(Of(later, after, v))
  <2>1. Of(feedback, rows, v) \subseteq Of(later, after, v)
    BY DEF Of
  <2>2. IsFiniteSet(Of(later, after, v))
    BY FS_Subset DEF Of
  <2> QED
    BY <2>1, <2>2, FS_Subset, FS_CardinalityType
<1>3. \A m, n, k \in Nat : m <= n /\ n <= k => m <= k
  OBVIOUS
<1>4. next > 1 => /\ "feedback" \in DOMAIN out
                  /\ Total(out["feedback"]) \in Nat
                  /\ Total(out["feedback"]) <= Cardinality(after)
  BY <1>1, <1>3 DEF CountedWithin
<1>5. next > 11 => \A v \in DOMAIN out["user totals"] :
                     /\ out["user totals"][v] \in Nat
                     /\ out["user totals"][v] <= Cardinality(Of(later, after, v))
  BY <1>2, <1>3 DEF CountedWithin
<1>6. next > 12 => \A v \in DOMAIN out["user volume"] :
                     /\ out["user volume"][v] \in Nat
                     /\ out["user volume"][v] <= Cardinality(Of(later, after, v))
  BY <1>2, <1>3 DEF CountedWithin
<1> QED
  BY <1>4, <1>5, <1>6 DEF CountedWithin

\* A writer adds to the rows of a window that stands, and leaves the others.
LEMMA RowsStay ==
  ASSUME TablesTyped, WriterActs, report.begun # Absent
  PROVE  /\ FeedbackRows \subseteq FeedbackRows' /\ IsFiniteSet(FeedbackRows')
         /\ \A i \in FeedbackRows : tables'.feedback[i] = tables.feedback[i]
<1>1. UNCHANGED report
  BY DEF WriterActs, IngestEvent, StoreOrder, CompleteOrder, SubmitFeedback, HalfADay
<1>2. /\ TablesTyped'
      /\ \/ tables'.feedback = tables.feedback
         \/ \E more : OneMore(tables.feedback, tables'.feedback, more)
  BY WritersAdd
<1>3. \A i \in DOMAIN tables.feedback :
        i \in DOMAIN tables'.feedback /\ tables'.feedback[i] = tables.feedback[i]
  <2>1. CASE tables'.feedback = tables.feedback
    BY <2>1
  <2>2. CASE \E more : OneMore(tables.feedback, tables'.feedback, more)
    BY <2>2 DEF OneMore
  <2> QED
    BY <1>2, <2>1, <2>2
<1>4. Now' = Now
  BY <1>1 DEF Now
<1>5. \A time : InWindow(time)' <=> InWindow(time)
  BY <1>4 DEF InWindow
<1>6. Unrestricted' <=> Unrestricted
  BY <1>1 DEF Unrestricted
<1>7. FeedbackRows \subseteq FeedbackRows'
  BY <1>1, <1>3, <1>5, <1>6 DEF FeedbackRows
<1>8. IsFiniteSet(FeedbackRows')
  <2>1. tables'.feedback \in Seq(Range(tables'.feedback))
    BY <1>2 DEF TablesTyped, IsTable
  <2>2. IsFiniteSet(DOMAIN tables'.feedback)
    BY <2>1, FS_Interval
  <2>3. FeedbackRows' \subseteq DOMAIN tables'.feedback
    BY DEF FeedbackRows
  <2> QED
    BY <2>2, <2>3, FS_Subset
<1>9. \A i \in FeedbackRows : i \in DOMAIN tables.feedback
  BY DEF FeedbackRows
<1> QED
  BY <1>3, <1>7, <1>8, <1>9

\* Where the answers about feedback stand among the queries.
LEMMA FigurePlaces ==
  /\ Queries[1] = "feedback" /\ Queries[11] = "user totals"
  /\ Queries[12] = "user volume" /\ Queries[14] = "top users"
BY DEF Queries

\* One answer more: an answer about feedback counts the rows of the moment.
LEMMA AnswerCounts ==
  ASSUME TablesTyped, NEW n \in 1 .. 18, n # 8, NEW out,
         CountedWithin(out, n, tables.feedback, FeedbackRows), Fits(out, n),
         NEW result \in Answers(Queries[n])
  PROVE  LET later == Extended(out, Queries[n], result)
         IN  CountedWithin(later, n + 1, tables.feedback, FeedbackRows) /\ Fits(later, n + 1)
<1> DEFINE later == Extended(out, Queries[n], result)
           rows == FeedbackRows
<1>1. /\ DOMAIN later = DOMAIN out \cup {Queries[n]} /\ later[Queries[n]] = result
      /\ \A q \in DOMAIN out : q # Queries[n] => later[q] = out[q]
  BY DEF Extended
<1> HIDE DEF later
<1>2. \A i \in 1 .. 18 : i # n => Queries[i] # Queries[n]
  BY QueryPlaces
<1>3. /\ n # 1 => Queries[n] # "feedback"
      /\ n # 11 => Queries[n] # "user totals"
      /\ n # 12 => Queries[n] # "user volume"
      /\ n # 14 => Queries[n] # "top users"
  <2>1. {1, 11, 12, 14} \subseteq 1 .. 18
    OBVIOUS
  <2> HIDE DEF Queries
  <2> QED
    BY <1>2, <2>1, FigurePlaces
<1>4. IsFiniteSet(rows)
  <2>1. tables.feedback \in Seq(Range(tables.feedback))
    BY DEF TablesTyped, IsTable
  <2>2. IsFiniteSet(DOMAIN tables.feedback)
    BY <2>1, FS_Interval
  <2>3. rows \subseteq DOMAIN tables.feedback
    BY DEF FeedbackRows
  <2> QED
    BY <2>2, <2>3, FS_Subset
<1>5. \A i \in rows : tables.feedback[i]["user"] # None
  BY DEF FeedbackRows, TablesTyped
<1>6. \A v : Of(tables.feedback, rows, v) = {i \in rows : tables.feedback[i]["user"] = v}
  BY DEF Of
<1>7. ASSUME NEW v
      PROVE  IsFiniteSet(Of(tables.feedback, rows, v)) /\ Cardinality(Of(tables.feedback, rows, v)) \in Nat
  BY <1>4, FS_Subset, FS_CardinalityType DEF Of
<1> HIDE DEF rows
<1>8. CountedWithin(out, n, tables.feedback, rows)
  BY DEF rows
<1>9. n > 1 => /\ "feedback" \in DOMAIN later /\ later["feedback"] = out["feedback"]
               /\ Total(out["feedback"]) \in Nat
               /\ Total(out["feedback"]) <= Cardinality(rows)
  <2> SUFFICES ASSUME n > 1
               PROVE  "feedback" \in DOMAIN later /\ later["feedback"] = out["feedback"]
    BY <1>8 DEF CountedWithin
  <2>1. n # 1
    OBVIOUS
  <2>2. Queries[n] # "feedback"
    BY <1>3, <2>1
  <2>3. "feedback" \in DOMAIN out
    BY <1>8 DEF CountedWithin
  <2> QED
    BY <1>1, <2>2, <2>3
<1>10. n > 11 => /\ "user totals" \in DOMAIN later /\ later["user totals"] = out["user totals"]
                 /\ Total(out["feedback"]) <= Total(out["user totals"])
                 /\ \A v \in DOMAIN out["user totals"] :
                      /\ out["user totals"][v] \in Nat
                      /\ out["user totals"][v] <= Cardinality(Of(tables.feedback, rows, v))
  <2> SUFFICES ASSUME n > 11
               PROVE  "user totals" \in DOMAIN later /\ later["user totals"] = out["user totals"]
    BY <1>8 DEF CountedWithin
  <2>1. n # 11
    OBVIOUS
  <2>2. Queries[n] # "user totals"
    BY <1>3, <2>1
  <2>3. "user totals" \in DOMAIN out
    BY <1>8 DEF CountedWithin
  <2> QED
    BY <1>1, <2>2, <2>3
<1>11. n > 12 => /\ "user volume" \in DOMAIN later /\ later["user volume"] = out["user volume"]
                 /\ \A v \in DOMAIN out["user volume"] :
                      /\ out["user volume"][v] \in Nat
                      /\ out["user volume"][v] <= Cardinality(Of(tables.feedback, rows, v))
  <2> SUFFICES ASSUME n > 12
               PROVE  "user volume" \in DOMAIN later /\ later["user volume"] = out["user volume"]
    BY <1>8 DEF CountedWithin
  <2>1. n # 12
    OBVIOUS
  <2>2. Queries[n] # "user volume"
    BY <1>3, <2>1
  <2>3. "user volume" \in DOMAIN out
    BY <1>8 DEF CountedWithin
  <2> QED
    BY <1>1, <2>2, <2>3
<1>12. n = 1 => /\ "feedback" \in DOMAIN later
                /\ Total(later["feedback"]) \in Nat
                /\ Total(later["feedback"]) <= Cardinality(rows)
  <2> SUFFICES ASSUME n = 1
               PROVE  /\ "feedback" \in DOMAIN later
                      /\ Total(later["feedback"]) \in Nat
                      /\ Total(later["feedback"]) <= Cardinality(rows)
    OBVIOUS
  <2>1. Queries[n] = "feedback"
    BY FigurePlaces
  <2>2. result = FeedbackCounts
    BY <2>1 DEF Answers
  <2>3. Total(FeedbackCounts) \in Nat /\ Total(FeedbackCounts) <= Cardinality(rows)
    BY <1>4, AnswersAreRows DEF rows
  <2> QED
    BY <1>1, <2>1, <2>2, <2>3
<1>13. n = 11 => /\ "user totals" \in DOMAIN later
                 /\ Total(later["feedback"]) <= Total(later["user totals"])
                 /\ \A v \in DOMAIN later["user totals"] :
                      /\ later["user totals"][v] \in Nat
                      /\ later["user totals"][v] <= Cardinality(Of(tables.feedback, rows, v))
  <2> SUFFICES ASSUME n = 11
               PROVE  /\ "user totals" \in DOMAIN later
                      /\ Total(later["feedback"]) <= Total(later["user totals"])
                      /\ \A v \in DOMAIN later["user totals"] :
                           /\ later["user totals"][v] \in Nat
                           /\ later["user totals"][v] <= Cardinality(Of(tables.feedback, rows, v))
    OBVIOUS
  <2>1. Queries[n] = "user totals"
    BY FigurePlaces
  <2>2. result = Tally(tables.feedback, rows, "user")
    BY <2>1 DEF Answers, Groups, rows
  <2>3. /\ \A v \in DOMAIN result :
             result[v] = Cardinality({i \in rows : tables.feedback[i]["user"] = v})
        /\ Total(result) = Cardinality(rows)
    BY <1>4, <1>5, <2>2, TallyShape
  <2>4. ASSUME NEW v \in DOMAIN result
        PROVE  /\ result[v] \in Nat
               /\ result[v] <= Cardinality(Of(tables.feedback, rows, v))
    <3>1. result[v] = Cardinality(Of(tables.feedback, rows, v))
      BY <1>6, <2>3
    <3> QED
      BY <1>7, <3>1
  <2>5. later["user totals"] = result /\ "user totals" \in DOMAIN later
    BY <1>1, <2>1
  <2>6. Total(later["feedback"]) <= Cardinality(rows)
    <3>1. n > 1
      OBVIOUS
    <3>2. later["feedback"] = out["feedback"] /\ Total(out["feedback"]) <= Cardinality(rows)
      BY <1>9, <3>1, Zenon
    <3> QED
      BY <3>2, Zenon
  <2>7. Total(later["feedback"]) <= Total(later["user totals"])
    BY <2>3, <2>5, <2>6, Zenon
  <2> QED
    BY <2>4, <2>5, <2>7, Zenon
<1>14. n = 12 => /\ "user volume" \in DOMAIN later
                 /\ \A v \in DOMAIN later["user volume"] :
                      /\ later["user volume"][v] \in Nat
                      /\ later["user volume"][v] <= Cardinality(Of(tables.feedback, rows, v))
  <2> SUFFICES ASSUME n = 12
               PROVE  /\ "user volume" \in DOMAIN later
                      /\ \A v \in DOMAIN later["user volume"] :
                           /\ later["user volume"][v] \in Nat
                           /\ later["user volume"][v] <= Cardinality(Of(tables.feedback, rows, v))
    OBVIOUS
  <2> DEFINE shown == Shown(tables.feedback, rows, "at")
  <2>1. Queries[n] = "user volume"
    BY FigurePlaces
  <2>2. result = Tally(tables.feedback, shown, "user")
    BY <2>1 DEF Answers, Groups, rows
  <2>3. shown \subseteq rows /\ IsFiniteSet(shown)
    BY <1>4, FS_Subset DEF Shown
  <2> HIDE DEF shown
  <2>4. \A v \in DOMAIN result :
          result[v] = Cardinality({i \in shown : tables.feedback[i]["user"] = v})
    BY <2>2, <2>3, TallyShape, SMTT(60)
  <2>5. ASSUME NEW v \in DOMAIN result
        PROVE  /\ result[v] \in Nat
               /\ result[v] <= Cardinality(Of(tables.feedback, rows, v))
    <3> DEFINE own == {i \in shown : tables.feedback[i]["user"] = v}
    <3>1. own \subseteq Of(tables.feedback, rows, v)
      BY <1>6, <2>3
    <3> HIDE DEF own
    <3>2. /\ Cardinality(own) \in Nat
          /\ Cardinality(own) <= Cardinality(Of(tables.feedback, rows, v))
      BY <1>7, <3>1, FS_Subset, FS_CardinalityType
    <3>3. result[v] = Cardinality(own)
      BY <2>4 DEF own
    <3> QED
      BY <3>2, <3>3
  <2>6. later["user volume"] = result /\ "user volume" \in DOMAIN later
    BY <1>1, <2>1
  <2> QED
    BY <2>5, <2>6
<1>15. CountedWithin(later, n + 1, tables.feedback, rows)
  <2>1. n + 1 > 1 => /\ "feedback" \in DOMAIN later
                     /\ Total(later["feedback"]) \in Nat
                     /\ Total(later["feedback"]) <= Cardinality(rows)
    BY <1>9, <1>12
  <2>2. n + 1 > 11 => /\ "user totals" \in DOMAIN later
                      /\ Total(later["feedback"]) <= Total(later["user totals"])
                      /\ \A v \in DOMAIN later["user totals"] :
                           /\ later["user totals"][v] \in Nat
                           /\ later["user totals"][v] <= Cardinality(Of(tables.feedback, rows, v))
    <3>1. n + 1 > 11 <=> n = 11 \/ n > 11
      OBVIOUS
    <3>2. CASE n = 11
      BY <1>13, <3>2, Zenon
    <3>3. CASE n > 11
      <4>1. n > 1
        BY <3>3
      <4>2. later["feedback"] = out["feedback"] /\ later["user totals"] = out["user totals"]
        BY <1>9, <1>10, <3>3, <4>1, Zenon
      <4> QED
        BY <1>10, <3>3, <4>2, Zenon
    <3> QED
      BY <3>1, <3>2, <3>3, Zenon
  <2>3. n + 1 > 12 => /\ "user volume" \in DOMAIN later
                      /\ \A v \in DOMAIN later["user volume"] :
                           /\ later["user volume"][v] \in Nat
                           /\ later["user volume"][v] <= Cardinality(Of(tables.feedback, rows, v))
    <3>1. n + 1 > 12 <=> n = 12 \/ n > 12
      OBVIOUS
    <3> QED
      BY <1>11, <1>14, <3>1
  <2> QED
    BY <2>1, <2>2, <2>3 DEF CountedWithin
<1>16. n = 14 => Fits(later, n + 1)
  <2> SUFFICES ASSUME n = 14 PROVE Fits(later, n + 1)
    OBVIOUS
  <2>0. PICK count : count = Tally(tables.feedback, rows, "user")
    OBVIOUS
  <2>1. Queries[n] = "top users"
    BY FigurePlaces
  <2>2. PICK s \in Leaders(count) : result = Listed(s, count)
    BY <2>0, <2>1 DEF Answers, Groups, rows
  <2>3. /\ IsFiniteSet(DOMAIN count)
        /\ \A v \in DOMAIN count :
             count[v] = Cardinality({i \in rows : tables.feedback[i]["user"] = v})
    <3>1. \A v \in DOMAIN count :
            count[v] = Cardinality({i \in rows : tables.feedback[i]["user"] = v})
      BY <1>4, <2>0, TallyShape
    <3>2. IsFiniteSet(DOMAIN count)
      BY <1>4, <2>0, TallyShape, Zenon
    <3> QED
      BY <3>1, <3>2
  <2>4. ASSUME NEW i \in DOMAIN result
        PROVE  result[i].count = Cardinality(Of(tables.feedback, rows, result[i].id))
    <3>1. DOMAIN result = DOMAIN s /\ result[i].id = s[i] /\ result[i].count = count[s[i]]
      BY <2>2 DEF Listed
    <3>2. s[i] \in DOMAIN count
      BY <2>2, <2>3, <3>1, LeadersCounted
    <3>3. count[s[i]] = Cardinality(Of(tables.feedback, rows, s[i]))
      BY <1>6, <2>3, <3>2
    <3> QED
      BY <3>1, <3>3
  <2>5. later["top users"] = result /\ "top users" \in DOMAIN later
    BY <1>1, <2>1
  <2> DEFINE given == later["user totals"]
             volume == later["user volume"]
  <2>6. /\ \A v \in DOMAIN given : given[v] \in Nat /\ given[v] <= Cardinality(Of(tables.feedback, rows, v))
        /\ \A v \in DOMAIN volume : volume[v] \in Nat /\ volume[v] <= Cardinality(Of(tables.feedback, rows, v))
        /\ Total(later["feedback"]) <= Total(given)
        /\ {"feedback", "user totals", "user volume"} \subseteq DOMAIN later
    <3>1. n > 1 /\ n > 11 /\ n > 12
      OBVIOUS
    <3>2. later["feedback"] = out["feedback"] /\ given = out["user totals"] /\ volume = out["user volume"]
      BY <1>9, <1>10, <1>11, <3>1, Zenon
    <3>3. \A v \in DOMAIN given : given[v] \in Nat /\ given[v] <= Cardinality(Of(tables.feedback, rows, v))
      BY <1>10, <3>1, <3>2, Zenon
    <3>4. \A v \in DOMAIN volume : volume[v] \in Nat /\ volume[v] <= Cardinality(Of(tables.feedback, rows, v))
      BY <1>11, <3>1, <3>2, Zenon
    <3>5. Total(later["feedback"]) <= Total(given)
      BY <1>10, <3>1, <3>2, Zenon
    <3>6. {"feedback", "user totals", "user volume"} \subseteq DOMAIN later
      BY <1>9, <1>10, <1>11, <3>1
    <3> QED
      BY <3>3, <3>4, <3>5, <3>6
  <2>7. ASSUME NEW i \in DOMAIN result
        PROVE  /\ result[i].id \in DOMAIN given => result[i].count >= given[result[i].id]
               /\ result[i].id \in DOMAIN volume => result[i].count >= volume[result[i].id]
    <3> DEFINE v == result[i].id
               held == Cardinality(Of(tables.feedback, rows, v))
    <3>1. result[i].count = held /\ held \in Nat
      BY <1>7, <2>4
    <3>2. /\ v \in DOMAIN given => given[v] \in Nat /\ given[v] <= held
          /\ v \in DOMAIN volume => volume[v] \in Nat /\ volume[v] <= held
      BY <2>6
    <3> HIDE DEF v, held, given, volume
    <3>3. /\ v \in DOMAIN given => result[i].count >= given[v]
          /\ v \in DOMAIN volume => result[i].count >= volume[v]
      BY <3>1, <3>2
    <3> QED
      BY <3>3 DEF v
  <2> QED
    BY <2>5, <2>6, <2>7 DEF Fits, Fitting
<1>17. n # 14 => Fits(later, n + 1)
  <2>0. n + 1 > 14 /\ n # 14 => n > 14
    OBVIOUS
  <2> SUFFICES ASSUME n > 14 PROVE Fits(later, n + 1)
    BY <2>0, Zenon DEF Fits
  <2>1. {"feedback", "user totals", "user volume", "top users"} \subseteq DOMAIN out /\ Fitting(out)
    BY DEF Fits
  <2>2. /\ later["feedback"] = out["feedback"] /\ later["user totals"] = out["user totals"]
        /\ later["user volume"] = out["user volume"] /\ later["top users"] = out["top users"]
    <3>1. n # 1 /\ n # 11 /\ n # 12 /\ n # 14
      OBVIOUS
    <3>2. /\ Queries[n] # "feedback" /\ Queries[n] # "user totals"
          /\ Queries[n] # "user volume" /\ Queries[n] # "top users"
      BY <1>3, <3>1
    <3> QED
      BY <1>1, <2>1, <3>2
  <2>3. Fitting(later)
    BY <2>1, <2>2 DEF Fitting
  <2> QED
    BY <1>1, <2>1, <2>3 DEF Fits
<1> QED
  BY <1>15, <1>16, <1>17 DEF later, rows

LEMMA FiguresInitially == OutcomesInit => FiguresTold
<1> SUFFICES ASSUME OutcomesInit PROVE FiguresTold
  OBVIOUS
<1>1. report.pc = "idle" /\ report.next = 1
  BY DEF OutcomesInit, NewReport
<1> QED
  BY <1>1 DEF FiguresTold, Fits

\* Every step of the writers and of the report keeps FiguresTold.
LEMMA FiguresKept ==
  ASSUME TablesTyped, ReportTold(report), FiguresTold, OutcomesNext
  PROVE  FiguresTold'
<1> DEFINE r == report
           n == report.next
<1>0. /\ ReportFields(r) /\ n \in Nat \ {0} /\ tables.now \in Nat /\ tables.now # Absent
      /\ r.pc \in {"idle", "scope", "query", "done"}
  BY DEF ReportTold, TablesTyped, Absent
<1>1. CASE WriterActs
  <2>1. report' = report
    BY <1>1 DEF WriterActs, IngestEvent, StoreOrder, CompleteOrder, SubmitFeedback, HalfADay
  <2>2. ASSUME r.failed = {}, r.pc = "query"
        PROVE  CountedWithin(r.out, n, tables'.feedback, FeedbackRows')
    <3>1. CASE n = 1
      BY <3>1 DEF CountedWithin
    <3>2. CASE n > 1
      <4>1. r.begun # Absent /\ CountedWithin(r.out, n, tables.feedback, FeedbackRows)
        BY <2>2, <3>2 DEF FiguresTold
      <4>2. /\ FeedbackRows \subseteq FeedbackRows' /\ IsFiniteSet(FeedbackRows')
            /\ \A i \in FeedbackRows : tables'.feedback[i] = tables.feedback[i]
        BY <1>1, <4>1, RowsStay
      <4> QED
        BY <1>0, <4>1, <4>2, MoreRows
    <3> QED
      BY <1>0, <3>1, <3>2
  <2> QED
    BY <2>1, <2>2 DEF FiguresTold
<1>2. CASE AskForReport
  <2>1. report'.next = 1 /\ report'.pc # "query"
    BY <1>2 DEF AskForReport, NewReport
  <2>2. Fits(report'.out, report'.next)
    <3>1. ~ (report'.next > 14)
      BY <2>1
    <3> QED
      BY <3>1, Zenon DEF Fits
  <2> QED
    BY <2>1, <2>2 DEF FiguresTold
<1>3. CASE ReadScope
  <2>1. /\ r.pc = "scope" /\ report'.next = n /\ report'.out = r.out /\ report'.pc = "query"
    BY <1>0, <1>3 DEF ReadScope, ReportFields
  <2>2. n = 1
    BY <2>1 DEF FiguresTold
  <2> QED
    BY <2>1, <2>2 DEF FiguresTold, Fits, CountedWithin
<1>4. CASE ScopeUnread \/ ReturnReport
  <2>1. /\ report'.next = n /\ report'.out = r.out /\ report'.pc = "done" /\ report'.failed = r.failed
    BY <1>0, <1>4 DEF ScopeUnread, ReturnReport, ReportFields
  <2> QED
    BY <2>1 DEF FiguresTold
<1>5. CASE ConnectionLost
  <2>1. /\ report' = [report EXCEPT !.tx = "lost"] /\ UNCHANGED tables
    BY <1>5 DEF ConnectionLost
  <2>2. /\ report'.next = n /\ report'.out = r.out /\ report'.pc = r.pc /\ report'.failed = r.failed
        /\ report'.begun = r.begun /\ report'.who = r.who
    BY <1>0, <2>1 DEF ReportFields
  <2>3. FeedbackRows' = FeedbackRows
    BY <2>1, <2>2 DEF FeedbackRows, InWindow, Now, Unrestricted
  <2> QED
    BY <2>1, <2>2, <2>3 DEF FiguresTold
<1>6. CASE QueryFails \/ QueryRefused
  <2>1. PICK tx, faulty : GiveUp(tx, faulty) /\ AtQuery
    BY <1>6 DEF QueryFails, QueryRefused
  <2>2. report'.failed # {} /\ report'.pc = "query"
    BY <1>0, <2>1 DEF GiveUp, AtQuery, ReportFields
  <2> QED
    BY <2>2 DEF FiguresTold
<1>7. CASE QueryAnswered
  <2>1. /\ AtQuery /\ r.pc = "query" /\ n \in 1 .. 18 /\ Query = Queries[n] /\ Following = n + 1
        /\ UNCHANGED tables
    <3>1. AtQuery /\ UNCHANGED tables
      BY <1>7 DEF QueryAnswered
    <3>2. r.pc = "query" /\ n <= Len(Queries)
      BY <3>1 DEF AtQuery
    <3>3. n \in 1 .. 18
      <4>1. n <= 18
        BY <3>2, QueryPlaces
      <4> QED
        BY <1>0, <4>1
    <3> QED
      BY <3>1, <3>2, <3>3 DEF Query, Following
  <2>2. Now # Absent
    BY <1>0 DEF Now
  <2>3. Queries[n] = "early events" <=> n = 8
    BY <2>1, QueryPlaces
  <2>4. /\ report'.begun = Now /\ report'.who = r.who /\ report'.pc = r.pc
        /\ report'.failed = r.failed /\ report'.next = n + 1
    BY <1>0, <1>7, <2>1 DEF QueryAnswered, ReportFields
  <2>5. FeedbackRows' = FeedbackRows
    <3>1. Now' = Now
      BY <2>2, <2>4 DEF Now
    <3>2. Unrestricted' <=> Unrestricted
      BY <2>4 DEF Unrestricted
    <3> QED
      BY <2>1, <2>4, <3>1, <3>2 DEF FeedbackRows, InWindow
  <2> SUFFICES ASSUME r.failed = {}
               PROVE  /\ CountedWithin(report'.out, n + 1, tables.feedback, FeedbackRows)
                      /\ Fits(report'.out, n + 1)
    BY <2>1, <2>2, <2>4, <2>5 DEF FiguresTold
  <2>6. CountedWithin(r.out, n, tables.feedback, FeedbackRows) /\ Fits(r.out, n)
    BY <2>1 DEF FiguresTold
  <2>7. CASE n = 8
    <3>1. report'.out = r.out
      BY <1>0, <1>7, <2>1, <2>3, <2>7 DEF QueryAnswered, ReportFields
    <3> QED
      BY <2>6, <2>7, <3>1 DEF CountedWithin, Fits
  <2>8. CASE n # 8
    <3>1. PICK result \in Answers(Query) : report'.out = Extended(r.out, Query, result)
      BY <1>0, <1>7, <2>1, <2>3, <2>8 DEF QueryAnswered, ReportFields
    <3> QED
      BY <2>1, <2>6, <2>8, <3>1, AnswerCounts
  <2> QED
    BY <2>7, <2>8
<1> QED
  BY <1>1, <1>2, <1>3, <1>4, <1>5, <1>6, <1>7 DEF OutcomesNext

\* The tables stay tables of rows: only writers change them.
LEMMA TablesInvariance == OutcomesInit /\ [][OutcomesNext]_outcomeVars => []TablesTyped
<1>1. ASSUME TablesTyped, [OutcomesNext]_outcomeVars PROVE TablesTyped'
  <2>1. WriterActs \/ UNCHANGED tables
    BY <1>1 DEF OutcomesNext, outcomeVars, AskForReport, ReadScope, ScopeUnread, QueryAnswered,
                QueryFails, QueryRefused, ConnectionLost, ReturnReport
  <2>2. CASE WriterActs
    BY <1>1, <2>2, WritersAdd
  <2>3. CASE UNCHANGED tables
    BY <1>1, <2>3 DEF TablesTyped
  <2> QED
    BY <2>1, <2>2, <2>3
<1> QED
  BY <1>1, TablesInitially, PTL

LEMMA FiguresInvariance == OutcomesInit /\ [][OutcomesNext]_outcomeVars => []FiguresTold
<1>1. ASSUME TablesTyped, ReportTold(report), FiguresTold, [OutcomesNext]_outcomeVars
      PROVE  FiguresTold'
  <2>1. CASE OutcomesNext
    BY <1>1, <2>1, FiguresKept
  <2>2. CASE UNCHANGED outcomeVars
    <3>1. report' = report /\ tables' = tables
      BY <2>2 DEF outcomeVars
    <3>2. FeedbackRows' = FeedbackRows
      BY <3>1 DEF FeedbackRows, InWindow, Now, Unrestricted
    <3> QED
      BY <1>1, <3>1, <3>2 DEF FiguresTold
  <2> QED
    BY <1>1, <2>1, <2>2
<1> QED
  BY <1>1, FiguresInitially, TablesInvariance, ReportInvariance, PTL

\* A report that is returned is past the leaderboard.
LEMMA FiguresShown == FiguresTold /\ ReportTold(report) => LaterNeverLess
<1> SUFFICES ASSUME FiguresTold, ReportTold(report), Returned, report.failed = {}
             PROVE  Fitting(report.out)
  BY DEF LaterNeverLess, Fitting
<1>1. report.next \in Nat /\ report.next > 14
  <2>1. report.next \in Nat /\ report.next > 18
    BY QueryPlaces DEF Returned, ReportTold
  <2> QED
    BY <2>1
<1> QED
  BY <1>1 DEF FiguresTold, Fits

-----------------------------------------------------------------------------
(***************************************************************************)
(* The early warnings.                                                     *)
(***************************************************************************)

\* What a function takes finitely many things to is finite.
LEMMA FiniteImage ==
  ASSUME NEW S, IsFiniteSet(S), NEW f, DOMAIN f = S, f = [x \in S |-> f[x]]
  PROVE  IsFiniteSet({f[x] : x \in S})
<1> DEFINE T == {f[x] : x \in S}
<1>1. f \in [S -> T]
  OBVIOUS
<1>2. \A y \in T : \E x \in S : f[x] = y
  OBVIOUS
<1> HIDE DEF T
<1>3. f \in Surjection(S, T)
  BY <1>1, <1>2 DEF Surjection
<1>4. IsFiniteSet(T)
  BY <1>3, FS_Surjection
<1> QED
  BY <1>4 DEF T

\* A finite set of numbers that is not empty has a greatest: the one with the
\* fewest above it.
LEMMA MaxIs ==
  ASSUME NEW S, IsFiniteSet(S), S \subseteq Int, S # {}
  PROVE  Max(S) \in S /\ \A y \in S : Max(S) >= y
<1> DEFINE Above(x) == {y \in S : y > x}
           few == {Cardinality(Above(x)) : x \in S}
<1>1. \A x \in S : IsFiniteSet(Above(x)) /\ Cardinality(Above(x)) \in Nat
  BY FS_Subset, FS_CardinalityType
<1>2. few \in SUBSET Nat /\ few # {}
  BY <1>1
<1>3. PICK n \in few : \A m \in few : n <= m
  BY <1>2, LeastOf
<1>4. PICK x \in S : n = Cardinality(Above(x))
  BY <1>3
<1>5. ASSUME NEW y \in S PROVE x >= y
  <2> SUFFICES ASSUME y > x PROVE FALSE
    OBVIOUS
  <2>0. x \in Int /\ y \in Int /\ \A z \in S : z \in Int
    OBVIOUS
  <2>1. Above(y) \subseteq Above(x) /\ y \in Above(x) /\ y \notin Above(y)
    <3>1. \A z \in S : z > y => z > x
      BY <2>0
    <3>2. ~ (y > y)
      BY <2>0
    <3> QED
      BY <3>1, <3>2
  <2>2. Cardinality(Above(y)) \in few
    OBVIOUS
  <2>3. Cardinality(Above(x)) <= Cardinality(Above(y))
    BY <1>3, <1>4, <2>2
  <2> HIDE DEF Above
  <2>4. Cardinality(Above(y)) <= Cardinality(Above(x))
    BY <1>1, <2>1, FS_Subset
  <2>5. Cardinality(Above(y)) = Cardinality(Above(x))
    <3> DEFINE p == Cardinality(Above(x))
               q == Cardinality(Above(y))
    <3>1. p \in Nat /\ q \in Nat /\ p <= q /\ q <= p
      BY <1>1, <2>3, <2>4
    <3> HIDE DEF p, q
    <3>2. p = q
      BY <3>1
    <3> QED
      BY <3>2 DEF p, q
  <2>6. Above(y) = Above(x)
    BY <1>1, <2>1, <2>5, FS_Subset
  <2> QED
    BY <2>1, <2>6
<1> QED
  BY <1>5 DEF Max

\* The greatest of more is no less.
LEMMA MaxRises ==
  ASSUME NEW S, NEW T, IsFiniteSet(T), T \subseteq Int, S \subseteq T, S # {}
  PROVE  Max(S) \in Int /\ Max(T) \in Int /\ Max(S) <= Max(T)
<1>1. IsFiniteSet(S) /\ S \subseteq Int /\ T # {}
  BY FS_Subset
<1>2. Max(S) \in S /\ Max(T) \in T /\ \A y \in T : Max(T) >= y
  BY <1>1, MaxIs
<1> QED
  BY <1>2

\* The highest of more readings is no lower, and never below Absent.
LEMMA PeakRises ==
  ASSUME NEW S, NEW T, IsFiniteSet(T), T \subseteq Int, S \subseteq T
  PROVE  /\ Peak(S) \in Int /\ Peak(T) \in Int
         /\ Absent <= Peak(S) /\ Peak(S) <= Peak(T)
<1>1. IsFiniteSet(T \cup {Absent}) /\ T \cup {Absent} \subseteq Int
  BY FS_AddElement DEF Absent
<1>2. S \cup {Absent} \subseteq T \cup {Absent} /\ {Absent} \subseteq S \cup {Absent}
  OBVIOUS
<1>3. IsFiniteSet(S \cup {Absent}) /\ S \cup {Absent} \subseteq Int
  BY <1>1, <1>2, FS_Subset
<1> DEFINE s == S \cup {Absent}
           t == T \cup {Absent}
<1> HIDE DEF s, t
<1>4. Max(s) \in Int /\ Max(t) \in Int /\ Max(s) <= Max(t)
  BY <1>1, <1>2, MaxRises DEF s, t
<1>5. Absent \in s /\ IsFiniteSet(s) /\ s \subseteq Int
  BY <1>3 DEF s
<1>6. Max(s) >= Absent
  BY <1>5, MaxIs
<1> QED
  BY <1>4, <1>6 DEF Peak, s, t, Absent

\* More of everything scores no less.
LEMMA ScoreRises ==
  ASSUME NEW s, NEW t, NEW now \in Nat,
         {s.severity, t.severity, s.vibration, t.vibration, s.temperature, t.temperature,
          s.lastEvent, t.lastEvent} \subseteq Int,
         {s.events, t.events, s.breaches, t.breaches, s.flags} \subseteq Nat,
         s.severity <= t.severity, s.events <= t.events, s.flags = t.flags,
         s.breaches <= t.breaches, s.vibration <= t.vibration,
         s.temperature <= t.temperature, Absent <= s.lastEvent, s.lastEvent <= t.lastEvent
  PROVE  Score(t, now) >= Score(s, now)
<1>1. ASSUME NEW cap \in Nat, NEW a \in Int, NEW b \in Int, a <= b
      PROVE  AtMost(cap, a) \in Int /\ AtMost(cap, b) \in Int /\ AtMost(cap, a) <= AtMost(cap, b)
  BY <1>1 DEF AtMost
<1>2. ASSUME NEW high \in Nat, NEW higher \in Nat, NEW a \in Int, NEW b \in Int, a <= b, high <= higher
      PROVE  /\ Step(a, high, higher) \in Int /\ Step(b, high, higher) \in Int
             /\ Step(a, high, higher) <= Step(b, high, higher)
  BY <1>2 DEF Step
<1>3. /\ Recency(s.lastEvent, now) \in Int /\ Recency(t.lastEvent, now) \in Int
      /\ Recency(s.lastEvent, now) <= Recency(t.lastEvent, now)
  BY DEF Recency, Absent
<1> DEFINE e1 == AtMost(18, 6 * s.events)    e2 == AtMost(18, 6 * t.events)
           f == AtMost(24, s.flags)
           b1 == AtMost(10, 4 * s.breaches)  b2 == AtMost(10, 4 * t.breaches)
           v1 == Step(s.vibration, 75, 100)  v2 == Step(t.vibration, 75, 100)
           h1 == Step(s.temperature, 80, 90) h2 == Step(t.temperature, 80, 90)
           r1 == Recency(s.lastEvent, now)   r2 == Recency(t.lastEvent, now)
<1>4. e1 \in Int /\ e2 \in Int /\ e1 <= e2
  <2>1. 6 * s.events \in Int /\ 6 * t.events \in Int /\ 6 * s.events <= 6 * t.events
    OBVIOUS
  <2> QED
    BY <1>1, <2>1
<1>5. f \in Int /\ f = AtMost(24, t.flags)
  BY <1>1
<1>6. b1 \in Int /\ b2 \in Int /\ b1 <= b2
  <2>1. 4 * s.breaches \in Int /\ 4 * t.breaches \in Int /\ 4 * s.breaches <= 4 * t.breaches
    OBVIOUS
  <2> QED
    BY <1>1, <2>1
<1>7. v1 \in Int /\ v2 \in Int /\ v1 <= v2
  BY <1>2, SMTT(60)
<1>8. h1 \in Int /\ h2 \in Int /\ h1 <= h2
  BY <1>2, SMTT(60)
<1>9. r1 \in Int /\ r2 \in Int /\ r1 <= r2
  BY <1>3, SMTT(60)
<1>10. /\ Score(s, now) = AtMost(100, s.severity + e1 + f + b1 + v1 + h1 + r1)
       /\ Score(t, now) = AtMost(100, t.severity + e2 + f + b2 + v2 + h2 + r2)
  BY <1>5 DEF Score
<1> HIDE DEF e1, e2, f, b1, b2, v1, v2, h1, h2, r1, r2
<1> DEFINE x == s.severity + e1 + f + b1 + v1 + h1 + r1
           y == t.severity + e2 + f + b2 + v2 + h2 + r2
<1>11. x \in Int /\ y \in Int /\ x <= y
  BY <1>4, <1>5, <1>6, <1>7, <1>8, <1>9
<1> HIDE DEF x, y
<1>12. AtMost(100, x) \in Int /\ AtMost(100, y) \in Int /\ AtMost(100, x) <= AtMost(100, y)
  BY <1>1, <1>11
<1> QED
  BY <1>10, <1>12 DEF x, y

LEMMA PointsNatural ==
  /\ \A period : PeriodPoints(period) \in Nat
  /\ \A severity : SeverityPoints(severity) \in Nat
BY DEF PeriodPoints, SeverityPoints

\* The flags of finitely many rollups are worth a number of points.
LEMMA FlagPointsNatural ==
  ASSUME NEW rollups, NEW S, IsFiniteSet(S), \A i \in S : rollups[i].flags \in Nat
  PROVE  FlagPoints(rollups, S) \in Nat
<1> DEFINE Points(i) == PeriodPoints(rollups[i].period) * rollups[i].flags
           w == [i \in S |-> Points(i)]
           D(g) == [s \in SUBSET S |-> IF s = {} THEN 0
                          ELSE Points(CHOOSE x \in s : TRUE) + g[s \ {CHOOSE x \in s : TRUE}]]
           h == CHOOSE g : g = D(g)
<1>1. \A i \in S : w[i] = Points(i) /\ w[i] \in Nat
  <2>1. ASSUME NEW i \in S PROVE Points(i) \in Nat
    <3>1. PeriodPoints(rollups[i].period) \in Nat /\ rollups[i].flags \in Nat
      BY PointsNatural
    <3> QED
      BY <3>1
  <2> QED
    BY <2>1
<1>2. FlagPoints(rollups, S) = h[S]
  BY DEF FlagPoints, MapThenSumSet, MapThenFoldSet
<1> HIDE DEF w, Points
<1>3. PICK f : AddsUp(f, w, S)
  BY SumExists
<1>4. f = D(f)
  <2>1. ASSUME NEW s \in SUBSET S, s # {} PROVE One(s) \in S
    BY <2>1 DEF One
  <2>2. \A s \in SUBSET S : f[s] = IF s = {} THEN 0 ELSE Points(One(s)) + f[s \ {One(s)}]
    BY <1>1, <1>3, <2>1 DEF AddsUp
  <2> QED
    BY <1>3, <2>2 DEF AddsUp, One
<1>5. h = D(h)
  BY <1>4
<1> HIDE DEF h
<1>6. AddsUp(h, w, S)
  <2>1. ASSUME NEW s \in SUBSET S, s # {} PROVE One(s) \in S
    BY <2>1 DEF One
  <2>2. \A s \in SUBSET S : h[s] = IF s = {} THEN 0 ELSE Points(One(s)) + h[s \ {One(s)}]
    BY <1>5 DEF One
  <2>3. h = [s \in SUBSET S |-> h[s]]
    BY <1>5
  <2> QED
    BY <1>1, <2>1, <2>2, <2>3 DEF AddsUp
<1>7. h[S] \in Nat
  BY <1>1, <1>6, SumOfNaturals
<1> QED
  BY <1>2, <1>7

\* One event more, and the state of an asset rises.
LEMMA StateRises ==
  ASSUME NEW events, NEW later, NEW rollups, NEW more, NEW a,
         OneMore(events, later, more), EventMeasures(more),
         \A i \in DOMAIN events : EventMeasures(events[i]),
         IsFiniteSet(DOMAIN rollups), \A i \in DOMAIN rollups : RollupMeasures(rollups[i])
  PROVE  LET s == AssetState(a, events, rollups)
             t == AssetState(a, later, rollups)
         IN  /\ {s.severity, t.severity, s.vibration, t.vibration, s.temperature, t.temperature,
                 s.lastEvent, t.lastEvent} \subseteq Int
             /\ {s.events, t.events, s.breaches, t.breaches, s.flags} \subseteq Nat
             /\ s.severity <= t.severity /\ s.events <= t.events /\ s.flags = t.flags
             /\ s.breaches <= t.breaches /\ s.vibration <= t.vibration
             /\ s.temperature <= t.temperature
             /\ Absent <= s.lastEvent /\ s.lastEvent <= t.lastEvent
<1> DEFINE own == {i \in DOMAIN events : events[i].asset = a}
           after == {i \in DOMAIN later : later[i].asset = a}
           signals == {i \in DOMAIN rollups : rollups[i].asset = a}
           Old(field) == {events[i][field] : i \in own}
           New(field) == {later[i][field] : i \in after}
           Rolled(type) == {RollupPeak(rollups[i]) : i \in {j \in signals : rollups[j].type = type}}
           flags == FlagPoints(rollups, signals)
           high == {SeverityPoints(x) : x \in Old("severity")} \cup {0}
           higher == {SeverityPoints(x) : x \in New("severity")} \cup {0}
           breached == {i \in own : Breached(events[i])}
           breaching == {i \in after : Breached(later[i])}
<1>1. /\ DOMAIN events \subseteq DOMAIN later /\ IsFiniteSet(DOMAIN later)
      /\ \A i \in DOMAIN events : later[i] = events[i]
      /\ \A i \in DOMAIN later : EventMeasures(later[i])
  <2>1. /\ DOMAIN events = 1 .. Len(events) /\ Len(events) \in Nat
        /\ DOMAIN later = 1 .. Len(events) + 1
        /\ \A i \in DOMAIN events : later[i] = events[i]
        /\ later[Len(events) + 1] = more
    BY DEF OneMore
  <2>2. IsFiniteSet(1 .. Len(events) + 1)
    BY <2>1, FS_Interval
  <2>3. \A i \in DOMAIN later : i \in DOMAIN events \/ i = Len(events) + 1
    BY <2>1
  <2> QED
    BY <2>1, <2>2, <2>3
<1>2. /\ own \subseteq after /\ IsFiniteSet(after) /\ \A i \in own : later[i] = events[i]
      /\ \A i \in after : EventMeasures(later[i])
  BY <1>1, FS_Subset
<1>3. IsFiniteSet(signals) /\ \A i \in signals : RollupMeasures(rollups[i])
  BY FS_Subset
<1>4. flags \in Nat
  <2>1. \A i \in signals : rollups[i].flags \in Nat
    BY <1>3 DEF RollupMeasures
  <2> HIDE DEF signals
  <2> QED
    BY <1>3, <2>1, FlagPointsNatural
<1>5. /\ AssetState(a, events, rollups) =
           [events |-> Cardinality(own), lastEvent |-> Peak(Old("time")), severity |-> Max(high),
            breaches |-> Cardinality(breached), flags |-> flags,
            vibration |-> Peak(Old("vibration") \cup Rolled("vibration")),
            temperature |-> Peak(Old("temperature") \cup Rolled("temperature"))]
      /\ AssetState(a, later, rollups) =
           [events |-> Cardinality(after), lastEvent |-> Peak(New("time")), severity |-> Max(higher),
            breaches |-> Cardinality(breaching), flags |-> flags,
            vibration |-> Peak(New("vibration") \cup Rolled("vibration")),
            temperature |-> Peak(New("temperature") \cup Rolled("temperature"))]
  BY DEF AssetState
<1> HIDE DEF flags
<1>6. ASSUME NEW field PROVE IsFiniteSet(New(field)) /\ Old(field) \subseteq New(field)
  <2> DEFINE f == [i \in after |-> later[i][field]]
  <2>1. DOMAIN f = after /\ f = [i \in after |-> f[i]] /\ New(field) = {f[i] : i \in after}
    OBVIOUS
  <2>2. Old(field) \subseteq New(field)
    BY <1>2
  <2> HIDE DEF f, New, after
  <2>3. IsFiniteSet({f[i] : i \in after})
    BY <1>2, <2>1, FiniteImage
  <2> QED
    BY <2>1, <2>2, <2>3
<1>7. New("time") \subseteq Int /\ New("vibration") \subseteq Int /\ New("temperature") \subseteq Int
  BY <1>2 DEF EventMeasures
<1>8. ASSUME NEW type PROVE IsFiniteSet(Rolled(type)) /\ Rolled(type) \subseteq Int
  <2> DEFINE S == {j \in signals : rollups[j].type = type}
             f == [i \in S |-> RollupPeak(rollups[i])]
  <2>1. IsFiniteSet(S)
    BY <1>3, FS_Subset
  <2>2. \A i \in S : f[i] \in Int
    BY <1>3 DEF RollupPeak, RollupMeasures
  <2>3. Rolled(type) = {f[i] : i \in S}
    OBVIOUS
  <2>4. DOMAIN f = S /\ f = [i \in S |-> f[i]]
    OBVIOUS
  <2> HIDE DEF f, S, Rolled
  <2>5. IsFiniteSet({f[i] : i \in S})
    BY <2>1, <2>4, FiniteImage
  <2> QED
    BY <2>2, <2>3, <2>5
<1>9. /\ Cardinality(own) \in Nat /\ Cardinality(after) \in Nat
      /\ Cardinality(own) <= Cardinality(after)
  BY <1>2, FS_Subset, FS_CardinalityType
<1>10. /\ Cardinality(breached) \in Nat /\ Cardinality(breaching) \in Nat
       /\ Cardinality(breached) <= Cardinality(breaching)
  <2>1. breached \subseteq breaching
    BY <1>2
  <2>2. IsFiniteSet(breaching)
    BY <1>2, FS_Subset
  <2> HIDE DEF breached, breaching
  <2> QED
    BY <2>1, <2>2, FS_Subset, FS_CardinalityType
<1>11. Max(high) \in Int /\ Max(higher) \in Int /\ Max(high) <= Max(higher)
  <2> DEFINE S == New("severity")
             f == [x \in S |-> SeverityPoints(x)]
  <2>1. higher = {f[x] : x \in S} \cup {0} /\ DOMAIN f = S /\ f = [x \in S |-> f[x]]
    OBVIOUS
  <2>2. IsFiniteSet(S) /\ Old("severity") \subseteq S
    BY <1>6
  <2>3. high \subseteq higher /\ high # {}
    BY <2>2
  <2>4. higher \subseteq Int
    BY PointsNatural
  <2> HIDE DEF f, S, high, higher
  <2>5. IsFiniteSet({f[x] : x \in S})
    BY <2>1, <2>2, FiniteImage
  <2>6. IsFiniteSet(higher)
    BY <2>1, <2>5, FS_AddElement
  <2> QED
    BY <2>3, <2>4, <2>6, MaxRises
<1>12. ASSUME NEW S, NEW T, NEW R, IsFiniteSet(T), IsFiniteSet(R), T \subseteq Int, R \subseteq Int,
              S \subseteq T
       PROVE  Peak(S \cup R) \in Int /\ Peak(T \cup R) \in Int /\ Peak(S \cup R) <= Peak(T \cup R)
  <2>1. IsFiniteSet(T \cup R) /\ T \cup R \subseteq Int /\ S \cup R \subseteq T \cup R
    BY <1>12, FS_Union
  <2> DEFINE s == S \cup R
             t == T \cup R
  <2> HIDE DEF s, t
  <2>2. Peak(s) \in Int /\ Peak(t) \in Int /\ Peak(s) <= Peak(t)
    BY <2>1, PeakRises DEF s, t
  <2> QED
    BY <2>2 DEF s, t
<1> DEFINE t1 == Peak(Old("time"))    t2 == Peak(New("time"))
           v1 == Peak(Old("vibration") \cup Rolled("vibration"))
           v2 == Peak(New("vibration") \cup Rolled("vibration"))
           h1 == Peak(Old("temperature") \cup Rolled("temperature"))
           h2 == Peak(New("temperature") \cup Rolled("temperature"))
<1> HIDE DEF own, after, Old, New, Rolled, high, higher, breached, breaching, signals
<1>13. t1 \in Int /\ t2 \in Int /\ Absent <= t1 /\ t1 <= t2
  BY <1>6, <1>7, PeakRises
<1>14. v1 \in Int /\ v2 \in Int /\ v1 <= v2
  BY <1>6, <1>7, <1>8, <1>12
<1>15. h1 \in Int /\ h2 \in Int /\ h1 <= h2
  BY <1>6, <1>7, <1>8, <1>12
<1> DEFINE s == [events |-> Cardinality(own), lastEvent |-> t1, severity |-> Max(high),
                 breaches |-> Cardinality(breached), flags |-> flags, vibration |-> v1,
                 temperature |-> h1]
           t == [events |-> Cardinality(after), lastEvent |-> t2, severity |-> Max(higher),
                 breaches |-> Cardinality(breaching), flags |-> flags, vibration |-> v2,
                 temperature |-> h2]
<1>16. AssetState(a, events, rollups) = s /\ AssetState(a, later, rollups) = t
  BY <1>5
<1> HIDE DEF t1, t2, v1, v2, h1, h2
<1>17. /\ {s.severity, t.severity, s.vibration, t.vibration, s.temperature, t.temperature,
           s.lastEvent, t.lastEvent} \subseteq Int
       /\ {s.events, t.events, s.breaches, t.breaches, s.flags} \subseteq Nat
       /\ s.severity <= t.severity /\ s.events <= t.events /\ s.flags = t.flags
       /\ s.breaches <= t.breaches /\ s.vibration <= t.vibration
       /\ s.temperature <= t.temperature
       /\ Absent <= s.lastEvent /\ s.lastEvent <= t.lastEvent
  BY <1>4, <1>9, <1>10, <1>11, <1>13, <1>14, <1>15
<1> HIDE DEF s, t
<1> QED
  BY <1>16, <1>17

\* One event more, and no score falls.
LEMMA ScoresRise ==
  ASSUME TablesTyped, NEW later, NEW more, OneMore(tables.events, later, more),
         EventMeasures(more), NEW a \in DOMAIN Scores(tables.events)
  PROVE  Scores(later)[a] >= Scores(tables.events)[a]
<1> DEFINE events == tables.events
           rollups == tables.rollups
           Assets(e) == {e[i].asset : i \in DOMAIN e} \cup {rollups[i].asset : i \in DOMAIN rollups}
           s == AssetState(a, events, rollups)
           t == AssetState(a, later, rollups)
<1>1. ASSUME NEW e
      PROVE  Scores(e) = [x \in Assets(e) |-> Score(AssetState(x, e, rollups), tables.now)]
  BY DEF Scores, EarlyWarningReport
<1>2. a \in Assets(events) /\ Assets(events) \subseteq Assets(later)
  <2>1. a \in Assets(events)
    BY <1>1
  <2>2. \A i \in DOMAIN events : i \in DOMAIN later /\ later[i] = events[i]
    BY DEF OneMore
  <2> QED
    BY <2>1, <2>2
<1>3. Scores(events)[a] = Score(s, tables.now) /\ Scores(later)[a] = Score(t, tables.now)
  <2> HIDE DEF Assets
  <2> QED
    BY <1>1, <1>2
<1>4. /\ tables.now \in Nat /\ IsFiniteSet(DOMAIN rollups)
      /\ \A i \in DOMAIN events : EventMeasures(events[i])
      /\ \A i \in DOMAIN rollups : RollupMeasures(rollups[i])
  <2>1. rollups \in Seq(Range(rollups))
    BY DEF TablesTyped, IsTable
  <2>2. IsFiniteSet(DOMAIN rollups)
    BY <2>1, FS_Interval
  <2> QED
    BY <2>2 DEF TablesTyped
<1> HIDE DEF events, rollups
<1>5. /\ {s.severity, t.severity, s.vibration, t.vibration, s.temperature, t.temperature,
          s.lastEvent, t.lastEvent} \subseteq Int
      /\ {s.events, t.events, s.breaches, t.breaches, s.flags} \subseteq Nat
      /\ s.severity <= t.severity /\ s.events <= t.events /\ s.flags = t.flags
      /\ s.breaches <= t.breaches /\ s.vibration <= t.vibration
      /\ s.temperature <= t.temperature
      /\ Absent <= s.lastEvent /\ s.lastEvent <= t.lastEvent
  <2>1. OneMore(events, later, more)
    BY DEF events
  <2> QED
    BY <1>4, <2>1, StateRises
<1> HIDE DEF s, t
<1>6. Score(t, tables.now) >= Score(s, tables.now)
  BY <1>4, <1>5, ScoreRises
<1> QED
  BY <1>3, <1>6 DEF events

-----------------------------------------------------------------------------
(***************************************************************************)
(* The proposals, their history and the gauges.  A read changes nothing    *)
(* the handoff keeps, but for the failures it may meet.                    *)
(***************************************************************************)

USE CommandAssumption, HandoffAssumption, ApprovalAssumption, BridgeAssumption

\* What a step of the reader leaves the handoff.
LEMMA ReadsAside ==
  ASSUME ReadsNext
  PROVE  [Next]_vars \/ (SomethingFails /\ UNCHANGED <<queueVars, storeVars, req, bridgeVars>>)
BY DEF ReadsNext, ListRows, LoadWorkOrderSnapshots, AskHistory, NextPage, ReadFails

\* A read that fails leaves the handoff as it was.
LEMMA FailureAside ==
  ASSUME SomethingFails, UNCHANGED <<queueVars, storeVars, req, bridgeVars>>
  PROVE  /\ Typed => Typed'
         /\ OrderInv => OrderInv'
         /\ SequentialInv => SequentialInv'
<1>1. Typed => Typed'
  <2>1. ASSUME Typed PROVE faults' \in 0..MaxFaults
    BY <2>1 DEF SomethingFails, Typed, TypeOK, ApprovalTypeOK
  <2>2. ASSUME Typed PROVE TypeOK'
    BY <2>1, <2>2 DEF Typed, TypeOK, ApprovalTypeOK, QueueTypeOK, queueVars, storeVars, bridgeVars,
       kafkaVars, handVars
  <2>3. ASSUME Typed PROVE InHand'
    BY <2>3 DEF Typed, InHand, bridgeVars, kafkaVars, handVars
  <2> QED
    BY <2>2, <2>3 DEF Typed
<1>2. OrderInv => OrderInv'
  <2>1. ApprovedFiled => ApprovedFiled'
    BY DEF ApprovedFiled, storeVars
  <2>2. RequestOrders => RequestOrders'
    BY DEF RequestOrders, storeVars
  <2>3. BridgeOrders => BridgeOrders'
    BY DEF BridgeOrders, Command1, Live, storeVars, bridgeVars, kafkaVars, handVars
  <2> QED
    BY <2>1, <2>2, <2>3 DEF OrderInv
<1>3. SequentialInv => SequentialInv'
  BY DEF SequentialInv, Alone, BaseCurrent, BridgeAside, ProposalOf, queueVars, storeVars, bridgeVars
<1> QED
  BY <1>1, <1>2, <1>3

(***************************************************************************)
(* A row is approved if and only if it names an order, and then only; its  *)
(* last attempt says so unless it is one of a command replayed in vain,    *)
(* which changes neither status nor order.                                 *)
(***************************************************************************)

EndsIn(attempts, state) == attempts # <<>> /\ attempts[Len(attempts)].state = state

RowTold(q) ==
  /\ q.status = "approved" <=> q.wo # NoOrder
  /\ EndsIn(q.attempts, "success") => q.status = "approved"
  /\ EndsIn(q.attempts, "failure") => q.status # "approved"

RequestsTold ==
  \A r \in Request :
    /\ req[r].pc \in {"persist", "approve"} => EndsIn(req[r].mine, "success")
    /\ req[r].pc \in Queueing \cup {"mark pending"} => EndsIn(req[r].mine, "failure")

BridgeTold == pc \in {"write", "write failed"} => RowTold(read)

RowsTold == /\ \A p \in Proposal : RowTold(row[p])
            /\ RequestsTold /\ BridgeTold

ReadsInv == Typed /\ OrderInv /\ RowsTold /\ IsFiniteSet(Persisted)

\* One more attempt is the last.
LEMMA LastOfAppend ==
  ASSUME NEW a \in Seq(Attempt), NEW b \in Request \cup {Bridge},
         NEW s \in {"success", "failure", "queued-offline"}
  PROVE  \A t : EndsIn(Append(a, [by |-> b, state |-> s]), t) <=> t = s
  BY DEF EndsIn

\* The attempts of a request come last in the row it writes.
LEMMA LastOfRecord ==
  ASSUME NEW a \in Seq(Attempt), NEW b \in Seq(Attempt), b # <<>>
  PROVE  \A t : EndsIn(a \o b, t) <=> EndsIn(b, t)
  BY DEF EndsIn

\* The last attempt of a request becomes a queued one.
LEMMA LastQueued ==
  ASSUME NEW a \in Seq(Attempt), a # <<>>
  PROVE  AsQueued(a) # <<>> /\ \A t : EndsIn(AsQueued(a), t) <=> t = "queued-offline"
<1> DEFINE last == [a[Len(a)] EXCEPT !.state = "queued-offline"]
<1>1. Len(a) \in 1..Len(a) /\ a[Len(a)] \in Attempt
  OBVIOUS
<1>2. last.state = "queued-offline"
  BY <1>1 DEF Attempt
<1>3. AsQueued(a) = [a EXCEPT ![Len(a)] = last]
  BY DEF AsQueued
<1> HIDE DEF last
<1>4. Len(AsQueued(a)) = Len(a) /\ AsQueued(a)[Len(a)] = last /\ AsQueued(a) # <<>>
  BY <1>1, <1>3
<1> QED
  BY <1>2, <1>4 DEF EndsIn

\* What an UPDATE must write.
LEMMA UpdateTold ==
  ASSUME row \in [Proposal -> Row], \A p \in Proposal : RowTold(row[p]),
         NEW id \in Id, NEW q, RowTold(q), UpdateProposal(id, q)
  PROVE  (\A p \in Proposal : RowTold(row'[p])) /\ Persisted' \subseteq Persisted
<1>1. RecommendationOf(id) \in Proposal
  BY IdTyped
<1>2. \A p \in Proposal : row'[p] = row[p] \/ (row'[p] = q /\ row[p].status # "absent")
  BY <1>1 DEF UpdateProposal
<1> QED
  BY <1>2 DEF Persisted

\* _upsert_proposal makes at most one more row.
LEMMA UpsertTold ==
  ASSUME row \in [Proposal -> Row], \A p \in Proposal : RowTold(row[p]),
         NEW p \in Proposal, UpsertProposal(p)
  PROVE  /\ \A q \in Proposal : RowTold(row'[q])
         /\ Persisted' \subseteq Persisted \cup {p}
<1> DEFINE s == IF row[p].status = "absent" THEN "pending" ELSE row[p].status
           new == [row[p] EXCEPT !.status = s]
<1>1. row' = [row EXCEPT ![p] = new]
  BY DEF UpsertProposal
<1>2. new.status = s /\ new.wo = row[p].wo /\ new.attempts = row[p].attempts
  BY DEF Row
<1>3. s = "approved" <=> row[p].status = "approved"
  OBVIOUS
<1> HIDE DEF s, new
<1>4. RowTold(new)
  BY <1>2, <1>3 DEF RowTold
<1>5. \A q \in Proposal : row'[q] = row[q] \/ (q = p /\ row'[q] = new)
  BY <1>1
<1> QED
  BY <1>4, <1>5 DEF Persisted

\* One thread moves, and keeps what it has tried.
LEMMA ThreadTold ==
  ASSUME RequestsTold, req \in [Request -> Thread], NEW r \in Request, NEW q,
         req' = [req EXCEPT ![r] = q],
         q.pc \in {"persist", "approve"} => EndsIn(q.mine, "success"),
         q.pc \in Queueing \cup {"mark pending"} => EndsIn(q.mine, "failure")
  PROVE  RequestsTold'
  BY DEF RequestsTold

\* What a request step does to the rows and to what it has tried.
LEMMA RequestStepTold ==
  ASSUME Typed, OrderInv, RowsTold, NEW r \in Request, HandleRequest(r), UNCHANGED bridgeVars
  PROVE  /\ RowsTold'
         /\ \E p \in Proposal : Persisted' \subseteq Persisted \cup {p}
<1>1. /\ row \in [Proposal -> Row] /\ req \in [Request -> Thread] /\ req[r] \in Thread
      /\ \A p \in Proposal : RowTold(row[p])
      /\ RequestsTold /\ BridgeTold
  BY DEF Typed, TypeOK, ApprovalTypeOK, RowsTold
<1>2. /\ req[r].id \in Id /\ ProposalOf(r) \in Proposal
      /\ req[r].base \in Seq(Attempt) /\ req[r].mine \in Seq(Attempt)
  BY <1>1, HistoriesTyped DEF Thread
<1>3. BridgeTold'
  BY <1>1 DEF BridgeTold, bridgeVars, handVars
<1>4. /\ req[r].pc \in {"persist", "approve"} => EndsIn(req[r].mine, "success")
      /\ req[r].pc \in Queueing \cup {"mark pending"} => EndsIn(req[r].mine, "failure")
  BY <1>1 DEF RequestsTold
<1>5. ASSUME row' = row, RequestsTold'
      PROVE  RowsTold' /\ \E p \in Proposal : Persisted' \subseteq Persisted \cup {p}
  BY <1>1, <1>2, <1>3, <1>5 DEF RowsTold, Persisted
<1>6. ASSUME Answer(r) PROVE RequestsTold'
  <2>1. [Idle EXCEPT !.pc = "done"].pc = "done"
    BY DEF Idle
  <2> QED
    BY <1>1, <1>6, <2>1, ThreadTold DEF Answer, Queueing
<1>7. ASSUME NEW id, NEW existing, NEW admin, Begin(r, id, existing, admin)
      PROVE  RequestsTold'
  <2> DEFINE q == [req[r] EXCEPT !.pc = "guarded", !.id = id,
                     !.left = Tries(MaxAttempts - Len(existing.attempts))]
  <2>1. CASE MayHandOff(existing, admin)
    <3>1. req' = [req EXCEPT ![r] = q]
      BY <1>1, <1>7, <2>1 DEF Begin
    <3>2. q.pc = "guarded"
      BY <1>1 DEF Thread
    <3> HIDE DEF q
    <3> QED
      BY <1>1, <3>1, <3>2, ThreadTold DEF Queueing
  <2>2. CASE ~MayHandOff(existing, admin)
    BY <1>6, <1>7, <2>2 DEF Begin
  <2> QED
    BY <2>1, <2>2
<1>8. ASSUME NEW place, GoTo(r, place),
             place \in {"persist", "approve"} => EndsIn(req[r].mine, "success"),
             place \in Queueing \cup {"mark pending"} => EndsIn(req[r].mine, "failure")
      PROVE  RequestsTold'
  <2> DEFINE q == [req[r] EXCEPT !.pc = place]
  <2>1. req' = [req EXCEPT ![r] = q]
    BY <1>8 DEF GoTo
  <2>2. q.pc = place /\ q.mine = req[r].mine
    BY <1>1 DEF Thread
  <2> HIDE DEF q
  <2> QED
    BY <1>1, <1>8, <2>1, <2>2, ThreadTold
<1>9. ASSUME NEW status, NEW order, NEW attempts \in Seq(Attempt), attempts # <<>>,
             Record(r, status, order, attempts), Answer(r),
             status = "approved" <=> order # NoOrder,
             EndsIn(attempts, "success") => status = "approved",
             EndsIn(attempts, "failure") => status # "approved"
      PROVE  RowsTold' /\ \E p \in Proposal : Persisted' \subseteq Persisted \cup {p}
  <2> DEFINE q == [status |-> status, wo |-> order, attempts |-> req[r].base \o attempts]
  <2>1. q.status = status /\ q.wo = order /\ q.attempts = req[r].base \o attempts
    OBVIOUS
  <2>2. UpdateProposal(req[r].id, q)
    BY <1>9 DEF Record
  <2> HIDE DEF q
  <2>3. \A t : EndsIn(q.attempts, t) <=> EndsIn(attempts, t)
    BY <1>2, <1>9, <2>1, LastOfRecord
  <2>4. RowTold(q)
    BY <1>9, <2>1, <2>3 DEF RowTold
  <2>5. (\A p \in Proposal : RowTold(row'[p])) /\ Persisted' \subseteq Persisted
    BY <1>1, <1>2, <2>2, <2>4, UpdateTold
  <2> QED
    BY <1>2, <1>3, <1>6, <1>9, <2>5 DEF RowsTold
<1>10. CASE Arrive(r) \/ ArriveUnread(r)
  BY <1>5, <1>7, <1>10 DEF Arrive, ArriveUnread, sharedVars, storeVars
<1>11. CASE Upsert(r)
  <2> DEFINE q == [req[r] EXCEPT !.pc = "submit", !.base = row[ProposalOf(r)].attempts]
  <2>1. req' = [req EXCEPT ![r] = q]
    BY <1>1, <1>11 DEF Upsert
  <2>2. q.pc = "submit"
    BY <1>1 DEF Thread
  <2> HIDE DEF q
  <2>3. RequestsTold'
    BY <1>1, <2>1, <2>2, ThreadTold DEF Queueing
  <2>4. UpsertProposal(ProposalOf(r))
    BY <1>11 DEF Upsert
  <2>5. /\ \A p \in Proposal : RowTold(row'[p])
        /\ Persisted' \subseteq Persisted \cup {ProposalOf(r)}
    BY <1>1, <1>2, <2>4, UpsertTold
  <2> QED
    BY <1>2, <1>3, <2>3, <2>5 DEF RowsTold
<1>12. CASE SubmitOk(r)
  <2> DEFINE o == NextOrder(ProposalOf(r))
             a == Append(req[r].mine, [by |-> r, state |-> "success"])
             q == [req[r] EXCEPT !.pc = "persist", !.wo = o, !.mine = a]
  <2>1. req' = [req EXCEPT ![r] = q] /\ row' = row
    BY <1>1, <1>12 DEF SubmitOk
  <2>2. q.pc = "persist" /\ q.mine = a
    BY <1>1 DEF Thread
  <2>3. EndsIn(a, "success")
    BY <1>2, LastOfAppend
  <2> HIDE DEF q, a, o
  <2>4. RequestsTold'
    BY <1>1, <2>1, <2>2, <2>3, ThreadTold DEF Queueing
  <2> QED
    BY <1>5, <2>1, <2>4
<1>13. CASE SubmitFails(r)
  <2>1. PICK how \in CmmsFailures :
          /\ CallFails(ProposalOf(r), how)
          /\ req' = [req EXCEPT ![r].pc = AfterFailure(r, how), ![r].left = @ - 1,
                       ![r].mine = Append(@, [by |-> r, state |-> "failure"])]
    BY <1>13 DEF SubmitFails
  <2> DEFINE place == AfterFailure(r, how)
             n == req[r].left - 1
             a == Append(req[r].mine, [by |-> r, state |-> "failure"])
             q == [req[r] EXCEPT !.pc = place, !.left = n, !.mine = a]
  <2>2. req' = [req EXCEPT ![r] = q]
    BY <1>1, <2>1
  <2>3. q.pc = place /\ q.mine = a
    BY <1>1 DEF Thread
  <2>4. EndsIn(a, "failure")
    BY <1>2, LastOfAppend
  <2>5. place \notin {"persist", "approve"}
    BY DEF AfterFailure
  <2> HIDE DEF q, a, n, place
  <2>6. RequestsTold'
    BY <1>1, <2>2, <2>3, <2>4, <2>5, ThreadTold
  <2> QED
    BY <1>5, <1>13, <2>6 DEF SubmitFails
<1>14. CASE Persist(r)
  BY <1>4, <1>5, <1>8, <1>14 DEF Persist, At, Queueing
<1>15. CASE Approve(r)
  <2>1. EndsIn(req[r].mine, "success") /\ req[r].wo # NoOrder
    BY <1>4, <1>15 DEF Approve, At, OrderInv, RequestOrders, Filed, Made
  <2>2. req[r].mine # <<>> /\ ~EndsIn(req[r].mine, "failure")
    BY <2>1 DEF EndsIn
  <2> QED
    BY <1>2, <1>9, <1>15, <2>1, <2>2 DEF Approve
<1>16. CASE MarkPending(r)
  <2>1. EndsIn(req[r].mine, "failure")
    BY <1>4, <1>16 DEF MarkPending, At
  <2>2. req[r].mine # <<>> /\ ~EndsIn(req[r].mine, "success")
    BY <2>1 DEF EndsIn
  <2>3. Record(r, "pending", NoOrder, req[r].mine) /\ Answer(r)
    BY <1>16 DEF MarkPending
  <2>4. "pending" # "approved"
    OBVIOUS
  <2> QED
    BY <1>2, <1>9, <2>2, <2>3, <2>4
<1>17. CASE LookUp(r)
  <2> DEFINE f == IsQueued(req[r].id)
             q == [req[r] EXCEPT !.pc = "enqueue", !.found = f]
  <2>1. req' = [req EXCEPT ![r] = q]
    BY <1>1, <1>17 DEF LookUp
  <2>2. q.pc = "enqueue" /\ q.mine = req[r].mine
    BY <1>1 DEF Thread
  <2> HIDE DEF q
  <2>3. EndsIn(req[r].mine, "failure")
    BY <1>4, <1>17 DEF LookUp, At, Queueing
  <2>4. RequestsTold'
    BY <1>1, <2>1, <2>2, <2>3, ThreadTold
  <2> QED
    BY <1>5, <1>17, <2>4 DEF LookUp, sharedVars, storeVars
<1>18. CASE EnqueueCommand(r) \/ EnqueueCommandClashes(r) \/ QueueingFails(r)
  <2>0. req[r].pc \in Queueing
    BY <1>18 DEF EnqueueCommand, EnqueueCommandClashes, QueueingFails, At, Queueing
  <2>1. /\ EndsIn(req[r].mine, "failure") /\ row' = row
        /\ GoTo(r, "mark queued") \/ GoTo(r, "mark pending")
    BY <1>4, <1>18, <2>0 DEF EnqueueCommand, EnqueueCommandClashes, QueueingFails,
       sharedVars, storeVars
  <2>2. "mark queued" \notin {"persist", "approve"} /\ "mark pending" \notin {"persist", "approve"}
    OBVIOUS
  <2>3. RequestsTold'
    BY <1>8, <2>1, <2>2
  <2> QED
    BY <1>5, <2>1, <2>3
<1>19. CASE MarkQueued(r)
  <2>1. EndsIn(req[r].mine, "failure")
    BY <1>4, <1>19 DEF MarkQueued, At, Queueing
  <2>2. req[r].mine # <<>>
    BY <2>1 DEF EndsIn
  <2>3. /\ AsQueued(req[r].mine) \in Seq(Attempt) /\ AsQueued(req[r].mine) # <<>>
        /\ \A t : EndsIn(AsQueued(req[r].mine), t) <=> t = "queued-offline"
    BY <1>2, <2>2, AsQueuedTyped, LastQueued
  <2> QED
    BY <1>9, <1>19, <2>3 DEF MarkQueued
<1>20. CASE Abort(r)
  BY <1>5, <1>6, <1>20 DEF Abort, storeVars
<1> QED
  BY <1>10, <1>11, <1>12, <1>13, <1>14, <1>15, <1>16, <1>17, <1>18, <1>19, <1>20 DEF HandleRequest

\* What a bridge step does to the rows.
LEMMA BridgeStepTold ==
  ASSUME Typed, OrderInv, RowsTold, BridgeNext
  PROVE  RowsTold' /\ Persisted' \subseteq Persisted
<1>1. /\ row \in [Proposal -> Row] /\ \A p \in Proposal : RowTold(row[p])
      /\ RequestsTold /\ BridgeTold /\ read \in Row /\ todo \in Seq(Command)
  BY DEF Typed, TypeOK, ApprovalTypeOK, RowsTold
<1>2. RequestsTold'
  <2>1. req' = req
    BY DEF BridgeNext, LoopStep, Poll, List, ReplayDone, ReplayOk, PersistReplayed, ReadReplayed,
       WriteReplayed, Dequeue, ReplayFails, ReadFailed, WriteFailed, ReadRow, LiveOk, PersistLive,
       LiveFails, LiveGivesUp, AutoCommit, BridgeErrors, Killed, Restart
  <2> QED
    BY <1>1, <2>1 DEF RequestsTold
<1>3. ASSUME pc \in Replayed PROVE Command1 \in Id
  <2>1. todo # <<>>
    BY <1>3 DEF Typed, InHand
  <2>2. Head(todo) \in Command
    BY <1>1, <2>1
  <2> QED
    BY <2>2 DEF Command1
<1>4. ASSUME NEW s \in {"success", "failure", "queued-offline"}
      PROVE  /\ WithAttempt(read, s).status = read.status /\ WithAttempt(read, s).wo = read.wo
             /\ \A t : EndsIn(WithAttempt(read, s).attempts, t) <=> t = s
             /\ WithAttempt(read, s) \in Row
  <2> DEFINE a == Append(read.attempts, [by |-> Bridge, state |-> s])
  <2>1. read.attempts \in Seq(Attempt)
    BY <1>1 DEF Row
  <2>2. \A t : EndsIn(a, t) <=> t = s
    BY <2>1, LastOfAppend
  <2>3. a \in Seq(Attempt)
    BY <2>1, AttemptTyped
  <2>4. WithAttempt(read, s) = [read EXCEPT !.attempts = a]
    BY DEF WithAttempt
  <2> HIDE DEF a
  <2> QED
    BY <1>1, <2>2, <2>3, <2>4 DEF Row
<1>5. CASE ReadReplayed \/ ReadFailed
  <2>1. row' = row /\ read' = FoundBy(Command1)
    BY <1>5 DEF ReadReplayed, ReadFailed, ReadRow, sharedVars, storeVars
  <2>2. Command1 \in Id
    BY <1>3, <1>5 DEF ReadReplayed, ReadFailed, Replayed
  <2>3. RowTold(NoRow)
    BY DEF RowTold, NoRow, EndsIn
  <2>4. RowTold(FoundBy(Command1))
    BY <1>1, <2>2, <2>3, IdTyped DEF FoundBy
  <2> QED
    BY <1>1, <1>2, <2>1, <2>4 DEF RowsTold, BridgeTold, Persisted
<1>6. CASE WriteReplayed
  <2> DEFINE w == WithAttempt(read, "success")
             q == [w EXCEPT !.status = "approved", !.wo = wo]
  <2>1. Command1 \in Id /\ wo # NoOrder
    BY <1>3, <1>6 DEF WriteReplayed, Replayed, OrderInv, BridgeOrders, Filed, Made
  <2>2. w \in Row /\ \A t : EndsIn(w.attempts, t) <=> t = "success"
    BY <1>4
  <2>3. UpdateProposal(Command1, q) /\ pc' = "dequeue"
    BY <1>6 DEF WriteReplayed
  <2> HIDE DEF w
  <2>4. q.status = "approved" /\ q.wo = wo /\ q.attempts = w.attempts
    BY <2>2 DEF Row
  <2> HIDE DEF q
  <2>5. RowTold(q)
    BY <2>1, <2>2, <2>4 DEF RowTold
  <2>6. (\A p \in Proposal : RowTold(row'[p])) /\ Persisted' \subseteq Persisted
    BY <1>1, <2>1, <2>3, <2>5, UpdateTold
  <2> QED
    BY <1>2, <2>3, <2>6 DEF RowsTold, BridgeTold
<1>7. CASE WriteFailed
  <2> DEFINE q == WithAttempt(read, "queued-offline")
  <2>1. Command1 \in Id /\ RowTold(read)
    BY <1>1, <1>3, <1>7 DEF WriteFailed, Replayed, BridgeTold
  <2>2. /\ q.status = read.status /\ q.wo = read.wo
        /\ \A t : EndsIn(q.attempts, t) <=> t = "queued-offline"
    BY <1>4
  <2>3. UpdateProposal(Command1, q) /\ pc' = "live"
    BY <1>7 DEF WriteFailed
  <2> HIDE DEF q
  <2>4. RowTold(q)
    BY <2>1, <2>2 DEF RowTold
  <2>5. (\A p \in Proposal : RowTold(row'[p])) /\ Persisted' \subseteq Persisted
    BY <1>1, <2>1, <2>3, <2>4, UpdateTold
  <2> QED
    BY <1>2, <2>3, <2>5 DEF RowsTold, BridgeTold
<1>8. CASE ~(ReadReplayed \/ ReadFailed \/ WriteReplayed \/ WriteFailed)
  <2>1. row' = row
    BY <1>8 DEF BridgeNext, LoopStep, Poll, List, ReplayDone, ReplayOk, PersistReplayed,
       Dequeue, ReplayFails, LiveOk, PersistLive, LiveFails, LiveGivesUp, AutoCommit,
       BridgeErrors, Killed, Restart, sharedVars, storeVars
  <2>2. pc' \notin {"write", "write failed"}
    BY <1>8 DEF BridgeNext, LoopStep, Poll, List, ReplayDone, ReplayOk, PersistReplayed,
       Dequeue, ReplayFails, LiveOk, PersistLive, LiveFails, LiveGivesUp, AutoCommit,
       BridgeErrors, Killed, Restart, Stop
  <2> QED
    BY <1>1, <1>2, <2>1, <2>2 DEF RowsTold, BridgeTold, Persisted
<1> QED
  BY <1>5, <1>6, <1>7, <1>8

\* Every step keeps what the rows tell, and their number finite.
LEMMA StepTold ==
  ASSUME Typed, OrderInv, RowsTold, IsFiniteSet(Persisted), [Next]_vars
  PROVE  RowsTold' /\ IsFiniteSet(Persisted')
<1>1. ASSUME NEW p, Persisted' \subseteq Persisted \cup {p} PROVE IsFiniteSet(Persisted')
  <2>1. IsFiniteSet(Persisted \cup {p})
    BY FS_AddElement
  <2> QED
    BY <1>1, <2>1, FS_Subset
<1>2. ASSUME NEW r \in Request, HandleRequest(r), UNCHANGED bridgeVars
      PROVE  RowsTold' /\ IsFiniteSet(Persisted')
  BY <1>1, <1>2, RequestStepTold
<1>3. ASSUME NEW p \in Proposal, Analyze(p), UNCHANGED bridgeVars
      PROVE  RowsTold' /\ IsFiniteSet(Persisted')
  <2>1. /\ UpsertProposal(p) /\ row \in [Proposal -> Row] /\ \A q \in Proposal : RowTold(row[q])
    BY <1>3 DEF Analyze, Typed, TypeOK, ApprovalTypeOK, RowsTold
  <2>2. (\A q \in Proposal : RowTold(row'[q])) /\ Persisted' \subseteq Persisted \cup {p}
    BY <2>1, UpsertTold
  <2>3. RequestsTold' /\ BridgeTold'
    BY <1>3 DEF Analyze, RowsTold, RequestsTold, BridgeTold, bridgeVars, handVars
  <2> QED
    BY <1>1, <2>2, <2>3 DEF RowsTold
<1>4. CASE Heal \/ UNCHANGED vars
  BY <1>4 DEF Heal, Recover, vars, sharedVars, storeVars, bridgeVars, handVars, RowsTold, RequestsTold,
     BridgeTold, Persisted
<1>5. CASE BridgeNext
  BY <1>5, BridgeStepTold, FS_Subset
<1> QED
  BY <1>2, <1>3, <1>4, <1>5 DEF Next, ApiStep

\* The handoff's invariants hold beside its readers.
LEMMA ReadsInvariance == Init /\ [][ReadsNext]_viewVars => []ReadsInv
<1>1. Init => ReadsInv
  <2> SUFFICES ASSUME Init PROVE ReadsInv
    OBVIOUS
  <2>1. Typed /\ OrderInv
    BY InitTyped, InitOrderInv
  <2>2. RowTold(NoRow)
    BY DEF RowTold, NoRow, EndsIn
  <2>3. \A p \in Proposal : row[p] = NoRow
    BY DEF Init, ApprovalInit, StoreInit
  <2>4. RequestsTold /\ BridgeTold
    BY DEF Init, ApprovalInit, BridgeInit, RequestsTold, BridgeTold, Idle, Queueing
  <2>5. Persisted = {}
    BY <2>3 DEF Persisted, NoRow
  <2> QED
    BY <2>1, <2>2, <2>3, <2>4, <2>5, FS_EmptySet DEF ReadsInv, RowsTold
<1>2. ReadsInv /\ [ReadsNext]_viewVars => ReadsInv'
  <2> SUFFICES ASSUME ReadsInv, [ReadsNext]_viewVars PROVE ReadsInv'
    OBVIOUS
  <2>1. CASE [Next]_vars
    BY <2>1, StepTyped, StepOrderInv, StepTold DEF ReadsInv
  <2>2. CASE SomethingFails /\ UNCHANGED <<queueVars, storeVars, req, bridgeVars>>
    <3>1. Typed' /\ OrderInv'
      BY <2>2, FailureAside DEF ReadsInv
    <3>2. RowsTold' /\ Persisted' = Persisted
      BY <2>2 DEF ReadsInv, RowsTold, RequestsTold, BridgeTold, Persisted, storeVars, bridgeVars, handVars
    <3> QED
      BY <3>1, <3>2 DEF ReadsInv
  <2>3. CASE UNCHANGED viewVars
    BY <2>1, <2>3 DEF viewVars
  <2> QED
    BY <2>1, <2>2, <2>3, ReadsAside
<1> QED
  BY <1>1, <1>2, PTL

(***************************************************************************)
(* What the list and the gauges show of such rows.                         *)
(***************************************************************************)

\* A row as the views see it.
LEMMA SeenIs ==
  ASSUME NEW q \in Row
  PROVE  LET r == Seen(q)
         IN  /\ r.status = q.status /\ r.wo = q.wo
             /\ r.attempts \in Seq({"success", "failure", "queued-offline"})
             /\ Len(r.attempts) = Len(q.attempts)
             /\ r.attempts = <<>> <=> q.attempts = <<>>
             /\ q.attempts = <<>> => r.approval = "none"
             /\ q.attempts # <<>> => /\ EndsIn(q.attempts, r.approval)
                                     /\ r.approval \in {"success", "failure", "queued-offline"}
<1> DEFINE states == [i \in DOMAIN q.attempts |-> q.attempts[i].state]
<1>1. q.attempts \in Seq(Attempt)
  BY DEF Row
<1>2. ASSUME NEW i \in 1..Len(q.attempts)
      PROVE  q.attempts[i].state \in {"success", "failure", "queued-offline"}
  <2>1. q.attempts[i] \in Attempt
    BY <1>1
  <2> QED
    BY <2>1 DEF Attempt
<1>3. /\ states \in Seq({"success", "failure", "queued-offline"})
      /\ Len(states) = Len(q.attempts)
      /\ \A i \in 1..Len(q.attempts) : states[i] = q.attempts[i].state
  BY <1>1, <1>2
<1>4. states = <<>> <=> q.attempts = <<>>
  BY <1>1, <1>3
<1> HIDE DEF states
<1>5. Seen(q) = [status |-> q.status, wo |-> q.wo, attempts |-> states,
                 approval |-> IF states = <<>> THEN "none" ELSE states[Len(states)]]
  BY DEF Seen, states
<1>6. q.attempts # <<>> => Len(q.attempts) \in 1..Len(q.attempts)
  BY <1>1
<1> QED
  BY <1>2, <1>3, <1>4, <1>5, <1>6 DEF EndsIn

\* The attempts that remain are those below the limit.
LEMMA Remaining ==
  ASSUME NEW q \in Row
  PROVE  /\ Views!AttemptsRemaining(Seen(q)) = 0 <=> Len(q.attempts) >= MaxAttempts
         /\ Views!AttemptsRemaining(Seen(q)) > 0 <=> Len(q.attempts) < MaxAttempts
         /\ Views!ApprovalAttempts(Seen(q)) = <<>> <=> q.attempts = <<>>
         /\ Views!AttemptCount(Seen(q)) = Len(q.attempts)
<1> DEFINE r == Seen(q)
<1>1. /\ Len(r.attempts) = Len(q.attempts)
      /\ r.attempts = <<>> <=> q.attempts = <<>>
      /\ q.attempts = <<>> => r.approval = "none"
      /\ r.attempts \in Seq({"success", "failure", "queued-offline"})
  BY SeenIs
<1>2. Len(q.attempts) \in Nat /\ (q.attempts = <<>> <=> Len(q.attempts) = 0)
  BY DEF Row
<1> HIDE DEF r
<1>3. /\ Len(Views!Reverse(r.attempts)) = Len(r.attempts)
      /\ r.attempts # <<>> => Views!Reverse(r.attempts) # <<>>
  <2> DEFINE a == r.attempts
             back == [i \in 1..Len(a) |-> a[(Len(a) - i) + 1]]
  <2>1. a \in Seq({"success", "failure", "queued-offline"}) /\ Len(a) \in Nat
    BY <1>1
  <2>2. Views!Reverse(a) = back
    BY DEF Views!Reverse
  <2> HIDE DEF a
  <2>3. \A i \in 1..Len(a) : (Len(a) - i) + 1 \in 1..Len(a)
    BY <2>1
  <2>4. back \in Seq({"success", "failure", "queued-offline"}) /\ Len(back) = Len(a)
    BY <2>1, <2>3
  <2>5. a # <<>> => back # <<>>
    BY <2>1, <2>4
  <2> QED
    BY <2>2, <2>4, <2>5 DEF a
<1>4. /\ Len(Views!ApprovalAttempts(r)) = Len(q.attempts)
      /\ Views!ApprovalAttempts(r) = <<>> <=> q.attempts = <<>>
  <2>1. Views!ApprovalAttempts(r) = IF r.attempts # <<>> THEN Views!Reverse(r.attempts)
                                   ELSE IF r.approval # "none" THEN <<r.approval>> ELSE <<>>
    BY DEF Views!ApprovalAttempts
  <2>2. CASE q.attempts = <<>>
    BY <1>1, <1>2, <2>1, <2>2
  <2>3. CASE q.attempts # <<>>
    BY <1>1, <1>3, <2>1, <2>3
  <2> QED
    BY <2>2, <2>3
<1>5. Views!AttemptCount(r) = Len(q.attempts)
  <2>1. Views!AttemptCount(r) = IF r.attempts # <<>> THEN Len(r.attempts)
                               ELSE IF r.approval # "none" THEN 1 ELSE 0
    BY DEF Views!AttemptCount
  <2> QED
    BY <1>1, <1>2, <2>1
<1> QED
  BY <1>2, <1>4, <1>5 DEF Views!AttemptsRemaining, r

\* A retry is shown exactly when one would be taken.
LEMMA RetryShown == ReadsInv => RetryShownIsRetryGiven
<1> SUFFICES ASSUME ReadsInv, NEW p \in Persisted
             PROVE  LET r == Seen(row[p])
                    IN  /\ Views!RetryAllowed(r) => MayHandOff(row[p], TRUE)
                        /\ Views!AdminRetryRequired(r) => ~MayHandOff(row[p], FALSE)
                        /\ ~Views!RetryAllowed(r) /\ r.status # "approved" =>
                             ~MayHandOff(row[p], TRUE)
  BY DEF RetryShownIsRetryGiven
<1> DEFINE q == row[p]
<1>1. q \in Row
  BY DEF ReadsInv, Typed, TypeOK, ApprovalTypeOK, Persisted
<1>2. /\ Views!AttemptsRemaining(Seen(q)) > 0 <=> Len(q.attempts) < MaxAttempts
      /\ Views!ApprovalAttempts(Seen(q)) = <<>> <=> q.attempts = <<>>
  BY <1>1, Remaining
<1>3. Seen(q).status = q.status
  BY <1>1, SeenIs
<1> QED
  BY <1>2, <1>3 DEF Views!RetryAllowed, Views!AdminRetryRequired, MayHandOff

\* Which gauges a row raises.
LEMMA RaisesWhat ==
  ASSUME ReadsInv, NEW p \in Persisted
  PROVE  /\ SeenRows[p] = Seen(row[p])
         /\ \A g \in {"success", "pending", "failure"} :
              Views!Raises(SeenRows[p], g) <=> Views!HandoffState(Seen(row[p])) = g
         /\ Views!HandoffState(Seen(row[p])) \in {"success", "pending", "failure"}
         /\ Views!HandoffState(Seen(row[p])) = "success" <=> row[p].wo \in workorders
         /\ Views!Raises(SeenRows[p], "admin_retry_required") <=>
              row[p].status # "approved" /\ row[p].attempts # <<>>
         /\ Views!Raises(SeenRows[p], "limit_reached") <=>
              row[p].status # "approved" /\ Len(row[p].attempts) >= MaxAttempts
<1> DEFINE q == row[p]
           r == Seen(row[p])
<1>1. /\ p \in Proposal /\ q \in Row /\ RowTold(q) /\ workorders \subseteq Order
      /\ q.status = "approved" => q.wo \in workorders
      /\ NoOrder \notin Order
  BY DEF ReadsInv, Typed, TypeOK, ApprovalTypeOK, Persisted, RowsTold, OrderInv, ApprovedFiled, Filed
<1>2. /\ r.status = q.status /\ r.wo = q.wo
      /\ q.attempts = <<>> => r.approval = "none"
      /\ q.attempts # <<>> => /\ EndsIn(q.attempts, r.approval)
                              /\ r.approval \in {"success", "failure", "queued-offline"}
  BY <1>1, SeenIs
<1>3. Views!AttemptCount(r) = Len(q.attempts) /\ Len(q.attempts) \in Nat
      /\ (q.attempts # <<>> <=> Len(q.attempts) > 0)
  BY <1>1, Remaining DEF Row
<1>4. SeenRows[p] = r
  BY DEF SeenRows
<1> HIDE DEF q, r
<1>5. Views!HandoffState(r) = IF r.approval \in {"success", "pending", "failure"} THEN r.approval
                              ELSE IF r.status = "approved" /\ r.wo # NoOrder THEN "success"
                              ELSE "pending"
  BY DEF Views!HandoffState
<1>6. q.status = "approved" <=> q.wo \in workorders
  BY <1>1 DEF RowTold
<1>7. /\ r.approval \in {"none", "success", "failure", "queued-offline"}
      /\ r.approval = "success" => q.status = "approved"
      /\ r.approval = "failure" => q.status # "approved"
      /\ q.status = "approved" => q.wo # NoOrder
  BY <1>1, <1>2 DEF RowTold
<1>8. Views!HandoffState(r) \in {"success", "pending", "failure"}
  BY <1>5
<1>9. Views!HandoffState(r) = "success" <=> q.wo \in workorders
  BY <1>2, <1>5, <1>6, <1>7
<1>10. \A g \in {"success", "pending", "failure"} :
         Views!Raises(r, g) <=> Views!HandoffState(r) = g
  BY DEF Views!Raises
<1>11. Views!Raises(r, "admin_retry_required") <=> r.status # "approved" /\ Views!AttemptCount(r) > 0
  BY DEF Views!Raises
<1>12. Views!Raises(r, "limit_reached") <=>
         r.status # "approved" /\ Views!AttemptCount(r) >= MaxAttempts
  BY DEF Views!Raises
<1>13. /\ Views!Raises(r, "admin_retry_required") <=> q.status # "approved" /\ q.attempts # <<>>
       /\ Views!Raises(r, "limit_reached") <=>
            q.status # "approved" /\ Len(q.attempts) >= MaxAttempts
  BY <1>2, <1>3, <1>11, <1>12
<1> QED
  BY <1>4, <1>8, <1>9, <1>10, <1>13 DEF q, r

\* Two disjoint kinds of rows are counted apart.
LEMMA CountedApart ==
  ASSUME NEW S, IsFiniteSet(S), NEW A \in SUBSET S, NEW B \in SUBSET S, A \cap B = {}
  PROVE  /\ Cardinality(A) \in Nat /\ Cardinality(B) \in Nat
         /\ Cardinality(A \cup B) = Cardinality(A) + Cardinality(B)
<1>1. IsFiniteSet(A) /\ IsFiniteSet(B)
  BY FS_Subset
<1>2. Cardinality(A \cap B) = 0
  BY FS_EmptySet
<1>3. Cardinality(A) \in Nat /\ Cardinality(B) \in Nat
  BY <1>1, FS_CardinalityType
<1>4. Cardinality(A \cup B) = Cardinality(A) + Cardinality(B) - Cardinality(A \cap B)
  BY <1>1, FS_Union
<1> QED
  BY <1>2, <1>3, <1>4

\* The views count as everybody else does.
LEMMA SameCount == \A S : Views!Cardinality(S) = Cardinality(S)
  BY DEF Views!Cardinality, Cardinality

\* The gauges are the counts they are said to be.
LEMMA GaugesShown == ReadsInv => GaugesAgree
<1> SUFFICES ASSUME ReadsInv PROVE GaugesAgree
  OBVIOUS
<1> DEFINE In(g) == {p \in Persisted : Views!HandoffState(Seen(row[p])) = g}
           retry == {p \in Persisted : Views!AdminRetryRequired(Seen(row[p]))}
           offline == {p \in Persisted : Seen(row[p]).status = "queued-offline"
                                          /\ Seen(row[p]).attempts # <<>>}
           full == {p \in Persisted : Seen(row[p]).status # "approved"
                                       /\ Views!AttemptsRemaining(Seen(row[p])) = 0}
           filed == {p \in Persisted : row[p].wo \in workorders}
           gauge == CollectGauges
<1>1. /\ gauge["success"] = Cardinality({p \in Persisted : Views!Raises(SeenRows[p], "success")})
      /\ gauge["pending"] = Cardinality({p \in Persisted : Views!Raises(SeenRows[p], "pending")})
      /\ gauge["failure"] = Cardinality({p \in Persisted : Views!Raises(SeenRows[p], "failure")})
      /\ gauge["admin_retry_required"] =
           Cardinality({p \in Persisted : Views!Raises(SeenRows[p], "admin_retry_required")})
      /\ gauge["limit_reached"] =
           Cardinality({p \in Persisted : Views!Raises(SeenRows[p], "limit_reached")})
  <2>1. gauge = [g \in Views!Gauges |->
                   Cardinality({p \in Persisted : Views!Raises(SeenRows[p], g)})]
    BY SameCount DEF CollectGauges, Views!CmmsBucket
  <2>2. Views!Gauges = {"success", "pending", "failure", "admin_retry_required", "limit_reached"}
    BY DEF Views!Gauges
  <2> HIDE DEF gauge
  <2> QED
    BY <2>1, <2>2
<1>2. /\ {p \in Persisted : Views!Raises(SeenRows[p], "success")} = In("success")
      /\ {p \in Persisted : Views!Raises(SeenRows[p], "pending")} = In("pending")
      /\ {p \in Persisted : Views!Raises(SeenRows[p], "failure")} = In("failure")
      /\ In("success") = filed
      /\ In("success") \cup (In("pending") \cup In("failure")) = Persisted
  BY RaisesWhat
<1>3. \A p \in Persisted : row[p] \in Row
  BY DEF ReadsInv, Typed, TypeOK, ApprovalTypeOK, Persisted
<1>4. {p \in Persisted : Views!Raises(SeenRows[p], "admin_retry_required")} = retry \cup offline
  <2> SUFFICES ASSUME NEW p \in Persisted
               PROVE  Views!Raises(SeenRows[p], "admin_retry_required") <=>
                        \/ Views!AdminRetryRequired(Seen(row[p]))
                        \/ Seen(row[p]).status = "queued-offline" /\ Seen(row[p]).attempts # <<>>
    OBVIOUS
  <2>1. /\ Seen(row[p]).status = row[p].status
        /\ Seen(row[p]).attempts = <<>> <=> row[p].attempts = <<>>
    BY <1>3, SeenIs
  <2>2. Views!ApprovalAttempts(Seen(row[p])) = <<>> <=> row[p].attempts = <<>>
    BY <1>3, Remaining
  <2> QED
    BY <2>1, <2>2, RaisesWhat DEF Views!AdminRetryRequired
<1>5. retry \cap offline = {}
  BY DEF Views!AdminRetryRequired
<1>6. {p \in Persisted : Views!Raises(SeenRows[p], "limit_reached")} = full
  <2> SUFFICES ASSUME NEW p \in Persisted
               PROVE  Views!Raises(SeenRows[p], "limit_reached") <=>
                        /\ Seen(row[p]).status # "approved"
                        /\ Views!AttemptsRemaining(Seen(row[p])) = 0
    OBVIOUS
  <2>1. Seen(row[p]).status = row[p].status
    BY <1>3, SeenIs
  <2>2. Views!AttemptsRemaining(Seen(row[p])) = 0 <=> Len(row[p].attempts) >= MaxAttempts
    BY <1>3, Remaining
  <2> QED
    BY <2>1, <2>2, RaisesWhat
<1>7. Cardinality(retry \cup offline) = Cardinality(retry) + Cardinality(offline)
  <2>1. retry \in SUBSET Persisted /\ offline \in SUBSET Persisted /\ IsFiniteSet(Persisted)
    BY DEF ReadsInv
  <2> HIDE DEF retry, offline
  <2> QED
    BY ONLY <1>5, <2>1, CountedApart
<1>8. /\ Cardinality(In("pending") \cup In("failure")) =
           Cardinality(In("pending")) + Cardinality(In("failure"))
      /\ Cardinality(In("success") \cup (In("pending") \cup In("failure"))) =
           Cardinality(In("success")) + Cardinality(In("pending") \cup In("failure"))
  <2> DEFINE A == In("success")
             B == In("pending")
             C == In("failure")
  <2>1. /\ A \in SUBSET Persisted /\ B \in SUBSET Persisted /\ C \in SUBSET Persisted
        /\ A \cap (B \cup C) = {} /\ B \cap C = {} /\ IsFiniteSet(Persisted)
    BY DEF ReadsInv
  <2> HIDE DEF A, B, C
  <2>2. B \cup C \in SUBSET Persisted
    BY <2>1
  <2>3. Cardinality(B \cup C) = Cardinality(B) + Cardinality(C)
    BY ONLY <2>1, CountedApart
  <2>4. Cardinality(A \cup (B \cup C)) = Cardinality(A) + Cardinality(B \cup C)
    BY ONLY <2>1, <2>2, CountedApart
  <2> QED
    BY <2>3, <2>4 DEF A, B, C
<1> HIDE DEF gauge, In, retry, offline, full, filed
<1>9. /\ gauge["success"] = Cardinality(filed)
      /\ gauge["success"] + Views!Backlog(gauge) = Cardinality(Persisted)
      /\ gauge["admin_retry_required"] = Cardinality(retry) + Cardinality(offline)
      /\ gauge["limit_reached"] = Cardinality(full)
  BY <1>1, <1>2, <1>4, <1>6, <1>7, <1>8 DEF Views!Backlog
<1> QED
  BY <1>9 DEF GaugesAgree, gauge, retry, offline, full, filed

(***************************************************************************)
(* A history read page after page.  The attempts not yet shown are the     *)
(* oldest: with n of them recorded, those up to n minus what the pages     *)
(* held, and n only grows.                                                 *)
(***************************************************************************)

Turn == {"idle", "snapshots", "pages", "done"}
About == {"none", "list", "history"}
Rows == [Proposal -> Row]
Some == SUBSET Proposal
Attempts == SUBSET Nat

ViewState ==
  [pc : Turn, what : About, rows : Rows, withOrder : Some, of : Proposal, page : Nat,
   size : Nat, first : Nat, shown : Attempts, degraded : BOOLEAN]

\* v is a view, n the attempts recorded of the proposal it is of.
PagesTold(v, n) ==
  /\ v.pc = "idle" => ~v.degraded
  /\ v.pc = "snapshots" => v.what = "list"
  /\ v.pc = "pages" => v.what = "history" /\ ~v.degraded
  /\ v.what = "history" /\ ~v.degraded =>
       /\ v.page >= 1 /\ v.size >= 1 /\ v.first <= n
       /\ \A k \in 1..v.first : v.pc = "done" \/ k > n - v.page * v.size => k \in v.shown
       /\ v.pc \in {"pages", "done"}

ViewInv == view \in ViewState /\ PagesTold(view, Len(row[view.of].attempts))

\* What a page shows of n attempts, newest first.
LEMMA PageShows ==
  ASSUME NEW n \in Nat, NEW a \in Seq(Attempt), Len(a) = n,
         NEW page \in Nat, page >= 1, NEW size \in Nat, size >= 1
  PROVE  LET back == Reverse([i \in DOMAIN a |-> i])
             answer == Views!HistoryPage(back, page, size)
         IN  /\ Len(back) = n
             /\ Range(answer.attempts) \subseteq Nat
             /\ \A k \in 1..n : k > n - page * size /\ k <= n - (page - 1) * size =>
                                  k \in Range(answer.attempts)
             /\ answer.more \in BOOLEAN
             /\ ~answer.more => n - page * size <= 0
<1> DEFINE places == [i \in DOMAIN a |-> i]
           back == [i \in 1..n |-> n - i + 1]
           start == (page - 1) * size
           last == IF start + size < n THEN start + size ELSE n
           shown == SubSeq(back, start + 1, last)
<1>1. places \in Seq(Nat) /\ Len(places) = n /\ \A i \in 1..n : places[i] = i
  OBVIOUS
<1>2. Reverse(places) = back
  <2>1. \A i \in 1..n : (n - i) + 1 \in 1..n /\ places[(n - i) + 1] = n - i + 1
    BY <1>1
  <2> HIDE DEF places
  <2> QED
    BY <1>1, <2>1 DEF Reverse
<1>3. back \in Seq(Nat) /\ Len(back) = n
  OBVIOUS
<1>4. start \in Nat /\ start + size = page * size
  OBVIOUS
<1>5. Views!HistoryPage(back, page, size) = [attempts |-> shown, more |-> start + size < n]
  BY <1>3 DEF Views!HistoryPage, Views!SmallerNumber
<1> HIDE DEF start, back, places
<1>6. last \in Nat /\ (last = start + size \/ last = n) /\ last <= n /\ last <= start + size
  BY <1>4
<1> HIDE DEF last
<1>7. /\ shown \in Seq(Nat)
      /\ Len(shown) = IF start + 1 <= last THEN last - start ELSE 0
      /\ \A i \in 1..Len(shown) : shown[i] = back[start + i]
  <2>1. \A i \in (start + 1)..last : back[i] \in Nat
    BY <1>3, <1>4, <1>6
  <2>2. start + 1 \in Int /\ last \in Int
    BY <1>4, <1>6
  <2> DEFINE first == start + 1
  <2> HIDE DEF first, shown
  <2>3. shown = SubSeq(back, first, last)
    BY DEF shown, first
  <2>4. \A i \in first..last : back[i] \in Nat
    BY <2>1 DEF first
  <2>5. first \in Int
    BY <2>2 DEF first
  <2>6. /\ shown \in Seq(Nat) /\ Len(shown) = IF first <= last THEN last - first + 1 ELSE 0
        /\ \A i \in 1..last - first + 1 : shown[i] = back[first + i - 1]
    BY ONLY <2>2, <2>3, <2>4, <2>5, SubSeqProperties
  <2>7. \A i \in 1..(last - (start + 1) + 1) : shown[i] = back[(start + 1) + i - 1]
    BY <2>6 DEF first
  <2>8. Len(shown) = (IF start + 1 <= last THEN last - (start + 1) + 1 ELSE 0) /\ shown \in Seq(Nat)
    BY <2>6 DEF first
  <2>9. Len(shown) = IF start + 1 <= last THEN last - start ELSE 0
    BY <1>4, <1>6, <2>8
  <2>10. ASSUME NEW i \in 1..Len(shown) PROVE shown[i] = back[start + i]
    <3>1. i \in 1..(last - (start + 1) + 1) /\ (start + 1) + i - 1 = start + i
      BY <1>4, <1>6, <2>9
    <3> QED
      BY <2>7, <3>1
  <2> QED
    BY <2>8, <2>9, <2>10
<1>8. Range(shown) \subseteq Nat
  <2> HIDE DEF shown
  <2>1. shown \in Seq(Nat)
    BY <1>7
  <2> QED
    BY <2>1 DEF Range
<1>9. \A i \in 1..n : back[i] = n - i + 1
  BY DEF back
<1>10. ASSUME NEW k \in 1..n, k > n - (start + size), k <= n - start
       PROVE  k \in Range(shown)
  <2> DEFINE i == n - start - k + 1
  <2>1. start + 1 <= last
    BY <1>4, <1>6, <1>10
  <2>2. i \in 1..Len(shown) /\ start + i \in 1..n
    BY <1>4, <1>6, <1>7, <1>10, <2>1
  <2>3. shown[i] = back[start + i]
    BY <1>7, <2>2
  <2>4. back[start + i] = k
    BY <1>4, <1>9, <2>2
  <2>5. DOMAIN shown = 1..Len(shown)
    BY <1>7
  <2> QED
    BY <2>2, <2>3, <2>4, <2>5 DEF Range
<1>11. start = (page - 1) * size
  BY DEF start
<1> HIDE DEF shown
<1> DEFINE answer == Views!HistoryPage(back, page, size)
<1>12. answer.attempts = shown /\ answer.more = (start + size < n)
  BY <1>5
<1> HIDE DEF answer
<1>13. /\ Len(back) = n
       /\ Range(answer.attempts) \subseteq Nat
       /\ \A k \in 1..n : k > n - page * size /\ k <= n - (page - 1) * size =>
                            k \in Range(answer.attempts)
       /\ answer.more \in BOOLEAN
  BY <1>3, <1>4, <1>8, <1>10, <1>11, <1>12
<1>14. ~answer.more => n - page * size <= 0
  <2>1. page * size \in Nat
    BY <1>4
  <2>2. ASSUME ~answer.more PROVE ~(start + size < n)
    BY <1>12, <2>2
  <2> QED
    BY <1>4, <2>1, <2>2
<1> QED
  BY <1>2, <1>13, <1>14 DEF answer, places

\* A history that grows hides nothing that was shown.
LEMMA MoreRecorded ==
  ASSUME NEW v \in ViewState, NEW n \in Nat, NEW m \in Nat, n <= m, PagesTold(v, n)
  PROVE  PagesTold(v, m)
<1>1. v.page \in Nat /\ v.size \in Nat /\ v.first \in Nat
  BY DEF ViewState
<1>2. v.page * v.size \in Nat
  BY <1>1
<1>3. \A k \in 1..v.first : k > m - v.page * v.size => k > n - v.page * v.size
  BY <1>1, <1>2
<1> QED
  BY <1>1, <1>3 DEF PagesTold

\* One page, the first or the next one.
LEMMA ShowPageKeeps ==
  ASSUME Typed, ViewInv, NEW p \in Proposal, NEW page \in Nat, page >= 1,
         NEW size \in Nat, size >= 1, ShowPage(p, page, size), row' = row,
         page = 1 => view.pc = "idle",
         page # 1 => /\ view.pc = "pages" /\ view.of = p /\ view.page = page - 1
                     /\ view.size = size
  PROVE  ViewInv'
<1> DEFINE a == row[p].attempts
           n == Len(a)
           back == Reverse([i \in DOMAIN a |-> i])
           answer == Views!HistoryPage(back, page, size)
           first == IF page = 1 THEN n ELSE view.first
           shown == view.shown \cup Range(answer.attempts)
           turn == IF answer.more THEN "pages" ELSE "done"
           v1 == [view EXCEPT !.what = "history", !.of = p, !.page = page]
           v2 == [v1 EXCEPT !.size = size, !.first = first, !.shown = shown]
           v3 == [v2 EXCEPT !.pc = turn]
           P == page * size
           Q == (page - 1) * size
<1>1. a \in Seq(Attempt) /\ n \in Nat
  BY HistoriesTyped
<1>0. /\ page \in Nat /\ page >= 1 /\ size \in Nat /\ size >= 1
      /\ P \in Nat /\ Q \in Nat /\ Q <= P /\ (page = 1 => Q = 0)
  OBVIOUS
<1>2. /\ Len(back) = n /\ Range(answer.attempts) \subseteq Nat
      /\ \A k \in 1..n : k > n - P /\ k <= n - Q => k \in Range(answer.attempts)
      /\ answer.more \in BOOLEAN
      /\ ~answer.more => n - P <= 0
  <2> HIDE DEF a
  <2> QED
    BY ONLY <1>0, <1>1, PageShows
<1>3. view \in ViewState /\ PagesTold(view, Len(row[view.of].attempts))
  BY DEF ViewInv
<1>4. view' = v3
  BY <1>1, <1>2, <1>3 DEF ShowPage, ViewState
<1>5. first \in Nat /\ shown \in Attempts /\ turn \in Turn /\ "history" \in About
  BY <1>1, <1>2, <1>3 DEF ViewState, Attempts, Turn, About
<1>6. /\ first <= n
      /\ ~view.degraded
      /\ \A k \in 1..first : turn = "done" \/ k > n - P => k \in shown
  <2>1. turn = "done" => \A k \in 1..n : k > n - P
    <3> HIDE DEF answer, P, n
    <3> QED
      BY <1>0, <1>1, <1>2
  <2>2. CASE page = 1
    <3>1. ~view.degraded
      BY <1>3, <2>2 DEF PagesTold
    <3>2. first = n /\ Q = 0
      BY <2>2, <1>0
    <3> HIDE DEF answer, P, Q, n, first, turn
    <3>3. \A k \in 1..n : k <= n - Q
      BY <1>1, <3>2
    <3>4. \A k \in 1..n : k > n - P => k \in shown
      BY <1>2, <3>3
    <3> QED
      BY <1>1, <2>1, <3>1, <3>2, <3>4
  <2>3. CASE page # 1
    <3>1. /\ ~view.degraded /\ view.first <= n /\ view.first \in Nat
          /\ \A k \in 1..view.first : k > n - Q => k \in view.shown
      BY <1>3, <2>3 DEF PagesTold, ViewState
    <3>2. first = view.first
      BY <2>3
    <3> HIDE DEF answer, P, Q, n, first, turn
    <3>3. \A k \in 1..view.first : k \in 1..n /\ (k > n - Q \/ k <= n - Q)
      BY <1>0, <1>1, <3>1
    <3>4. \A k \in 1..view.first : k > n - P => k \in shown
      BY <1>2, <3>1, <3>3
    <3> QED
      BY <2>1, <3>1, <3>2, <3>3, <3>4
  <2> QED
    BY <2>2, <2>3
<1> HIDE DEF first, shown, turn, answer, back, n
<1>7. v1 \in ViewState
  BY <1>3, <1>5 DEF ViewState
<1>8. /\ v1.what = "history" /\ v1.of = p /\ v1.page = page /\ v1.degraded = view.degraded
      /\ v1.pc = view.pc
  BY <1>3 DEF ViewState
<1> HIDE DEF v1
<1>9. v2 \in ViewState
  BY <1>5, <1>7 DEF ViewState
<1>10. /\ v2.what = "history" /\ v2.of = p /\ v2.page = page /\ v2.degraded = view.degraded
       /\ v2.size = size /\ v2.first = first /\ v2.shown = shown
  BY <1>7, <1>8 DEF ViewState
<1> HIDE DEF v2
<1>11. v3 \in ViewState
  BY <1>5, <1>9 DEF ViewState
<1>12. /\ v3.what = "history" /\ v3.of = p /\ v3.page = page /\ v3.degraded = view.degraded
       /\ v3.size = size /\ v3.first = first /\ v3.shown = shown /\ v3.pc = turn
  BY <1>9, <1>10 DEF ViewState
<1> HIDE DEF v3
<1>13. turn \in {"pages", "done"}
  BY DEF turn
<1>14. PagesTold(v3, n)
  BY <1>6, <1>12, <1>13 DEF PagesTold
<1> QED
  BY <1>4, <1>11, <1>12, <1>14 DEF ViewInv, n

\* One step of the reader, or of the handoff beside it.
LEMMA PagesKept ==
  ASSUME InTurn, Typed, SequentialInv, ViewInv, [ReadsNext]_viewVars
  PROVE  ViewInv'
<1>1. /\ view \in ViewState /\ PagesTold(view, Len(row[view.of].attempts))
      /\ view.of \in Proposal /\ view.page \in Nat /\ view.size \in Nat
      /\ Len(row[view.of].attempts) \in Nat
  BY HistoriesTyped DEF ViewInv, ViewState
<1>2. ASSUME row' = row, view' = view PROVE ViewInv'
  BY <1>1, <1>2 DEF ViewInv
<1>3. CASE Next /\ UNCHANGED view
  <2> DEFINE a == row[view.of].attempts
             b == row'[view.of].attempts
  <2>1. IsPrefix(a, b)
    BY <1>1, <1>3, SequentialStep
  <2>2. Typed'
    BY <1>3, StepTyped
  <2>3. a \in Seq(Attempt) /\ b \in Seq(Attempt)
    <3>1. row \in [Proposal -> Row] /\ row' \in [Proposal -> Row]
      BY <2>2 DEF Typed, TypeOK, ApprovalTypeOK
    <3>2. row[view.of] \in Row /\ row'[view.of] \in Row
      BY <1>1, <3>1
    <3> QED
      BY <3>2 DEF Row
  <2> HIDE DEF a, b
  <2>4. Len(a) <= Len(b) /\ Len(a) \in Nat /\ Len(b) \in Nat
    BY <2>1, <2>3, PrefixDef
  <2>5. PagesTold(view, Len(b))
    BY <1>1, <2>4, MoreRecorded DEF a
  <2> QED
    BY <1>1, <1>3, <2>5 DEF ViewInv, b
<1>4. CASE ListRows
  <2> DEFINE turn == IF Persisted = {} THEN "done" ELSE "snapshots"
             bare == (Persisted = {})
             v1 == [view EXCEPT !.what = "list", !.rows = row]
             v2 == [v1 EXCEPT !.pc = turn, !.degraded = bare]
  <2>1. row \in Rows /\ turn \in {"done", "snapshots"} /\ turn \in Turn /\ bare \in BOOLEAN /\ "list" \in About
    BY HistoriesTyped DEF Rows, Turn, About
  <2>2. view' = v2 /\ row' = row
    BY <1>4 DEF ListRows, vars, sharedVars, storeVars
  <2> HIDE DEF turn, bare
  <2>3. v1 \in ViewState /\ v1.what = "list"
    BY <1>1, <2>1 DEF ViewState
  <2> HIDE DEF v1
  <2>4. v2 \in ViewState /\ v2.what = "list" /\ v2.pc = turn
    BY <2>1, <2>3 DEF ViewState
  <2> HIDE DEF v2
  <2>5. \A n : PagesTold(v2, n)
    BY <2>1, <2>4 DEF PagesTold
  <2> QED
    BY <2>2, <2>4, <2>5 DEF ViewInv
<1>5. CASE LoadWorkOrderSnapshots
  <2> DEFINE with == {p \in Proposal : view.rows[p].wo \in workorders}
             v == [view EXCEPT !.pc = "done", !.withOrder = with]
  <2>1. with \in Some /\ "done" \in Turn
    BY DEF Some, Turn
  <2>2. view' = v /\ row' = row /\ view.what = "list"
    BY <1>1, <1>5 DEF LoadWorkOrderSnapshots, vars, sharedVars, storeVars, PagesTold
  <2> HIDE DEF with
  <2>3. v \in ViewState /\ v.what = "list" /\ v.pc = "done"
    BY <1>1, <2>1, <2>2 DEF ViewState
  <2> HIDE DEF v
  <2>4. \A n : PagesTold(v, n)
    BY <2>3 DEF PagesTold
  <2> QED
    BY <2>2, <2>3, <2>4 DEF ViewInv
<1>6. CASE AskHistory
  <2>1. PICK p \in Proposal, size \in 1..MaxPage : ShowPage(p, 1, size)
    BY <1>6 DEF AskHistory
  <2>2. view.pc = "idle" /\ row' = row /\ size \in Nat /\ size >= 1
    BY <1>6, ReadsAssumption DEF AskHistory, vars, sharedVars, storeVars
  <2> QED
    BY <2>1, <2>2, ShowPageKeeps
<1>7. CASE NextPage
  <2>1. /\ view.pc = "pages" /\ row' = row /\ ShowPage(view.of, view.page + 1, view.size)
    BY <1>7 DEF NextPage, vars, sharedVars, storeVars
  <2>2. view.size >= 1 /\ view.page >= 1
    BY <1>1, <2>1 DEF PagesTold
  <2> DEFINE page == view.page + 1
  <2>3. page \in Nat /\ page >= 1 /\ page # 1 /\ view.page = page - 1
    BY <1>1, <2>2
  <2>4. ShowPage(view.of, page, view.size)
    BY <2>1
  <2> HIDE DEF page
  <2> QED
    BY <1>1, <2>1, <2>2, <2>3, <2>4, ShowPageKeeps
<1>8. CASE ReadFails
  <2> DEFINE v == [view EXCEPT !.pc = "done", !.degraded = TRUE]
  <2>1. view' = v /\ row' = row /\ "done" \in Turn
    BY <1>8 DEF ReadFails, Degrade, storeVars, Turn
  <2>2. v \in ViewState /\ v.pc = "done" /\ v.degraded = TRUE
    BY <1>1, <2>1 DEF ViewState
  <2> HIDE DEF v
  <2>3. \A n : PagesTold(v, n)
    BY <2>2 DEF PagesTold
  <2> QED
    BY <2>1, <2>2, <2>3 DEF ViewInv
<1>9. CASE UNCHANGED viewVars
  BY <1>2, <1>9 DEF viewVars, vars, sharedVars, storeVars
<1> QED
  BY <1>3, <1>4, <1>5, <1>6, <1>7, <1>8, <1>9 DEF ReadsNext

\* The views hold what has been read so far.
LEMMA ViewInvariance ==
  ASSUME ApiThreads = 1, EdgeMode => Topic = <<>>
  PROVE  Init /\ ReadsInit /\ [][ReadsNext]_viewVars => []HistoryPagedWhole
<1>1. InTurn
  BY DEF InTurn
<1>2. Init /\ ReadsInit => ViewInv
  <2> SUFFICES ASSUME Init, ReadsInit PROVE ViewInv
    OBVIOUS
  <2> DEFINE o == CHOOSE p \in Proposal : TRUE
             rows == [p \in Proposal |-> NoRow]
  <2>1. o \in Proposal
    <3>1. PICK c \in Command : TRUE
      OBVIOUS
    <3>2. RecommendationOf(c) \in Proposal
      BY <3>1, IdTyped
    <3> QED
      BY <3>2
  <2>2. rows \in Rows
    BY DEF Rows, NoRow, Row, Statuses
  <2> HIDE DEF o, rows
  <2>3. view = [pc |-> "idle", what |-> "none", rows |-> rows, withOrder |-> {}, of |-> o,
                page |-> 0, size |-> 0, first |-> 0, shown |-> {}, degraded |-> FALSE]
    BY DEF ReadsInit, NewView, o, rows
  <2>4. view \in ViewState
    BY <2>1, <2>2, <2>3 DEF ViewState, Turn, About, Some, Attempts
  <2>5. \A n : PagesTold(view, n)
    BY <2>3 DEF PagesTold
  <2> QED
    BY <2>4, <2>5 DEF ViewInv
<1>3. Typed /\ SequentialInv /\ [ReadsNext]_viewVars => Typed' /\ SequentialInv'
  <2> SUFFICES ASSUME Typed, SequentialInv, [ReadsNext]_viewVars PROVE Typed' /\ SequentialInv'
    OBVIOUS
  <2>1. CASE [Next]_vars
    BY <1>1, <2>1, StepTyped, SequentialStep
  <2>2. CASE SomethingFails /\ UNCHANGED <<queueVars, storeVars, req, bridgeVars>>
    BY <2>2, FailureAside
  <2>3. CASE UNCHANGED viewVars
    BY <2>1, <2>3 DEF viewVars
  <2> QED
    BY <2>1, <2>2, <2>3, ReadsAside
<1>4. Typed /\ SequentialInv /\ ViewInv /\ [ReadsNext]_viewVars => ViewInv'
  BY <1>1, PagesKept
<1>5. ViewInv => HistoryPagedWhole
  <2> SUFFICES ASSUME ViewInv, view.what = "history", view.pc = "done", ~view.degraded
               PROVE  1..view.first \subseteq view.shown
    BY DEF HistoryPagedWhole
  <2> QED
    BY DEF ViewInv, PagesTold
<1> QED
  BY <1>2, <1>3, <1>4, <1>5, InitTyped, InitSequential, PTL

-----------------------------------------------------------------------------
(***************************************************************************)
(* The groups together, and what is promised of each (Console).            *)
(***************************************************************************)

\* Each group of endpoints is a system of its own.
LEMMA GroupsAlone ==
  ConsoleSpec => /\ Init /\ ReadsInit /\ [][ReadsNext]_viewVars
                 /\ PortalInit /\ [][PortalNext]_portalVars
                 /\ OutcomesInit /\ [][OutcomesNext]_outcomeVars
                 /\ EdgeStatusInit /\ [][EdgeStatusNext]_edgeVars
                 /\ RegistryInit /\ [][RegistryNext]_registryVars
                 /\ ContextInit /\ [][ContextNext]_contextVars
<1>1. [ConsoleNext]_consoleVars =>
        /\ [ReadsNext]_viewVars /\ [PortalNext]_portalVars /\ [OutcomesNext]_outcomeVars
        /\ [EdgeStatusNext]_edgeVars /\ [RegistryNext]_registryVars /\ [ContextNext]_contextVars
  BY DEF ConsoleNext, consoleVars
<1>2. ConsoleInit => /\ Init /\ ReadsInit /\ PortalInit /\ OutcomesInit /\ EdgeStatusInit
                     /\ RegistryInit /\ ContextInit
  BY DEF ConsoleInit
<1> QED
  BY <1>1, <1>2, PTL DEF ConsoleSpec

\* The run a caller is shown as the latest of an asset is the newest it could
\* have been shown when it asked, whatever is written to the directory while
\* it is listed (latest_run of api/portal.py).
THEOREM LatestShownIsNewest == ConsoleSpec => []LatestIsNewest
BY GroupsAlone, PortalInvariance, PortalShown, PTL

\* The page of a run that names a repair plan shows all of it or a notice that
\* the look-up failed, unless people have deleted it (run_details,
\* _load_persisted_repair_plan).
THEOREM OnlyDeletedPlansMissing == ConsoleSpec => []PlanMissingWasDeleted
BY GroupsAlone, PortalInvariance, PortalShown, PTL

\* However many calls write to the queue while its state is read, a depth is
\* never above the total queued, and off by no more than was written
\* (EdgeCommandBuffer.snapshot).
THEOREM TornSnapshotBounded == ConsoleSpec => []DepthWithinTotals
BY GroupsAlone, EdgeStatusInvariance, EdgeShown, PTL

\* However many watchers upgrade the queue file at once, none of them is
\* refused twice (EdgeCommandBuffer._ensure_schema).
THEOREM UpgradeClashesOnce == ConsoleSpec => []ClashesOnce
BY GroupsAlone, EdgeStatusInvariance, EdgeShown, PTL

\* An availability lies between 0 and 1 and is no more than the share of the
\* window the known downtimes leave, whatever the downtimes are
\* (calculate_reliability).
THEOREM ShareOfTimeHonest == ConsoleSpec => []AvailabilityHonest
BY GroupsAlone, RegistryInvariance, RegistryShown, PTL

\* A failure a reader was shown is among those the figures shown beside it
\* count, although events are posted meanwhile (assemble_rca_context).
THEOREM ShownFailureIsCounted == ConsoleSpec => []ShownIsCounted
BY GroupsAlone, RegistryInvariance, RegistryShown, PTL

\* A query that fails costs the outcomes report its own section and no other,
\* whichever queries fail (_safe_rollback, _mark_partial).
THEOREM FailureStaysInSection == ConsoleSpec => []OneFailureOneSection
BY GroupsAlone, ReportInvariance, ReportShown, PTL

\* What a report counts later is counted of no fewer rows, although feedback
\* arrives while it is computed: the answers of all within the totals of the
\* users, and the totals and the volume of a user within its place on the
\* leaderboard (rca_outcomes, in one transaction).
THEOREM CountedLaterIsNoLess == ConsoleSpec => []LaterNeverLess
BY GroupsAlone, FiguresInvariance, ReportInvariance, FiguresShown, PTL

\* A warning never eases because one more event came in, whatever the rows
\* and the order they are read in (build_early_warning_report).
THEOREM MoreEventsNeverCalm == ConsoleSpec => WarningsNeverEase
<1>1. ASSUME TablesTyped, [OutcomesNext]_outcomeVars
      PROVE  [tables'.events # tables.events =>
                LET before == Scores(tables.events)
                    after == Scores(tables'.events)
                IN  \A a \in DOMAIN before : after[a] >= before[a]]_outcomeVars
  <2> SUFFICES ASSUME OutcomesNext, tables'.events # tables.events,
                      NEW a \in DOMAIN Scores(tables.events)
               PROVE  Scores(tables'.events)[a] >= Scores(tables.events)[a]
    BY <1>1 DEF outcomeVars
  <2>1. WriterActs
    BY DEF OutcomesNext, AskForReport, ReadScope, ScopeUnread, QueryAnswered,
           QueryFails, QueryRefused, ConnectionLost, ReturnReport
  <2>2. PICK more : EventMeasures(more) /\ OneMore(tables.events, tables'.events, more)
    BY <1>1, <2>1, WritersAdd
  <2> QED
    BY <1>1, <2>2, ScoresRise
<1> QED
  BY <1>1, GroupsAlone, TablesInvariance, PTL DEF WarningsNeverEase

\* An event's context has documents once chunks of its asset are stored,
\* unless the search and the fallback both failed or a chunk is longer than
\* the whole budget (get_event_context).
THEOREM ContextHasDocuments == ConsoleSpec => []DocumentsFound
BY GroupsAlone, ContextInvariance, ContextShown, PTL

\* What the list of proposals says of a retry is what approve_proposal does
\* (_retry_fields), of every row a handoff can lead to.
THEOREM RetryGivenAsShown == ConsoleSpec => []RetryShownIsRetryGiven
BY GroupsAlone, ReadsInvariance, RetryShown, PTL

\* The CMMS gauges add up to the proposals and tell the orders stored.
THEOREM GaugesTellRows == ConsoleSpec => []GaugesAgree
BY GroupsAlone, ReadsInvariance, GaugesShown, PTL

\* A history read page after page misses no attempt that was there when its
\* first page was shown, whatever the page size and however many attempts are
\* added meanwhile, when requests to the API are served one after the other
\* (_history_page).
THEOREM PagesMissNothing ==
  ASSUME ApiThreads = 1, EdgeMode => Topic = <<>>
  PROVE  ConsoleSpec => []HistoryPagedWhole
BY GroupsAlone, ViewInvariance, PTL
=============================================================================
