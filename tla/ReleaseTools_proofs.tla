------------------------ MODULE ReleaseTools_proofs -------------------------
(***************************************************************************)
(* ReportTrue and CopiesExplained for any pull requests, issues and        *)
(* labels, and any number of runs, retries and faults.                     *)
(*                                                                         *)
(* Neither is inductive.  A report is true because what the commands so    *)
(* far were to bring about has come about and stays (ToldSoFar); a title   *)
(* has no more copies than runs and lost answers because the run at work   *)
(* still has its own copy to make until its command is done (Owed).        *)
(***************************************************************************)
EXTENDS ReleaseTools, SequenceTheorems, FiniteSetTheorems, TLAPS

Issue == [title : DOMAIN Titles, tags : SUBSET Label]

\* What a script may want of a milestone of n issues.
Fitting(n) ==
  {c \in Command :
     /\ c.do = "merge" => c.on \in Pulls
     /\ c.do = "issue" => c.on \in DOMAIN Titles
     /\ c.do = "label" => \E l \in Label : c.names = {l}
     /\ c.do = "tag" => c.on \in 1 .. n}

GithubTyped ==
  /\ pulls \in [Pulls -> {"none", "open", "merged", "closed"}]
  /\ milestone \in {"none", "open", "invalid"}
  /\ labels \in SUBSET Label
  /\ issues \in Seq(Issue)
  /\ seeds \in Nat /\ unheard \in Nat

\* A script, from the values of its fields.
Script(script, dry, plan, left, attempt, way, result) ==
  [script |-> script, dry |-> dry, plan |-> plan, left |-> left, attempt |-> attempt,
   way |-> way, result |-> result]

\* The commands of a plan that are done.
Done(t) == Len(t.plan) - Len(t.left)

\* The fields of a script that runs; what it has left is the end of its plan,
\* and only the seeding plans issues, each at its place.
ToolTold(t, n) ==
  /\ t = Script(t.script, t.dry, t.plan, t.left, t.attempt, t.way, t.result)
  /\ t.dry \in BOOLEAN /\ t.attempt \in Nat
  /\ t.result \in {"none", "returned", "raised"}
  /\ t.plan \in Seq(Fitting(n)) /\ t.left \in Seq(Fitting(n))
  /\ Len(t.left) <= Len(t.plan)
  /\ \A i \in 1 .. Len(t.left) : t.left[i] = t.plan[Done(t) + i]
  /\ t.result = "returned" => t.left = <<>>
  /\ \A k \in 1 .. Len(t.plan) :
       t.plan[k].do = "issue" => t.script = "milestones" /\ t.plan[k].on = k - 1

\* Command c has been brought about in a repository of these pull requests,
\* milestone, labels and issues.
Reached(c, p, m, l, i) ==
  CASE c.do = "merge" -> p[c.on] = "merged"
    [] c.do = "milestone" -> m # "none"
    [] c.do = "issue" -> \E k \in DOMAIN i : i[k].title = c.on
    [] c.do = "label" -> c.names \subseteq l
    [] c.do = "tag" -> c.names \subseteq i[c.on].tags

\* What the commands so far were to bring about has come about.
ToldSoFar ==
  ~tool.dry => \A k \in 1 .. Done(tool) : Reached(tool.plan[k], pulls, milestone, labels, issues)

Copies(i, t) == {k \in DOMAIN i : i[k].title = t}

\* Script s is still to make its issue of title t.
Owed(s, t) == s.result = "none" /\ ~s.dry /\ s.script = "milestones" /\ t + 1 > Done(s)

CopiesPaid ==
  \A t \in DOMAIN Titles :
    Cardinality(Copies(issues, t)) + (IF Owed(tool, t) THEN 1 ELSE 0) <= seeds + unheard

IInv == GithubTyped /\ ToolTold(tool, Len(issues)) /\ ToldSoFar /\ CopiesPaid

-----------------------------------------------------------------------------
(***************************************************************************)
(* GitHub.                                                                 *)
(***************************************************************************)

\* A plan stays fit when issues are added.
LEMMA FittingGrows ==
  ASSUME NEW m \in Nat, NEW n \in Nat, m <= n
  PROVE  Fitting(m) \subseteq Fitting(n)
BY DEF Fitting

\* A command that is carried out brings about what it was to, takes nothing
\* back, and adds an issue only if it is to make one.
LEMMA Carried ==
  ASSUME GithubTyped, NEW c \in Fitting(Len(issues)), Accepts(c), Carry(c),
         UNCHANGED seeds, unheard' \in Nat
  PROVE  /\ GithubTyped' /\ Len(issues) <= Len(issues')
         /\ Reached(c, pulls', milestone', labels', issues')
         /\ \A d \in Fitting(Len(issues)) : Reached(d, pulls, milestone, labels, issues)
                  => Reached(d, pulls', milestone', labels', issues')
         /\ c.do # "issue" => /\ DOMAIN issues' = DOMAIN issues
                              /\ \A i \in DOMAIN issues : issues'[i].title = issues[i].title
         /\ c.do = "issue" => issues' = Append(issues, [title |-> c.on, tags |-> {}])
<1>0. /\ c \in Command /\ issues \in Seq(Issue) /\ Len(issues) \in Nat
      /\ DOMAIN issues = 1 .. Len(issues) /\ \A i \in 1 .. Len(issues) : issues[i] \in Issue
  BY DEF Fitting, GithubTyped
<1>1. CASE c.do = "merge"
  <2>1. /\ c.on \in Pulls /\ pulls' = [pulls EXCEPT ![c.on] = "merged"]
        /\ UNCHANGED <<milestone, labels, issues>>
    BY <1>1 DEF Carry, Fitting
  <2>2. pulls' \in [Pulls -> {"none", "open", "merged", "closed"}] /\ pulls'[c.on] = "merged"
    BY <2>1 DEF GithubTyped
  <2>3. \A d \in Fitting(Len(issues)) : Reached(d, pulls, milestone, labels, issues)
           => Reached(d, pulls', milestone', labels', issues')
    <3> SUFFICES ASSUME NEW d \in Fitting(Len(issues)),
                        Reached(d, pulls, milestone, labels, issues)
                 PROVE  Reached(d, pulls', milestone', labels', issues')
      OBVIOUS
    <3>1. CASE d.do = "merge"
      <4>1. d.on \in Pulls /\ pulls[d.on] = "merged"
        BY <3>1 DEF Reached, Fitting
      <4>2. pulls'[d.on] = "merged"
        BY <2>1, <4>1 DEF GithubTyped
      <4> QED
        BY <3>1, <4>2 DEF Reached
    <3>2. CASE d.do \in {"milestone", "issue", "label", "tag"}
      BY <2>1, <3>2 DEF Reached
    <3> QED
      BY <3>1, <3>2 DEF Fitting, Command
  <2>4. Reached(c, pulls', milestone', labels', issues')
    BY <1>1, <2>2 DEF Reached
  <2>5. GithubTyped' /\ Len(issues') = Len(issues)
    BY <2>1, <2>2 DEF GithubTyped
  <2>6. Len(issues) <= Len(issues')
    BY <1>0, <2>5
  <2>7. DOMAIN issues' = DOMAIN issues /\ \A i \in DOMAIN issues : issues'[i].title = issues[i].title
    BY <2>1
  <2> QED
    BY ONLY <1>1, <2>3, <2>4, <2>5, <2>6, <2>7
<1>2. CASE c.do = "milestone"
  <2>1. milestone' = "open" /\ UNCHANGED <<pulls, labels, issues>>
    BY <1>2 DEF Carry
  <2>2. GithubTyped' /\ Len(issues') = Len(issues) /\ Reached(c, pulls', milestone', labels', issues')
    BY <1>2, <2>1 DEF GithubTyped, Reached
  <2>3. \A d \in Fitting(Len(issues)) : Reached(d, pulls, milestone, labels, issues)
           => Reached(d, pulls', milestone', labels', issues')
    BY <2>1 DEF Fitting, Command, Reached
  <2> QED
    BY <1>0, <1>2, <2>1, <2>2, <2>3
<1>3. CASE c.do = "issue"
  <2>1. /\ issues' = Append(issues, [title |-> c.on, tags |-> {}])
        /\ UNCHANGED <<pulls, milestone, labels>> /\ c.on \in DOMAIN Titles
    BY <1>3 DEF Carry, Fitting
  <2> DEFINE n == Len(issues) + 1
  <2>2. [title |-> c.on, tags |-> {}] \in Issue
    BY <2>1 DEF Issue
  <2>3. /\ issues' \in Seq(Issue) /\ Len(issues') = n
        /\ \A i \in 1 .. Len(issues) : issues'[i] = issues[i]
        /\ issues'[n] = [title |-> c.on, tags |-> {}]
    BY <1>0, <2>1, <2>2
  <2>4. DOMAIN issues' = 1 .. n /\ n \in 1 .. n /\ issues'[n].title = c.on
    BY <1>0, <2>3
  <2>5. Reached(c, pulls', milestone', labels', issues')
    BY <1>3, <2>4 DEF Reached
  <2>6. \A d \in Fitting(Len(issues)) : Reached(d, pulls, milestone, labels, issues)
           => Reached(d, pulls', milestone', labels', issues')
    <3> SUFFICES ASSUME NEW d \in Fitting(Len(issues)),
                        Reached(d, pulls, milestone, labels, issues)
                 PROVE  Reached(d, pulls', milestone', labels', issues')
      OBVIOUS
    <3>1. CASE d.do = "issue"
      <4>1. PICK i \in DOMAIN issues : issues[i].title = d.on
        BY <3>1 DEF Reached
      <4>2. i \in DOMAIN issues' /\ issues'[i].title = d.on
        BY <1>0, <2>3, <2>4, <4>1
      <4> QED
        BY <3>1, <4>2 DEF Reached
    <3>2. CASE d.do = "tag"
      <4>1. d.on \in 1 .. Len(issues) /\ d.names \subseteq issues[d.on].tags
        BY <3>2 DEF Reached, Fitting
      <4>2. d.names \subseteq issues'[d.on].tags
        BY <2>3, <4>1
      <4> QED
        BY <3>2, <4>2 DEF Reached
    <3>3. CASE d.do \in {"merge", "milestone", "label"}
      BY <2>1, <3>3 DEF Reached
    <3> QED
      BY <3>1, <3>2, <3>3 DEF Fitting, Command
  <2>7. GithubTyped'
    BY <2>1, <2>3 DEF GithubTyped
  <2>8. Len(issues) <= Len(issues')
    BY <1>0, <2>3
  <2> QED
    BY ONLY <1>3, <2>1, <2>5, <2>6, <2>7, <2>8
<1>4. CASE c.do = "label"
  <2>1. /\ labels' = labels \cup c.names /\ UNCHANGED <<pulls, milestone, issues>>
        /\ c.names \subseteq Label
    BY <1>0, <1>4 DEF Carry, Command
  <2>2. GithubTyped' /\ Len(issues') = Len(issues) /\ Reached(c, pulls', milestone', labels', issues')
    BY <1>4, <2>1 DEF GithubTyped, Reached
  <2>3. \A d \in Fitting(Len(issues)) : Reached(d, pulls, milestone, labels, issues)
           => Reached(d, pulls', milestone', labels', issues')
    BY <2>1 DEF Fitting, Command, Reached
  <2>4. Len(issues) <= Len(issues')
    BY <1>0, <2>2
  <2>5. DOMAIN issues' = DOMAIN issues /\ \A i \in DOMAIN issues : issues'[i].title = issues[i].title
    BY <2>1
  <2> QED
    BY ONLY <1>4, <2>2, <2>3, <2>4, <2>5
<1>5. CASE c.do = "tag"
  <2>1. /\ issues' = [issues EXCEPT ![c.on] = [title |-> issues[c.on].title,
                                            tags |-> issues[c.on].tags \cup c.names]]
        /\ UNCHANGED <<pulls, milestone, labels>>
        /\ c.on \in 1 .. Len(issues) /\ c.names \subseteq Label
    BY <1>0, <1>5 DEF Carry, Fitting, Command
  <2> DEFINE more == [title |-> issues[c.on].title, tags |-> issues[c.on].tags \cup c.names]
  <2>2. more \in Issue
    BY <1>0, <2>1 DEF Issue
  <2>3. issues' = [issues EXCEPT ![c.on] = more]
    BY <1>0, <2>1 DEF Issue
  <2>30. more.title = issues[c.on].title /\ more.tags = issues[c.on].tags \cup c.names
    OBVIOUS
  <2> HIDE DEF more
  <2>4. issues' \in Seq(Issue) /\ Len(issues') = Len(issues) /\ DOMAIN issues' = DOMAIN issues
    BY <1>0, <2>1, <2>2, <2>3
  <2>5. \A i \in 1 .. Len(issues) : issues'[i] = IF i = c.on THEN more ELSE issues[i]
    BY <1>0, <2>1, <2>3
  <2>6. \A i \in 1 .. Len(issues) : /\ issues'[i].title = issues[i].title
                                    /\ issues[i].tags \subseteq issues'[i].tags
    BY <2>30, <2>5
  <2>7. Reached(c, pulls', milestone', labels', issues')
    BY <1>5, <2>1, <2>30, <2>5 DEF Reached
  <2>8. \A d \in Fitting(Len(issues)) : Reached(d, pulls, milestone, labels, issues)
           => Reached(d, pulls', milestone', labels', issues')
    <3> SUFFICES ASSUME NEW d \in Fitting(Len(issues)),
                        Reached(d, pulls, milestone, labels, issues)
                 PROVE  Reached(d, pulls', milestone', labels', issues')
      OBVIOUS
    <3>1. CASE d.do = "issue"
      BY <1>0, <2>4, <2>6, <3>1 DEF Reached
    <3>2. CASE d.do = "tag"
      <4>1. d.on \in 1 .. Len(issues) /\ d.names \subseteq issues[d.on].tags
        BY <3>2 DEF Reached, Fitting
      <4> QED
        BY <2>6, <3>2, <4>1 DEF Reached
    <3>3. CASE d.do \in {"merge", "milestone", "label"}
      BY <2>1, <3>3 DEF Reached
    <3> QED
      BY <3>1, <3>2, <3>3 DEF Fitting, Command
  <2>9. GithubTyped'
    BY <2>1, <2>4 DEF GithubTyped
  <2>10. Len(issues) <= Len(issues')
    BY <1>0, <2>4
  <2>11. DOMAIN issues' = DOMAIN issues /\ \A i \in DOMAIN issues : issues'[i].title = issues[i].title
    BY <1>0, <2>4, <2>6
  <2> QED
    BY ONLY <1>5, <2>7, <2>8, <2>9, <2>10, <2>11
<1> QED
  BY <1>0, <1>1, <1>2, <1>3, <1>4, <1>5 DEF Command

-----------------------------------------------------------------------------
(***************************************************************************)
(* A script on its way through its plan.                                   *)
(***************************************************************************)

\* The command at hand is the first of the plan that is not done.
LEMMA AtHand ==
  ASSUME NEW n \in Nat, NEW t, ToolTold(t, n), t.left # <<>>
  PROVE  /\ Head(t.left) \in Fitting(n) /\ Done(t) + 1 \in 1 .. Len(t.plan)
         /\ Head(t.left) = t.plan[Done(t) + 1] /\ Done(t) \in Nat
         /\ Tail(t.left) \in Seq(Fitting(n)) /\ Len(Tail(t.left)) = Len(t.left) - 1
         /\ \A i \in 1 .. Len(Tail(t.left)) : Tail(t.left)[i] = t.left[i + 1]
<1>1. /\ t.left \in Seq(Fitting(n)) /\ t.plan \in Seq(Fitting(n)) /\ t.left # <<>>
      /\ Len(t.left) \in Nat /\ Len(t.plan) \in Nat /\ Len(t.left) <= Len(t.plan)
  BY DEF ToolTold
<1>2. /\ Head(t.left) \in Fitting(n) /\ Tail(t.left) \in Seq(Fitting(n))
      /\ Len(Tail(t.left)) = Len(t.left) - 1
      /\ \A i \in 1 .. Len(Tail(t.left)) : Tail(t.left)[i] = t.left[i + 1]
  BY ONLY <1>1, HeadTailProperties
<1>3. 1 \in 1 .. Len(t.left) /\ Head(t.left) = t.left[1]
  BY <1>1
<1>4. t.left[1] = t.plan[Done(t) + 1]
  BY <1>3 DEF ToolTold
<1>5. Done(t) \in Nat /\ Done(t) + 1 \in 1 .. Len(t.plan)
  <2> DEFINE p == Len(t.plan)
             l == Len(t.left)
  <2>1. p \in Nat /\ l \in Nat /\ l <= p /\ 1 \in 1 .. l /\ Done(t) = p - l
    BY <1>1, <1>3 DEF Done
  <2> HIDE DEF p, l
  <2>2. p - l \in Nat /\ (p - l) + 1 \in 1 .. p
    BY <2>1
  <2> QED
    BY <2>1, <2>2 DEF p
<1> QED
  BY <1>2, <1>3, <1>4, <1>5

\* A script at the same command, but for its attempts, its way and its result.
Stayed(t, attempt, way, result) ==
  Script(t.script, t.dry, t.plan, t.left, attempt, way, result)

\* What the scripts make of themselves.
LEMMA Restated ==
  ASSUME NEW n, NEW t, ToolTold(t, n), NEW x, NEW w
  PROVE  /\ [t EXCEPT !.attempt = x] = Stayed(t, x, t.way, t.result)
         /\ [t EXCEPT !.way = w, !.attempt = x] = Stayed(t, x, w, t.result)
         /\ [t EXCEPT !.result = w] = Stayed(t, t.attempt, t.way, w)
         /\ Advance(t) = Script(t.script, t.dry, t.plan, Tail(t.left), 1, "admin", t.result)
<1>1. PICK s, d, p, l, a, y, r : t = Script(s, d, p, l, a, y, r)
  BY DEF ToolTold
<1>2. /\ t.script = s /\ t.dry = d /\ t.plan = p /\ t.left = l /\ t.attempt = a /\ t.way = y
      /\ t.result = r
  BY <1>1 DEF Script
<1>3. [t EXCEPT !.attempt = x] = Script(s, d, p, l, x, y, r)
  BY <1>1 DEF Script
<1>4. [t EXCEPT !.result = w] = Script(s, d, p, l, a, y, w)
  BY <1>1 DEF Script
<1>5. [t EXCEPT !.way = w, !.attempt = x] = Script(s, d, p, l, x, w, r)
  <2> DEFINE u == [t EXCEPT !.way = w]
  <2>1. [t EXCEPT !.way = w, !.attempt = x] = [u EXCEPT !.attempt = x]
    OBVIOUS
  <2>2. u = Script(s, d, p, l, a, w, r)
    BY <1>1 DEF Script
  <2> HIDE DEF u
  <2>3. [u EXCEPT !.attempt = x] = Script(s, d, p, l, x, w, r)
    BY <2>2 DEF Script
  <2> QED
    BY <2>1, <2>3
<1>6. Advance(t) = Script(s, d, p, Tail(l), 1, "admin", r)
  <2> DEFINE rest == Tail(l)
             one == 1
             first == "admin"
             u == [t EXCEPT !.left = rest]
             v == [u EXCEPT !.attempt = one]
  <2>1. Advance(t) = [v EXCEPT !.way = first]
    BY <1>2 DEF Advance
  <2> HIDE DEF rest, one, first
  <2>2. u = Script(s, d, p, rest, a, y, r)
    BY <1>1 DEF Script
  <2> HIDE DEF u
  <2>3. v = Script(s, d, p, rest, one, y, r)
    BY <2>2 DEF Script
  <2> HIDE DEF v
  <2>4. [v EXCEPT !.way = first] = Script(s, d, p, rest, one, first, r)
    BY <2>3 DEF Script
  <2> QED
    BY <2>1, <2>4 DEF rest, one, first
<1> QED
  BY <1>2, <1>3, <1>4, <1>5, <1>6 DEF Stayed

\* Advance has done one more.
LEMMA Advanced ==
  ASSUME NEW n \in Nat, NEW t, ToolTold(t, n), t.left # <<>>, t.result = "none"
  PROVE  /\ ToolTold(Advance(t), n) /\ Done(Advance(t)) = Done(t) + 1
         /\ Advance(t).plan = t.plan /\ Advance(t).dry = t.dry
         /\ Advance(t).script = t.script /\ Advance(t).result = "none"
<1> DEFINE a == Script(t.script, t.dry, t.plan, Tail(t.left), 1, "admin", t.result)
<1>2. Advance(t) = a
  BY Restated
<1>3. /\ a.script = t.script /\ a.dry = t.dry /\ a.plan = t.plan /\ a.left = Tail(t.left)
      /\ a.attempt = 1 /\ a.result = t.result
      /\ a = Script(a.script, a.dry, a.plan, a.left, a.attempt, a.way, a.result)
  BY DEF Script
<1> HIDE DEF a
<1>4. /\ t.dry \in BOOLEAN /\ t.plan \in Seq(Fitting(n)) /\ Len(t.left) \in Nat
      /\ Len(t.plan) \in Nat /\ Len(t.left) <= Len(t.plan)
      /\ \A i \in 1 .. Len(t.left) : t.left[i] = t.plan[Done(t) + i]
      /\ \A k \in 1 .. Len(t.plan) :
           t.plan[k].do = "issue" => t.script = "milestones" /\ t.plan[k].on = k - 1
  BY DEF ToolTold
<1>5. /\ Tail(t.left) \in Seq(Fitting(n)) /\ Len(Tail(t.left)) = Len(t.left) - 1
      /\ Done(t) \in Nat
      /\ \A i \in 1 .. Len(Tail(t.left)) : Tail(t.left)[i] = t.left[i + 1]
  BY AtHand
<1>6. Done(a) = Done(t) + 1
  <2> DEFINE p == Len(t.plan)
             l == Len(t.left)
  <2>1. p \in Nat /\ l \in Nat /\ Done(t) = p - l /\ Done(a) = p - (l - 1)
    BY <1>3, <1>4, <1>5 DEF Done
  <2> HIDE DEF p, l
  <2> QED
    BY <2>1
<1>7. \A i \in 1 .. Len(a.left) : a.left[i] = a.plan[Done(a) + i]
  <2> SUFFICES ASSUME NEW i \in 1 .. Len(a.left) PROVE a.left[i] = a.plan[Done(a) + i]
    OBVIOUS
  <2>1. i + 1 \in 1 .. Len(t.left) /\ a.left[i] = t.left[i + 1]
    BY <1>3, <1>4, <1>5
  <2>2. Done(t) + (i + 1) = Done(a) + i
    BY <1>5, <1>6
  <2> QED
    BY <1>3, <1>4, <2>1, <2>2
<1>8. ToolTold(a, n)
  <2>1. a.dry \in BOOLEAN /\ a.attempt \in Nat /\ a.result \in {"none", "returned", "raised"}
    BY <1>3, <1>4
  <2>2. /\ a.plan \in Seq(Fitting(n)) /\ a.left \in Seq(Fitting(n)) /\ Len(a.left) <= Len(a.plan)
    BY <1>3, <1>4, <1>5
  <2>3. a.result # "returned"
    BY <1>3
  <2>4. \A k \in 1 .. Len(a.plan) :
          a.plan[k].do = "issue" => a.script = "milestones" /\ a.plan[k].on = k - 1
    BY <1>3, <1>4
  <2> QED
    BY <1>3, <1>7, <2>1, <2>2, <2>3, <2>4 DEF ToolTold
<1> QED
  BY <1>2, <1>3, <1>6, <1>8

\* A script that tries again or gives up is as far as it was.
LEMMA Stays ==
  ASSUME NEW n \in Nat, NEW t, ToolTold(t, n),
         NEW attempt \in Nat, NEW way, NEW result \in {"none", "raised", "returned"},
         result = "returned" => t.left = <<>>,
         NEW a, a = Stayed(t, attempt, way, result)
  PROVE  /\ ToolTold(a, n) /\ Done(a) = Done(t) /\ a.plan = t.plan /\ a.dry = t.dry
         /\ a.script = t.script /\ a.result = result
<1>1. /\ a.script = t.script /\ a.dry = t.dry /\ a.plan = t.plan /\ a.left = t.left
      /\ a.attempt = attempt /\ a.result = result
      /\ a = Script(a.script, a.dry, a.plan, a.left, a.attempt, a.way, a.result)
  BY DEF Stayed, Script
<1>2. Done(a) = Done(t)
  BY <1>1 DEF Done
<1>3. a.result \in {"none", "returned", "raised"} /\ (a.result = "returned" => a.left = <<>>)
  BY <1>1
<1>4. ToolTold(a, n)
  BY <1>1, <1>2, <1>3 DEF ToolTold
<1> QED
  BY <1>1, <1>2, <1>4

\* A command that failed is tried again, passed over because what it was to
\* make is there, or the end of the script.
LEMMA FailedTold ==
  ASSUME NEW n \in Nat, NEW t, ToolTold(t, n), t.left # <<>>, t.result = "none",
         NEW c, NEW message, NEW u, u = Failed(t, c, message)
  PROVE  /\ ToolTold(u, n) /\ u.plan = t.plan /\ u.dry = t.dry /\ u.script = t.script
         /\ u.result \in {"none", "raised"}
         /\ \/ Done(u) = Done(t)
            \/ u = Advance(t) /\ Tolerated(c, message)
<1>0. n \in Nat /\ ToolTold(t, n) /\ t.left # <<>> /\ t.result = "none"
  OBVIOUS
<1>1. t.attempt \in Nat /\ MaxAttempts \in Nat
  BY ReleaseAssumption DEF ToolTold
<1>2. CASE t.attempt < MaxAttempts
  <2>1. u = [t EXCEPT !.attempt = t.attempt + 1]
    BY <1>1, <1>2 DEF Failed
  <2>2. u = Stayed(t, t.attempt + 1, t.way, "none")
    BY <1>0, <1>1, <2>1, Restated
  <2>3. t.attempt + 1 \in Nat
    BY <1>1
  <2> QED
    BY ONLY <1>0, <2>2, <2>3, Stays
<1>3. CASE ~(t.attempt < MaxAttempts) /\ Tolerated(c, message)
  <2>1. t.attempt >= MaxAttempts /\ ~(t.attempt < MaxAttempts)
    BY <1>1, <1>3
  <2>2. c.do # "merge"
    BY <1>3 DEF Tolerated
  <2>3. u = Advance(t)
    BY ONLY <1>0, <1>3, <2>1, <2>2, u = Failed(t, c, message) DEF Failed
  <2> QED
    BY ONLY <1>0, <1>3, <2>3, Advanced
<1>4. CASE ~(t.attempt < MaxAttempts) /\ ~Tolerated(c, message) /\ c.do = "merge" /\ t.way = "admin"
  <2>1. u = [t EXCEPT !.way = "base", !.attempt = 1]
    BY <1>1, <1>4 DEF Failed
  <2> DEFINE one == 1
             second == "base"
  <2>2. u = [t EXCEPT !.way = second, !.attempt = one]
    BY <2>1
  <2> HIDE DEF one, second
  <2>3. u = Stayed(t, one, second, "none")
    <3>1. [t EXCEPT !.way = second, !.attempt = one] = Stayed(t, one, second, t.result)
      BY ONLY <1>0, Restated
    <3> QED
      BY <1>0, <2>2, <3>1
  <2>4. one \in Nat
    BY DEF one
  <2> QED
    BY ONLY <1>0, <2>3, <2>4, Stays
<1>5. CASE ~(t.attempt < MaxAttempts) /\ ~Tolerated(c, message) /\ ~(c.do = "merge" /\ t.way = "admin")
  <2>1. u = [t EXCEPT !.result = "raised"]
    BY <1>1, <1>5 DEF Failed, Raise
  <2>2. u = Stayed(t, t.attempt, t.way, "raised")
    BY <1>0, <1>1, <2>1, Restated
  <2> QED
    BY ONLY <1>0, <1>1, <2>2, Stays
<1> QED
  BY <1>2, <1>3, <1>4, <1>5

\* A plan stays fit when issues are added.
LEMMA ToldGrows ==
  ASSUME NEW m \in Nat, NEW n \in Nat, m <= n, NEW t, ToolTold(t, m)
  PROVE  ToolTold(t, n)
<1>1. Fitting(m) \subseteq Fitting(n)
  BY FittingGrows
<1>2. t.plan \in Seq(Fitting(n)) /\ t.left \in Seq(Fitting(n))
  BY <1>1 DEF ToolTold
<1> QED
  BY <1>2 DEF ToolTold

\* A refusal the scripts pass over says that what was to be made is there.
LEMMA RefusalTold ==
  ASSUME GithubTyped, NEW n \in Nat, NEW c \in Fitting(n), ~Accepts(c),
         Tolerated(c, Refusal(c))
  PROVE  Reached(c, pulls, milestone, labels, issues) /\ c.do # "issue"
<1>1. c.do = "milestone" \/ c.do = "label"
  BY DEF Tolerated
<1>2. CASE c.do = "milestone"
  BY <1>2 DEF Accepts, Reached
<1>3. CASE c.do = "label"
  <2>1. PICK l \in Label : c.names = {l}
    BY <1>3 DEF Fitting
  <2>2. c.names \cap labels # {}
    BY <1>3 DEF Accepts
  <2>3. c.names \subseteq labels
    BY <2>1, <2>2
  <2> QED
    BY <1>3, <2>3 DEF Reached
<1> QED
  BY <1>1, <1>2, <1>3

\* Any other failure is not passed over.
LEMMA OtherNotTolerated ==
  ASSUME NEW c PROVE ~Tolerated(c, "other")
BY DEF Tolerated

\* What the step of a script does: it keeps its plan, and with GitHub as it
\* was is as far as it was or past a command that is a dry run's or brought
\* about already; or GitHub carries the command out, and the script has heard
\* of that or not.
LEMMA Ran ==
  ASSUME IInv, RunCommand
  PROVE  /\ tool.result = "none" /\ tool.left # <<>> /\ seeds' = seeds
         /\ ToolTold(tool', Len(issues)) /\ tool'.plan = tool.plan
         /\ tool'.dry = tool.dry /\ tool'.script = tool.script
         /\ \/ /\ UNCHANGED <<pulls, milestone, labels, issues, unheard>>
               /\ \/ Done(tool') = Done(tool)
                  \/ /\ Done(tool') = Done(tool) + 1
                     /\ \/ tool.dry
                        \/ /\ Reached(Current, pulls, milestone, labels, issues)
                           /\ Current.do # "issue"
            \/ /\ ~tool.dry /\ Accepts(Current) /\ Carry(Current)
               /\ \/ Done(tool') = Done(tool) + 1 /\ unheard' = unheard
                  \/ /\ Done(tool') = Done(tool)
                     /\ unheard' = IF Current.do = "issue" THEN unheard + 1 ELSE unheard
<1> DEFINE n == Len(issues)
<1>1. /\ tool.result = "none" /\ tool.left # <<>> /\ seeds' = seeds /\ n \in Nat
      /\ GithubTyped /\ ToolTold(tool, n)
  BY DEF IInv, GithubTyped, RunCommand, DryRun, Succeeds, Refused, NotReached, AnswerLost,
         TimesOut, AtCommand, Running
<1> HIDE DEF n
<1>2. Current \in Fitting(n)
  BY <1>1, AtHand DEF Current
<1>3. /\ ToolTold(Advance(tool), n) /\ Done(Advance(tool)) = Done(tool) + 1
      /\ Advance(tool).plan = tool.plan /\ Advance(tool).dry = tool.dry
      /\ Advance(tool).script = tool.script
  BY ONLY <1>1, Advanced
<1>4. \A message :
        LET u == Failed(tool, Current, message)
        IN  /\ ToolTold(u, n) /\ u.plan = tool.plan /\ u.dry = tool.dry /\ u.script = tool.script
            /\ Done(u) = Done(tool) \/ (u = Advance(tool) /\ Tolerated(Current, message))
  <2> TAKE message
  <2> DEFINE u == Failed(tool, Current, message)
  <2>1. u = Failed(tool, Current, message)
    OBVIOUS
  <2> HIDE DEF u
  <2>2. /\ ToolTold(u, n) /\ u.plan = tool.plan /\ u.dry = tool.dry /\ u.script = tool.script
        /\ Done(u) = Done(tool) \/ (u = Advance(tool) /\ Tolerated(Current, message))
    BY ONLY <1>1, <2>1, FailedTold
  <2> QED
    BY <2>2 DEF u
<1>5. /\ ToolTold(Raise(tool), n) /\ Done(Raise(tool)) = Done(tool)
      /\ Raise(tool).plan = tool.plan /\ Raise(tool).dry = tool.dry
      /\ Raise(tool).script = tool.script
  <2>1. Raise(tool) = Stayed(tool, tool.attempt, tool.way, "raised")
    <3>1. [tool EXCEPT !.result = "raised"] = Stayed(tool, tool.attempt, tool.way, "raised")
      BY ONLY <1>1, Restated, ZenonT(60)
    <3> QED
      BY <3>1 DEF Raise
  <2>2. tool.attempt \in Nat
    BY <1>1 DEF ToolTold
  <2> QED
    BY ONLY <1>1, <2>1, <2>2, Stays
<1>6. CASE DryRun
  <2>1. tool.dry /\ tool' = Advance(tool) /\ UNCHANGED <<pulls, milestone, labels, issues, unheard>>
    BY <1>6 DEF DryRun, github
  <2> QED
    BY <1>1, <1>3, <2>1 DEF n
<1>7. CASE Succeeds
  <2>1. /\ ~tool.dry /\ Accepts(Current) /\ Carry(Current) /\ tool' = Advance(tool)
        /\ unheard' = unheard
    BY <1>7 DEF Succeeds
  <2> QED
    BY <1>1, <1>3, <2>1 DEF n
<1>8. CASE Refused
  <2>1. /\ ~Accepts(Current) /\ tool' = Failed(tool, Current, Refusal(Current))
        /\ UNCHANGED <<pulls, milestone, labels, issues, unheard>>
    BY <1>8 DEF Refused, github
  <2>2. Tolerated(Current, Refusal(Current))
          => Reached(Current, pulls, milestone, labels, issues) /\ Current.do # "issue"
    BY <1>1, <1>2, <2>1, RefusalTold
  <2>3. /\ ToolTold(tool', n) /\ tool'.plan = tool.plan /\ tool'.dry = tool.dry
        /\ tool'.script = tool.script
        /\ \/ Done(tool') = Done(tool)
           \/ tool' = Advance(tool) /\ Tolerated(Current, Refusal(Current))
    BY <1>4, <2>1
  <2> QED
    BY <1>1, <1>3, <2>1, <2>2, <2>3 DEF n
<1>9. /\ ToolTold(Failed(tool, Current, "other"), n)
      /\ Failed(tool, Current, "other").plan = tool.plan
      /\ Failed(tool, Current, "other").dry = tool.dry
      /\ Failed(tool, Current, "other").script = tool.script
      /\ Done(Failed(tool, Current, "other")) = Done(tool)
  BY <1>4, OtherNotTolerated
<1>10. CASE NotReached
  <2>1. /\ tool' = Failed(tool, Current, "other")
        /\ UNCHANGED <<pulls, milestone, labels, issues, unheard>>
    BY <1>10 DEF NotReached, github
  <2> QED
    BY <1>1, <1>9, <2>1 DEF n
<1>11. CASE AnswerLost
  <2>1. /\ ~tool.dry /\ Accepts(Current) /\ Carry(Current)
        /\ tool' = Failed(tool, Current, "other")
        /\ unheard' = IF Current.do = "issue" THEN unheard + 1 ELSE unheard
    BY <1>11 DEF AnswerLost
  <2> QED
    BY <1>1, <1>9, <2>1 DEF n
<1>12. CASE TimesOut
  <2>1. /\ ~tool.dry /\ tool' = Raise(tool)
        /\ \/ UNCHANGED <<pulls, milestone, labels, issues, unheard>>
           \/ /\ Accepts(Current) /\ Carry(Current)
              /\ unheard' = IF Current.do = "issue" THEN unheard + 1 ELSE unheard
    BY <1>12 DEF TimesOut, github
  <2> QED
    BY <1>1, <1>5, <2>1 DEF n
<1> QED
  BY <1>6, <1>7, <1>8, <1>10, <1>11, <1>12 DEF RunCommand

-----------------------------------------------------------------------------
(***************************************************************************)
(* The invariant.                                                          *)
(***************************************************************************)

\* Copies are counted in Nat.
LEMMA CopiesFinite ==
  ASSUME NEW i \in Seq(Issue), NEW t
  PROVE  IsFiniteSet(Copies(i, t)) /\ Cardinality(Copies(i, t)) \in Nat
<1>1. DOMAIN i = 1 .. Len(i) /\ Len(i) \in Int
  OBVIOUS
<1>2. IsFiniteSet(DOMAIN i)
  BY <1>1, FS_Interval
<1>3. Copies(i, t) \in SUBSET DOMAIN i
  BY DEF Copies
<1>4. IsFiniteSet(Copies(i, t))
  BY ONLY <1>2, <1>3, FS_Subset
<1> QED
  BY <1>4, FS_CardinalityType

\* An issue added is one copy more of its own title.
LEMMA CopyAdded ==
  ASSUME NEW i \in Seq(Issue), NEW new \in Issue, NEW t
  PROVE  /\ t = new.title =>
              Cardinality(Copies(Append(i, new), t)) = Cardinality(Copies(i, t)) + 1
         /\ t # new.title => Copies(Append(i, new), t) = Copies(i, t)
<1> DEFINE n == Len(i) + 1
           j == Append(i, new)
<1>1. /\ DOMAIN i = 1 .. Len(i) /\ DOMAIN j = 1 .. n /\ Len(i) \in Nat
      /\ \A k \in 1 .. Len(i) : j[k] = i[k]
      /\ j[n] = new
  OBVIOUS
<1>2. n \notin DOMAIN i /\ DOMAIN j = DOMAIN i \cup {n}
  BY <1>1
<1> HIDE DEF n, j
<1>3. ASSUME t = new.title PROVE Cardinality(Copies(j, t)) = Cardinality(Copies(i, t)) + 1
  <2>1. Copies(j, t) = Copies(i, t) \cup {n} /\ n \notin Copies(i, t)
    BY <1>1, <1>2, <1>3 DEF Copies
  <2> QED
    BY ONLY <2>1, CopiesFinite, FS_AddElement, i \in Seq(Issue)
<1>4. ASSUME t # new.title PROVE Copies(j, t) = Copies(i, t)
  BY <1>1, <1>2, <1>4 DEF Copies
<1> QED
  BY <1>3, <1>4, Zenon DEF j

\* The step of a script keeps what it has told true.
LEMMA RanTellsTrue ==
  ASSUME IInv, RunCommand
  PROVE  GithubTyped' /\ ToolTold(tool, Len(issues))' /\ ToldSoFar'
<1> DEFINE n == Len(issues)
<1>1. /\ tool.result = "none" /\ tool.left # <<>> /\ seeds' = seeds
      /\ GithubTyped /\ ToolTold(tool, n) /\ ToldSoFar /\ n \in Nat
      /\ ToolTold(tool', n) /\ tool'.plan = tool.plan
      /\ tool'.dry = tool.dry /\ tool'.script = tool.script
  BY Ran DEF IInv, GithubTyped
<1>2. /\ Current \in Fitting(n) /\ Done(tool) + 1 \in 1 .. Len(tool.plan)
      /\ Current = tool.plan[Done(tool) + 1] /\ Done(tool) \in Nat
  BY <1>1, AtHand DEF Current
<1>3. \A k \in 1 .. Done(tool) : k \in 1 .. Len(tool.plan) /\ tool.plan[k] \in Fitting(n)
  <2>1. tool.plan \in Seq(Fitting(n)) /\ Len(tool.plan) \in Nat
    BY <1>1 DEF ToolTold
  <2> QED
    BY <1>2, <2>1, ElementOfSeq
<1>4. CASE /\ UNCHANGED <<pulls, milestone, labels, issues, unheard>>
           /\ \/ Done(tool') = Done(tool)
              \/ /\ Done(tool') = Done(tool) + 1
                 /\ tool.dry \/ Reached(Current, pulls, milestone, labels, issues)
  <2>1. GithubTyped' /\ ToolTold(tool, Len(issues))'
    BY <1>1, <1>4 DEF GithubTyped
  <2>2. ASSUME ~tool.dry, NEW k \in 1 .. Done(tool')
        PROVE  Reached(tool.plan[k], pulls, milestone, labels, issues)
    <3>1. CASE k \in 1 .. Done(tool)
      BY <1>1, <2>2, <3>1 DEF ToldSoFar
    <3>2. CASE ~(k \in 1 .. Done(tool))
      <4>1. k = Done(tool) + 1 /\ Reached(Current, pulls, milestone, labels, issues)
        BY <1>2, <1>4, <2>2, <3>2
      <4> QED
        BY <1>2, <4>1
    <3> QED
      BY <3>1, <3>2
  <2>3. ToldSoFar'
    BY <1>1, <1>4, <2>2 DEF ToldSoFar
  <2> QED
    BY <2>1, <2>3
<1>5. CASE /\ ~tool.dry /\ Accepts(Current) /\ Carry(Current)
           /\ Done(tool') \in {Done(tool), Done(tool) + 1} /\ unheard' \in Nat
  <2>1. /\ GithubTyped' /\ n <= Len(issues')
        /\ Reached(Current, pulls', milestone', labels', issues')
        /\ \A d \in Fitting(n) : Reached(d, pulls, milestone, labels, issues)
                  => Reached(d, pulls', milestone', labels', issues')
    BY <1>1, <1>2, <1>5, Carried
  <2>2. Len(issues') \in Nat
    BY <2>1 DEF GithubTyped
  <2> HIDE DEF n
  <2>3. ToolTold(tool', Len(issues'))
    BY <1>1, <2>1, <2>2, ToldGrows
  <2>4. \A k \in 1 .. Done(tool') : Reached(tool.plan[k], pulls', milestone', labels', issues')
    <3> SUFFICES ASSUME NEW k \in 1 .. Done(tool')
                 PROVE  Reached(tool.plan[k], pulls', milestone', labels', issues')
      OBVIOUS
    <3>1. CASE k \in 1 .. Done(tool)
      <4>1. Reached(tool.plan[k], pulls, milestone, labels, issues)
        BY <1>1, <1>5, <3>1 DEF ToldSoFar
      <4> QED
        BY <1>3, <2>1, <3>1, <4>1
    <3>2. CASE k = Done(tool) + 1
      BY <1>2, <2>1, <3>2
    <3> QED
      BY <1>2, <1>5, <3>1, <3>2
  <2>5. ToldSoFar'
    BY <1>1, <2>4 DEF ToldSoFar
  <2> QED
    BY <2>1, <2>3, <2>5
<1> QED
  BY <1>1, <1>4, <1>5, Ran DEF GithubTyped

\* What the seeding owes, it owes until its command is done.
LEMMA OwedShrinks ==
  ASSUME NEW s, NEW u, s.result = "none", u.dry = s.dry, u.script = s.script,
         Done(s) \in Nat, Done(u) \in Nat, Done(s) <= Done(u), NEW t \in Nat, Owed(u, t)
  PROVE  Owed(s, t)
<1>1. t + 1 > Done(s)
  BY DEF Owed
<1> QED
  BY <1>1 DEF Owed

\* The step of a script leaves no copy unexplained.
LEMMA RanPays ==
  ASSUME IInv, RunCommand
  PROVE  CopiesPaid'
<1> DEFINE n == Len(issues)
<1>1. /\ tool.result = "none" /\ tool.left # <<>> /\ seeds' = seeds
      /\ GithubTyped /\ ToolTold(tool, n) /\ CopiesPaid /\ n \in Nat
      /\ ToolTold(tool', n) /\ tool'.plan = tool.plan
      /\ tool'.dry = tool.dry /\ tool'.script = tool.script
  BY Ran DEF IInv, GithubTyped
<1>2. /\ Current \in Fitting(n) /\ Done(tool) + 1 \in 1 .. Len(tool.plan)
      /\ Current = tool.plan[Done(tool) + 1] /\ Done(tool) \in Nat
  BY <1>1, AtHand DEF Current
<1>3. /\ seeds \in Nat /\ unheard \in Nat /\ issues \in Seq(Issue)
      /\ DOMAIN Titles \subseteq Nat
  BY <1>1, ReleaseAssumption DEF GithubTyped
<1>4. \A t \in DOMAIN Titles : Cardinality(Copies(issues, t)) \in Nat
  BY ONLY <1>3, CopiesFinite
<1>5. Done(tool') \in {Done(tool), Done(tool) + 1}
  BY Ran
<1>6. \A t \in DOMAIN Titles : Owed(tool', t) => Owed(tool, t)
  <2>1. Done(tool') \in Nat /\ Done(tool) <= Done(tool')
    BY <1>2, <1>5
  <2> QED
    BY ONLY <1>1, <1>2, <1>3, <2>1, OwedShrinks
<1>7. CASE /\ unheard' \in Nat /\ unheard <= unheard'
           /\ \A t \in DOMAIN Titles : Copies(issues', t) = Copies(issues, t)
  <2> SUFFICES ASSUME NEW t \in DOMAIN Titles
               PROVE  Cardinality(Copies(issues', t)) + (IF Owed(tool', t) THEN 1 ELSE 0)
                        <= seeds' + unheard'
    BY DEF CopiesPaid
  <2>1. Cardinality(Copies(issues, t)) + (IF Owed(tool, t) THEN 1 ELSE 0) <= seeds + unheard
    BY <1>1 DEF CopiesPaid
  <2>2. Copies(issues', t) = Copies(issues, t) /\ (Owed(tool', t) => Owed(tool, t))
    BY <1>6, <1>7
  <2> QED
    BY ONLY <1>1, <1>3, <1>4, <1>7, <2>1, <2>2
<1>8. CASE ~tool.dry /\ Accepts(Current) /\ Carry(Current) /\ Current.do # "issue"
           /\ unheard' = unheard
  <2>1. /\ DOMAIN issues' = DOMAIN issues
        /\ \A i \in DOMAIN issues : issues'[i].title = issues[i].title
    BY <1>1, <1>2, <1>3, <1>8, Carried
  <2>2. \A t \in DOMAIN Titles : Copies(issues', t) = Copies(issues, t)
    BY <2>1 DEF Copies
  <2> QED
    BY <1>3, <1>7, <1>8, <2>2
<1>9. CASE /\ ~tool.dry /\ Accepts(Current) /\ Carry(Current) /\ Current.do = "issue"
           /\ \/ Done(tool') = Done(tool) + 1 /\ unheard' = unheard
              \/ Done(tool') = Done(tool) /\ unheard' = unheard + 1
  <2> DEFINE on == Current.on
  <2>1. /\ on \in DOMAIN Titles /\ tool.script = "milestones"
        /\ on = (Done(tool) + 1) - 1
    BY <1>1, <1>2, <1>9 DEF Fitting, ToolTold
  <2>2. issues' = Append(issues, [title |-> on, tags |-> {}])
    BY <1>9 DEF Carry
  <2> HIDE DEF on
  <2>3. on = Done(tool)
    BY <1>2, <2>1
  <2>4. \A t \in DOMAIN Titles :
          Cardinality(Copies(issues', t))
            = IF t = on THEN Cardinality(Copies(issues, t)) + 1 ELSE Cardinality(Copies(issues, t))
    <3> DEFINE new == [title |-> on, tags |-> {}]
    <3>1. new \in Issue /\ new.title = on /\ issues' = Append(issues, new)
      BY <2>1, <2>2 DEF Issue
    <3> HIDE DEF new
    <3>2. \A t : /\ t = on => Cardinality(Copies(issues', t)) = Cardinality(Copies(issues, t)) + 1
                 /\ t # on => Copies(issues', t) = Copies(issues, t)
      BY ONLY <1>3, <3>1, CopyAdded
    <3> QED
      BY <3>2
  <2>5. Owed(tool, on)
    BY <1>1, <1>2, <1>9, <2>1, <2>3 DEF Owed
  <2>6. Done(tool') = Done(tool) + 1 => ~Owed(tool', on)
    BY <1>2, <2>3 DEF Owed
  <2> SUFFICES ASSUME NEW t \in DOMAIN Titles
               PROVE  Cardinality(Copies(issues', t)) + (IF Owed(tool', t) THEN 1 ELSE 0)
                        <= seeds' + unheard'
    BY DEF CopiesPaid
  <2>7. Cardinality(Copies(issues, t)) + (IF Owed(tool, t) THEN 1 ELSE 0) <= seeds + unheard
    BY <1>1 DEF CopiesPaid
  <2>8. Owed(tool', t) => Owed(tool, t)
    BY <1>6
  <2> QED
    BY ONLY <1>1, <1>3, <1>4, <1>9, <2>4, <2>5, <2>6, <2>7, <2>8
<1>10. CASE UNCHANGED <<pulls, milestone, labels, issues, unheard>>
  BY <1>3, <1>7, <1>10
<1> QED
  BY <1>8, <1>9, <1>10, Ran

-----------------------------------------------------------------------------
(***************************************************************************)
(* The start of a script.                                                  *)
(***************************************************************************)

\* The fields Begin sets.
LEMMA Begun ==
  ASSUME NEW script, NEW plan, NEW dry
  PROVE  [Idle EXCEPT !.script = script, !.plan = plan, !.left = plan, !.dry = dry]
           = Script(script, dry, plan, plan, 1, "admin", "none")
<1> DEFINE no == FALSE
           none == "none"
           nil == <<>>
           one == 1
           way == "admin"
           a == Script(none, no, nil, nil, one, way, none)
           b == [a EXCEPT !.script = script]
           c == [b EXCEPT !.plan = plan]
           d == [c EXCEPT !.left = plan]
<1>1. Idle = a
  BY DEF Idle, Script
<1>2. [Idle EXCEPT !.script = script, !.plan = plan, !.left = plan, !.dry = dry]
        = [d EXCEPT !.dry = dry]
  BY <1>1
<1> HIDE DEF no, none, nil, one, way
<1>3. b = Script(script, no, nil, nil, one, way, none)
  BY DEF Script
<1> HIDE DEF a, b
<1>4. c = Script(script, no, plan, nil, one, way, none)
  BY <1>3 DEF Script
<1> HIDE DEF c
<1>5. d = Script(script, no, plan, plan, one, way, none)
  BY <1>4 DEF Script
<1> HIDE DEF d
<1>6. [d EXCEPT !.dry = dry] = Script(script, dry, plan, plan, one, way, none)
  BY <1>5 DEF Script
<1> QED
  BY <1>2, <1>6 DEF one, way, none

\* A script that begins has told nothing, and owes its issues only if it is a
\* run of the seeding, which is counted.
LEMMA BeginKeeps ==
  ASSUME IInv, NEW script, NEW plan \in Seq(Fitting(Len(issues))), NEW dry \in BOOLEAN,
         Begin(script, plan, dry),
         \A k \in 1 .. Len(plan) : plan[k].do = "issue" => script = "milestones" /\ plan[k].on = k - 1,
         seeds' = IF script = "milestones" /\ ~dry THEN seeds + 1 ELSE seeds
  PROVE  IInv'
<1> DEFINE n == Len(issues)
           t == Script(script, dry, plan, plan, 1, "admin", "none")
<1>1. /\ tool' = t /\ UNCHANGED <<pulls, milestone, labels, issues, unheard>>
      /\ n \in Nat /\ Len(plan) \in Nat /\ GithubTyped /\ CopiesPaid
      /\ seeds \in Nat /\ unheard \in Nat
  <2>1. /\ GithubTyped /\ CopiesPaid /\ n \in Nat /\ seeds \in Nat /\ unheard \in Nat
        /\ Len(plan) \in Nat
    BY DEF IInv, GithubTyped
  <2>2. /\ tool' = [Idle EXCEPT !.script = script, !.plan = plan, !.left = plan, !.dry = dry]
        /\ UNCHANGED <<pulls, milestone, labels, issues, unheard>>
    BY DEF Begin
  <2>3. [Idle EXCEPT !.script = script, !.plan = plan, !.left = plan, !.dry = dry] = t
    BY ONLY Begun
  <2> QED
    BY <2>1, <2>2, <2>3, Zenon
<1>2. /\ t.script = script /\ t.dry = dry /\ t.plan = plan /\ t.left = plan /\ t.attempt = 1
      /\ t.result = "none"
      /\ t = Script(t.script, t.dry, t.plan, t.left, t.attempt, t.way, t.result)
  BY DEF Script
<1> HIDE DEF t
<1>3. Done(t) = 0
  BY <1>1, <1>2 DEF Done
<1>4. ToolTold(t, n)
  <2>1. \A i \in 1 .. Len(t.left) : t.left[i] = t.plan[Done(t) + i]
    BY <1>1, <1>2, <1>3
  <2> QED
    BY <1>1, <1>2, <2>1 DEF ToolTold
<1>5. GithubTyped' /\ ToolTold(tool, Len(issues))'
  BY <1>1, <1>4 DEF GithubTyped
<1>6. ToldSoFar'
  BY <1>1, <1>3 DEF ToldSoFar
<1>7. CopiesPaid'
  <2> SUFFICES ASSUME NEW title \in DOMAIN Titles
               PROVE  Cardinality(Copies(issues', title)) + (IF Owed(tool', title) THEN 1 ELSE 0)
                        <= seeds' + unheard'
    BY DEF CopiesPaid
  <2>1. /\ Cardinality(Copies(issues, title)) + (IF Owed(tool, title) THEN 1 ELSE 0)
             <= seeds + unheard
        /\ Cardinality(Copies(issues, title)) \in Nat
    BY <1>1, CopiesFinite DEF CopiesPaid, GithubTyped
  <2>2. Owed(tool', title) => script = "milestones" /\ ~dry
    BY <1>1, <1>2 DEF Owed
  <2>3. Copies(issues', title) = Copies(issues, title)
    BY <1>1
  <2> QED
    BY <1>1, <2>1, <2>2, <2>3
<1> QED
  BY <1>5, <1>6, <1>7 DEF IInv

\* A set's sequences are of its elements.
LEMMA SequencesOf ==
  ASSUME NEW S, IsFiniteSet(S), NEW s \in SetToSeqs(S)
  PROVE  s \in Seq(S)
<1>1. Cardinality(S) \in Nat /\ s \in [1 .. Cardinality(S) -> S]
  BY FS_CardinalityType DEF SetToSeqs
<1> QED
  BY <1>1

\* The pull requests a merge may begin with.
LEMMA CandidatesTyped ==
  ASSUME GithubTyped, NEW from \in {"given", "file", "listing"}, NEW numbers \in Candidates(from)
  PROVE  numbers \in Seq(Pulls)
<1>1. CASE from = "given"
  BY <1>1, ReleaseAssumption DEF Candidates
<1>2. CASE from = "file"
  <2> DEFINE S == {i \in DOMAIN File : MatchPullRequestRecord(File[i])}
  <2>1. PICK kept \in Rising(S) : numbers = [k \in DOMAIN kept |-> File[kept[k]].number]
    BY <1>2 DEF Candidates, FileNumbers
  <2>2. /\ DOMAIN File = 1 .. Len(File) /\ Len(File) \in Int
        /\ \A i \in DOMAIN File : File[i].number \in Pulls
    <3>1. File \in Seq([number : Pulls, state : STRING, matches : BOOLEAN])
      BY ReleaseAssumption
    <3>2. DOMAIN File = 1 .. Len(File) /\ Len(File) \in Int
      BY ONLY <3>1
    <3>3. \A i \in 1 .. Len(File) : File[i] \in [number : Pulls, state : STRING, matches : BOOLEAN]
      BY ONLY <3>1, ElementOfSeq
    <3> QED
      BY ONLY <3>2, <3>3
  <2>3. IsFiniteSet(DOMAIN File)
    BY <2>2, FS_Interval
  <2>4. S \in SUBSET DOMAIN File
    OBVIOUS
  <2>5. IsFiniteSet(S)
    BY ONLY <2>3, <2>4, FS_Subset
  <2>6. kept \in SetToSeqs(S)
    BY <2>1 DEF Rising
  <2> HIDE DEF S
  <2>7. kept \in Seq(S)
    BY ONLY <2>5, <2>6, SequencesOf
  <2>8. /\ DOMAIN kept = 1 .. Len(kept) /\ Len(kept) \in Nat
        /\ \A k \in 1 .. Len(kept) : File[kept[k]].number \in Pulls
    BY <2>2, <2>4, <2>7
  <2>9. numbers \in [1 .. Len(kept) -> Pulls]
    BY <2>1, <2>8
  <2> QED
    BY <2>8, <2>9
<1>3. CASE from = "listing"
  <2> DEFINE S == {p \in Pulls : pulls[p] = "open"}
  <2>1. PICK newest \in Falling(S) :
          numbers = SubSeq(newest, 1, IF Len(newest) < PullLimit THEN Len(newest) ELSE PullLimit)
    BY <1>3 DEF Candidates, ListPullRequests
  <2>2. S \in SUBSET Pulls /\ IsFiniteSet(Pulls)
    BY ReleaseAssumption
  <2>3. IsFiniteSet(S)
    BY ONLY <2>2, FS_Subset
  <2>4. newest \in SetToSeqs(S)
    BY <2>1 DEF Falling
  <2> HIDE DEF S
  <2>5. newest \in Seq(S)
    BY ONLY <2>3, <2>4, SequencesOf
  <2> DEFINE last == IF Len(newest) < PullLimit THEN Len(newest) ELSE PullLimit
             one == 1
  <2>6. numbers = SubSeq(newest, one, last)
    BY <2>1
  <2>7. last \in Int /\ one \in Int /\ one >= 1 /\ last <= Len(newest)
    <3>1. PullLimit \in Nat
      BY ReleaseAssumption
    <3> QED
      BY ONLY <2>5, <3>1
  <2> HIDE DEF last, one
  <2>8. \A i \in one .. last : newest[i] \in Pulls
    BY ONLY <2>2, <2>5, <2>7
  <2> QED
    BY ONLY <2>6, <2>7, <2>8, SubSeqProperties
<1> QED
  BY <1>1, <1>2, <1>3

\* A batch is of the numbers it is taken from.
LEMMA BatchTyped ==
  ASSUME NEW numbers \in Seq(Pulls), NEW size \in Nat, NEW index \in Nat \ {0}
  PROVE  SelectBatch(numbers, size, index) \in Seq(Pulls)
<1>1. CASE size = 0
  BY <1>1 DEF SelectBatch
<1>2. CASE size # 0
  <2> DEFINE start == (index - 1) * size
             end == start + size
             first == start + 1
             last == IF end < Len(numbers) THEN end ELSE Len(numbers)
  <2>1. SelectBatch(numbers, size, index) = SubSeq(numbers, first, last)
    BY <1>2 DEF SelectBatch
  <2>2. start \in Nat
    <3> DEFINE i == index - 1
    <3>1. i \in Nat
      OBVIOUS
    <3> HIDE DEF i
    <3>2. i * size \in Nat
      BY <3>1
    <3> QED
      BY <3>2 DEF i
  <2> HIDE DEF start
  <2>3. /\ first \in Int /\ last \in Int /\ Len(numbers) \in Nat
        /\ \A i \in first .. last : i \in 1 .. Len(numbers)
    BY <2>2
  <2>4. \A i \in first .. last : numbers[i] \in Pulls
    BY <2>3
  <2> HIDE DEF first, last
  <2> QED
    BY ONLY <2>1, <2>3, <2>4, SubSeqProperties
<1> QED
  BY <1>1, <1>2

\* The merging script begins.
LEMMA MergesBegin ==
  ASSUME IInv, MergePullRequests
  PROVE  IInv'
<1>0. PICK from \in {"given", "file", "listing"}, size \in Sizes,
           index \in 1 .. Cardinality(Pulls), dry \in BOOLEAN :
        \E numbers \in Candidates(from) :
          /\ Begin("merges", MergePlan(SelectBatch(numbers, size, index)), dry)
          /\ UNCHANGED seeds
  BY DEF MergePullRequests
<1>1. PICK numbers \in Candidates(from) :
        Begin("merges", MergePlan(SelectBatch(numbers, size, index)), dry) /\ UNCHANGED seeds
  BY <1>0
<1> DEFINE selected == SelectBatch(numbers, size, index)
           plan == MergePlan(selected)
           n == Len(issues)
<1>2. numbers \in Seq(Pulls)
  BY CandidatesTyped DEF IInv
<1>3. size \in Nat /\ index \in Nat \ {0}
  <2>1. Cardinality(Pulls) \in Nat
    BY ReleaseAssumption, FS_CardinalityType
  <2> QED
    BY <2>1, ReleaseAssumption
<1>4. selected \in Seq(Pulls)
  BY ONLY <1>2, <1>3, BatchTyped
<1>5. Begin("merges", plan, dry) /\ UNCHANGED seeds
  BY <1>1
<1>6. plan = [i \in DOMAIN selected |-> Do("merge", selected[i], {})]
  BY DEF MergePlan
<1> HIDE DEF selected, plan
<1>7. /\ DOMAIN selected = 1 .. Len(selected) /\ Len(selected) \in Nat
      /\ \A i \in 1 .. Len(selected) : selected[i] \in Pulls /\ selected[i] \in Nat
  <2>1. Pulls \subseteq Nat
    BY ReleaseAssumption
  <2>2. DOMAIN selected = 1 .. Len(selected) /\ Len(selected) \in Nat
    BY ONLY <1>4
  <2>3. \A i \in 1 .. Len(selected) : selected[i] \in Pulls
    BY ONLY <1>4, ElementOfSeq
  <2> QED
    BY ONLY <2>1, <2>2, <2>3
<1>8. \A i \in 1 .. Len(selected) :
        Do("merge", selected[i], {}) \in Fitting(n) /\ Do("merge", selected[i], {}).do # "issue"
  BY <1>7 DEF Do, Fitting, Command
<1>9. /\ plan \in [1 .. Len(selected) -> Fitting(n)]
      /\ \A i \in 1 .. Len(selected) : plan[i].do # "issue"
  BY <1>6, <1>7, <1>8
<1>10. plan \in Seq(Fitting(n)) /\ Len(plan) = Len(selected)
  BY <1>7, <1>9
<1> QED
  BY <1>5, <1>9, <1>10, BeginKeeps

\* The seeding script begins.
LEMMA MilestonesBegin ==
  ASSUME IInv, SeedMilestone
  PROVE  IInv'
<1> DEFINE n == Len(issues)
           first == <<Do("milestone", 0, {})>>
           plan == first \o IssueDefinitions
<1>1. PICK dry \in BOOLEAN :
        /\ Begin("milestones", plan, dry)
        /\ seeds' = IF dry THEN seeds ELSE seeds + 1
  BY DEF SeedMilestone
<1>2. DOMAIN Titles = 1 .. Len(Titles) /\ Len(Titles) \in Nat
  BY ReleaseAssumption
<1>3. IssueDefinitions \in Seq(Fitting(n)) /\ Len(IssueDefinitions) = Len(Titles)
      /\ \A t \in 1 .. Len(Titles) : IssueDefinitions[t].on = t
  <2>1. \A t \in 1 .. Len(Titles) : Do("issue", t, {}) \in Fitting(n) /\ Do("issue", t, {}).on = t
    BY <1>2 DEF Do, Fitting, Command
  <2>2. IssueDefinitions = [t \in 1 .. Len(Titles) |-> Do("issue", t, {})]
    BY <1>2 DEF IssueDefinitions
  <2>3. /\ IssueDefinitions \in [1 .. Len(Titles) -> Fitting(n)]
        /\ \A t \in 1 .. Len(Titles) : IssueDefinitions[t].on = t
    BY <2>1, <2>2
  <2> QED
    BY <1>2, <2>3
<1>4. first \in Seq(Fitting(n)) /\ Len(first) = 1 /\ first[1].do # "issue"
  <2>1. Do("milestone", 0, {}) \in Fitting(n) /\ Do("milestone", 0, {}).do # "issue"
    BY DEF Do, Fitting, Command
  <2> DEFINE c == Do("milestone", 0, {})
  <2> HIDE DEF c
  <2>2. <<c>> \in Seq(Fitting(n)) /\ Len(<<c>>) = 1 /\ <<c>>[1] = c
    BY <2>1 DEF c
  <2> QED
    BY <2>1, <2>2 DEF c
<1> HIDE DEF first
<1>5. /\ plan \in Seq(Fitting(n)) /\ Len(plan) = 1 + Len(Titles)
      /\ \A k \in 1 .. 1 + Len(Titles) :
           plan[k] = IF k <= 1 THEN first[k] ELSE IssueDefinitions[k - 1]
  <2>1. /\ plan \in Seq(Fitting(n)) /\ Len(plan) = Len(first) + Len(IssueDefinitions)
        /\ \A k \in 1 .. Len(first) + Len(IssueDefinitions) :
             plan[k] = IF k <= Len(first) THEN first[k] ELSE IssueDefinitions[k - Len(first)]
    BY ONLY <1>3, <1>4, ConcatProperties
  <2> HIDE DEF plan
  <2>2. Len(first) = 1 /\ Len(IssueDefinitions) = Len(Titles)
    BY ONLY <1>3, <1>4
  <2> QED
    BY ONLY <2>1, <2>2
<1> HIDE DEF plan
<1>6. \A k \in 1 .. Len(plan) : plan[k].do = "issue" => plan[k].on = k - 1
  <2> SUFFICES ASSUME NEW k \in 1 .. Len(plan), plan[k].do = "issue" PROVE plan[k].on = k - 1
    OBVIOUS
  <2>1. k # 1
    BY <1>2, <1>4, <1>5
  <2>2. k - 1 \in 1 .. Len(Titles) /\ plan[k] = IssueDefinitions[k - 1]
    BY <1>2, <1>5, <2>1
  <2> QED
    BY <1>3, <2>2
<1>7. seeds' = IF "milestones" = "milestones" /\ ~dry THEN seeds + 1 ELSE seeds
  BY <1>1
<1> QED
  BY <1>1, <1>5, <1>6, <1>7, BeginKeeps

\* The rules give labels.
LEMMA TagsAreLabels ==
  ASSUME GithubTyped, NEW i \in DOMAIN issues
  PROVE  TagsOf(i) \subseteq Label
<1>1. issues[i] \in Issue
  <2>1. issues \in Seq(Issue) /\ DOMAIN issues = 1 .. Len(issues)
    BY DEF GithubTyped
  <2> QED
    BY ONLY <2>1, ElementOfSeq, i \in DOMAIN issues
<1>2. issues[i].title \in DOMAIN Titles /\ Titles \in Seq(SUBSET (1 .. 9))
  BY <1>1, ReleaseAssumption DEF Issue
<1>3. Titles[issues[i].title] \subseteq 1 .. 9
  BY ONLY <1>2
<1>4. \A r \in 1 .. 9 : TitleLabelRules[r] \subseteq Label
  <2>1. DOMAIN TitleLabelRules = 1 .. 9
    BY DEF TitleLabelRules
  <2>2. \A r \in 1 .. 9 : TitleLabelRules[r] \in Range(TitleLabelRules)
    BY <2>1 DEF Range
  <2> QED
    BY <2>2 DEF Label
<1> QED
  BY <1>3, <1>4 DEF TagsOf, LabelsForTitle

\* The labelling script begins.
LEMMA LabelsBegin ==
  ASSUME IInv, SeedAndTagIssues
  PROVE  IInv'
<1> DEFINE n == Len(issues)
           S == {i \in ListOpenMilestoneIssues : TagsOf(i) # {}}
<1>1. PICK dry \in BOOLEAN, tagged \in Falling(S) :
        Begin("labels",
              LabelDefinitions \o [k \in DOMAIN tagged |-> Do("tag", tagged[k], TagsOf(tagged[k]))],
              dry) /\ UNCHANGED seeds
  BY DEF SeedAndTagIssues
<1> DEFINE tags == [k \in DOMAIN tagged |-> Do("tag", tagged[k], TagsOf(tagged[k]))]
           plan == LabelDefinitions \o tags
<1>2. Begin("labels", plan, dry) /\ seeds' = IF "labels" = "milestones" /\ ~dry THEN seeds + 1 ELSE seeds
  BY <1>1
<1>3. GithubTyped /\ n \in Nat /\ DOMAIN issues = 1 .. n
  BY DEF IInv, GithubTyped
<1>4. /\ LabelDefinitions \in Seq(Fitting(n))
      /\ \A l \in 1 .. Len(LabelDefinitions) : LabelDefinitions[l].do # "issue"
  <2>1. DOMAIN NewLabels = 1 .. Len(NewLabels) /\ Len(NewLabels) \in Nat
        /\ \A l \in 1 .. Len(NewLabels) : NewLabels[l] \in Label
    <3>1. NewLabels \in Seq(STRING)
      BY ReleaseAssumption
    <3>2. DOMAIN NewLabels = 1 .. Len(NewLabels) /\ Len(NewLabels) \in Nat
      BY ONLY <3>1
    <3>3. \A l \in DOMAIN NewLabels : NewLabels[l] \in Label
      <4>1. \A l \in DOMAIN NewLabels : NewLabels[l] \in Range(NewLabels)
        BY DEF Range
      <4> QED
        BY <4>1 DEF Label
    <3> QED
      BY <3>2, <3>3
  <2>2. \A l \in 1 .. Len(NewLabels) :
          /\ Do("label", 0, {NewLabels[l]}) \in Fitting(n)
          /\ Do("label", 0, {NewLabels[l]}).do # "issue"
    <3> TAKE l \in 1 .. Len(NewLabels)
    <3> DEFINE c == Do("label", 0, {NewLabels[l]})
    <3>1. c.do = "label" /\ c.names = {NewLabels[l]} /\ c \in Command
      BY <2>1 DEF Do, Command
    <3> HIDE DEF c
    <3>2. c \in Fitting(n) /\ c.do # "issue"
      BY <2>1, <3>1 DEF Fitting
    <3> QED
      BY <3>2 DEF c
  <2>3. LabelDefinitions = [l \in 1 .. Len(NewLabels) |-> Do("label", 0, {NewLabels[l]})]
    BY <2>1 DEF LabelDefinitions
  <2>4. /\ LabelDefinitions \in [1 .. Len(NewLabels) -> Fitting(n)]
        /\ \A l \in 1 .. Len(NewLabels) : LabelDefinitions[l].do # "issue"
    BY <2>2, <2>3
  <2> QED
    BY <2>1, <2>4
<1>5. S \in SUBSET (1 .. n) /\ IsFiniteSet(S)
  <2>1. S \in SUBSET (1 .. n)
    BY <1>3 DEF ListOpenMilestoneIssues
  <2>2. IsFiniteSet(1 .. n)
    BY <1>3, FS_Interval
  <2> HIDE DEF S
  <2> QED
    BY ONLY <2>1, <2>2, FS_Subset
<1>6. tagged \in SetToSeqs(S)
  BY <1>1 DEF Falling
<1> HIDE DEF S
<1>7. tagged \in Seq(S)
  BY ONLY <1>5, <1>6, SequencesOf
<1>8. /\ DOMAIN tagged = 1 .. Len(tagged) /\ Len(tagged) \in Nat
      /\ \A k \in 1 .. Len(tagged) : tagged[k] \in 1 .. n
  <2>1. \A k \in 1 .. Len(tagged) : tagged[k] \in S
    BY ONLY <1>7, ElementOfSeq
  <2>2. DOMAIN tagged = 1 .. Len(tagged) /\ Len(tagged) \in Nat
    BY ONLY <1>7
  <2>3. \A k \in 1 .. Len(tagged) : tagged[k] \in 1 .. n
    BY ONLY <1>5, <2>1
  <2> QED
    BY ONLY <2>2, <2>3
<1>9. \A k \in 1 .. Len(tagged) :
        /\ Do("tag", tagged[k], TagsOf(tagged[k])) \in Fitting(n)
        /\ Do("tag", tagged[k], TagsOf(tagged[k])).do # "issue"
  <2> TAKE k \in 1 .. Len(tagged)
  <2>1. TagsOf(tagged[k]) \subseteq Label /\ tagged[k] \in 1 .. n /\ tagged[k] \in Nat
    BY <1>3, <1>8, TagsAreLabels
  <2> QED
    BY <2>1 DEF Do, Fitting, Command
<1>10. tags = [k \in 1 .. Len(tagged) |-> Do("tag", tagged[k], TagsOf(tagged[k]))]
  BY <1>8
<1> HIDE DEF tags
<1>11. /\ tags \in [1 .. Len(tagged) -> Fitting(n)]
       /\ \A k \in 1 .. Len(tagged) : tags[k].do # "issue"
  BY <1>9, <1>10
<1>12. tags \in Seq(Fitting(n)) /\ Len(tags) = Len(tagged)
  BY <1>8, <1>11
<1>13. /\ plan \in Seq(Fitting(n)) /\ Len(plan) = Len(LabelDefinitions) + Len(tags)
       /\ \A k \in 1 .. Len(LabelDefinitions) + Len(tags) :
            plan[k] = IF k <= Len(LabelDefinitions) THEN LabelDefinitions[k]
                      ELSE tags[k - Len(LabelDefinitions)]
  BY ONLY <1>4, <1>12, ConcatProperties, ZenonT(60)
<1> HIDE DEF plan
<1>14. \A k \in 1 .. Len(plan) : plan[k].do # "issue"
  <2> TAKE k \in 1 .. Len(plan)
  <2>1. Len(LabelDefinitions) \in Nat /\ Len(tags) \in Nat
    BY <1>4, <1>12
  <2>2. CASE k <= Len(LabelDefinitions)
    BY <1>4, <1>13, <2>1, <2>2
  <2>3. CASE ~(k <= Len(LabelDefinitions))
    <3>1. k - Len(LabelDefinitions) \in 1 .. Len(tagged)
      BY <1>12, <1>13, <2>1, <2>3
    <3>2. plan[k] = tags[k - Len(LabelDefinitions)]
      BY <1>13, <2>3
    <3> QED
      BY <1>11, <3>1, <3>2
  <2> QED
    BY <2>2, <2>3
<1> QED
  BY <1>2, <1>13, <1>14, BeginKeeps

-----------------------------------------------------------------------------
(***************************************************************************)
(* The end of a script, what others do, and the theorems.                  *)
(***************************************************************************)

\* A script returns when it has nothing left to do.
LEMMA ReturnKeeps ==
  ASSUME IInv, Return
  PROVE  IInv'
<1> DEFINE n == Len(issues)
<1>1. /\ tool' = [tool EXCEPT !.result = "returned"] /\ tool.left = <<>> /\ n \in Nat
      /\ tool.result = "none" /\ ToolTold(tool, n) /\ tool.attempt \in Nat
      /\ UNCHANGED <<pulls, milestone, labels, issues, seeds, unheard>>
  BY DEF Return, IInv, Running, github, GithubTyped, ToolTold
<1> HIDE DEF n
<1>2. tool' = Stayed(tool, tool.attempt, tool.way, "returned")
  BY <1>1, Restated, ZenonT(60)
<1> DEFINE t == tool'
<1>3. t = Stayed(tool, tool.attempt, tool.way, "returned")
  BY <1>2
<1> HIDE DEF t
<1>4. /\ ToolTold(t, n) /\ Done(t) = Done(tool) /\ t.plan = tool.plan /\ t.dry = tool.dry
      /\ t.script = tool.script /\ t.result = "returned"
  BY ONLY <1>1, <1>3, Stays
<1>5. /\ ToolTold(tool', n) /\ Done(tool') = Done(tool) /\ tool'.plan = tool.plan
      /\ tool'.dry = tool.dry /\ tool'.script = tool.script /\ tool'.result = "returned"
  BY <1>4 DEF t
<1>6. GithubTyped' /\ ToolTold(tool, Len(issues))'
  BY <1>1, <1>5 DEF GithubTyped, IInv, n
<1>7. ToldSoFar'
  BY <1>1, <1>5 DEF ToldSoFar, IInv
<1>8. CopiesPaid'
  <2> SUFFICES ASSUME NEW title \in DOMAIN Titles
               PROVE  Cardinality(Copies(issues', title)) + (IF Owed(tool', title) THEN 1 ELSE 0)
                        <= seeds' + unheard'
    BY DEF CopiesPaid
  <2>1. /\ Cardinality(Copies(issues, title)) + (IF Owed(tool, title) THEN 1 ELSE 0)
             <= seeds + unheard
        /\ Cardinality(Copies(issues, title)) \in Nat /\ seeds \in Nat /\ unheard \in Nat
    BY CopiesFinite DEF CopiesPaid, GithubTyped, IInv
  <2>2. ~Owed(tool', title) /\ Copies(issues', title) = Copies(issues, title)
    BY <1>1, <1>5 DEF Owed
  <2> QED
    BY <1>1, <2>1, <2>2
<1> QED
  BY <1>6, <1>7, <1>8 DEF IInv

\* Others merge nothing, and take no merge back.
LEMMA OthersKeep ==
  ASSUME IInv, NEW p \in Pulls, OthersOpen(p) \/ OthersClose(p)
  PROVE  IInv'
<1>1. PICK from \in {"none", "open"}, to \in {"open", "closed"} : OthersChange(p, from, to)
  BY DEF OthersOpen, OthersClose
<1>2. /\ pulls[p] = from /\ pulls' = [pulls EXCEPT ![p] = to]
      /\ UNCHANGED <<milestone, labels, issues, tool, seeds, unheard>>
  BY <1>1 DEF OthersChange
<1>3. GithubTyped /\ ToolTold(tool, Len(issues)) /\ ToldSoFar /\ CopiesPaid
  BY DEF IInv
<1>4. GithubTyped' /\ ToolTold(tool, Len(issues))'
  BY <1>2, <1>3 DEF GithubTyped
<1>5. \A q \in Pulls : pulls[q] = "merged" => pulls'[q] = "merged"
  BY <1>2, <1>3 DEF GithubTyped
<1>6. ToldSoFar'
  <2> SUFFICES ASSUME ~tool.dry, NEW k \in 1 .. Done(tool)
               PROVE  Reached(tool.plan[k], pulls', milestone, labels, issues)
    BY <1>2 DEF ToldSoFar
  <2> DEFINE c == tool.plan[k]
  <2>1. c \in Fitting(Len(issues))
    <3>1. tool.plan \in Seq(Fitting(Len(issues))) /\ k \in 1 .. Len(tool.plan)
      BY <1>3 DEF ToolTold, Done
    <3> QED
      BY ONLY <3>1, ElementOfSeq
  <2>2. Reached(c, pulls, milestone, labels, issues)
    BY <1>3 DEF ToldSoFar
  <2> HIDE DEF c
  <2>3. Reached(c, pulls', milestone, labels, issues)
    BY <1>5, <2>1, <2>2 DEF Reached, Fitting, Command
  <2> QED
    BY <2>3 DEF c
<1>7. CopiesPaid'
  BY <1>2, <1>3 DEF CopiesPaid
<1> QED
  BY <1>4, <1>6, <1>7 DEF IInv

\* At the start no script has run and there is no issue.
LEMMA InitIInv ==
  ASSUME Init PROVE IInv
<1>1. GithubTyped
  BY ReleaseAssumption DEF Init, GithubTyped
<1> DEFINE none == "none"
           nil == <<>>
           one == 1
           way == "admin"
           t == Script(none, FALSE, nil, nil, one, way, none)
<1>2. tool = t /\ issues = <<>>
  BY DEF Init, Idle, Script
<1> HIDE DEF none, nil, one, way
<1>3. /\ t.script = none /\ t.dry = FALSE /\ t.plan = nil /\ t.left = nil /\ t.attempt = one
      /\ t.result = none
      /\ t = Script(t.script, t.dry, t.plan, t.left, t.attempt, t.way, t.result)
  BY DEF Script
<1> HIDE DEF t
<1>4. Len(t.plan) = 0 /\ Len(t.left) = 0 /\ Done(t) = 0
  BY <1>3 DEF nil, Done
<1>5. ToolTold(t, 0)
  <2>1. /\ t.attempt \in Nat /\ t.result \in {"none", "returned", "raised"}
        /\ t.plan \in Seq(Fitting(0)) /\ t.left \in Seq(Fitting(0))
        /\ t.result # "returned" /\ t.dry \in BOOLEAN
    <3>1. t.attempt \in Nat
      BY <1>3 DEF one
    <3>2. t.result = "none"
      BY <1>3 DEF none
    <3>3. t.plan = <<>> /\ t.left = <<>>
      BY <1>3 DEF nil
    <3>4. <<>> \in Seq(Fitting(0))
      OBVIOUS
    <3> QED
      BY ONLY <1>3, <3>1, <3>2, <3>3, <3>4
  <2> QED
    BY <1>3, <1>4, <2>1 DEF ToolTold
<1>6. ToolTold(tool, Len(issues))
  BY <1>2, <1>5
<1>7. ToldSoFar
  BY <1>2, <1>4 DEF ToldSoFar
<1>8. CopiesPaid
  <2> SUFFICES ASSUME NEW title \in DOMAIN Titles
               PROVE  Cardinality(Copies(issues, title)) + (IF Owed(tool, title) THEN 1 ELSE 0)
                        <= seeds + unheard
    BY DEF CopiesPaid
  <2>1. Copies(issues, title) = {}
    BY <1>2 DEF Copies
  <2>2. Cardinality(Copies(issues, title)) = 0
    BY <2>1, FS_EmptySet
  <2>3. ~Owed(tool, title)
    BY <1>2, <1>3 DEF Owed, none
  <2>4. seeds = 0 /\ unheard = 0
    BY DEF Init
  <2> QED
    BY <2>2, <2>3, <2>4
<1> QED
  BY <1>1, <1>6, <1>7, <1>8 DEF IInv

\* The invariant of the release scripts, for any pull requests, issues,
\* labels, attempts and bounds.
THEOREM Invariant == Spec => []IInv
<1>1. IInv /\ [Next]_vars => IInv'
  <2> SUFFICES ASSUME IInv, [Next]_vars PROVE IInv'
    OBVIOUS
  <2>1. CASE Start
    BY <2>1, MergesBegin, MilestonesBegin, LabelsBegin DEF Start
  <2>2. CASE RunCommand
    BY <2>2, RanTellsTrue, RanPays DEF IInv
  <2>3. CASE Return
    BY <2>3, ReturnKeeps
  <2>4. CASE \E p \in Pulls : OthersOpen(p) \/ OthersClose(p)
    BY <2>4, OthersKeep
  <2>5. CASE UNCHANGED vars
    BY <2>5 DEF vars, IInv, GithubTyped, ToldSoFar, CopiesPaid
  <2> QED
    BY <2>1, <2>2, <2>3, <2>4, <2>5 DEF Next
<1> QED
  BY <1>1, InitIInv, PTL DEF Spec

\* A script that returned without a word did what its report says.
THEOREM ReportsAreTrue == Spec => []ReportTrue
<1>1. IInv => ReportTrue
  <2> SUFFICES ASSUME IInv, tool.result = "returned", ~tool.dry, NEW k \in DOMAIN tool.plan
               PROVE  Achieved(tool.plan[k])
    BY DEF ReportTrue
  <2>1. /\ tool.plan \in Seq(Fitting(Len(issues))) /\ tool.left = <<>>
        /\ DOMAIN tool.plan = 1 .. Len(tool.plan)
    BY DEF IInv, ToolTold
  <2>2. k \in 1 .. Done(tool)
    BY <2>1 DEF Done
  <2>3. Reached(tool.plan[k], pulls, milestone, labels, issues)
    BY <2>2 DEF IInv, ToldSoFar
  <2> QED
    BY <2>3 DEF Reached, Achieved
<1> QED
  BY <1>1, Invariant, PTL

\* No title has more issues than runs of the seeding and lost answers.
THEOREM CopiesAreExplained == Spec => []CopiesExplained
<1>1. IInv => CopiesExplained
  <2> SUFFICES ASSUME IInv, NEW t \in DOMAIN Titles
               PROVE  Cardinality({i \in DOMAIN issues : issues[i].title = t}) <= seeds + unheard
    BY DEF CopiesExplained
  <2>1. /\ Cardinality(Copies(issues, t)) + (IF Owed(tool, t) THEN 1 ELSE 0) <= seeds + unheard
        /\ Cardinality(Copies(issues, t)) \in Nat /\ seeds \in Nat /\ unheard \in Nat
    BY CopiesFinite DEF CopiesPaid, GithubTyped, IInv
  <2>2. Cardinality(Copies(issues, t)) <= seeds + unheard
    BY <2>1
  <2> QED
    BY <2>2 DEF Copies
<1> QED
  BY <1>1, Invariant, PTL
=============================================================================
