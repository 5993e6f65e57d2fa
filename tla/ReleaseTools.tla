---------------------------- MODULE ReleaseTools -----------------------------
(***************************************************************************)
(* The three release scripts: release_merges.py merges pull requests,      *)
(* release_milestones.py seeds a milestone with issues, and                *)
(* release_labels.py makes labels and tags the milestone's issues.  Each   *)
(* decides on a list of `gh` commands, runs them in order, trying a        *)
(* command three times, and stops at the first that fails for good.        *)
(*                                                                         *)
(* GitHub, as the scripts use it: a command it carries out may still be    *)
(* reported as a failure (the answer is lost, or the branch cannot be      *)
(* deleted), and a command may outlast its 60 seconds, which no handler of *)
(* the scripts catches.  Merging what is merged succeeds and does nothing; *)
(* what exists is not created again.  Others open and close pull requests  *)
(* meanwhile.                                                              *)
(***************************************************************************)
EXTENDS Integers, FiniteSets, SequencesExt

CONSTANTS Pulls,      \* pull request numbers
          Opened,     \* those open at the start
          Given,      \* --pr: the numbers given on the command line
          File,       \* --pr-data-file: records [number, state, matches]
          Sizes,      \* --batch-size; 0 is None
          Titles,     \* the issue titles: the rules each one matches
          NewLabels,  \* the labels release_labels.py makes
          MaxAttempts,
          PullLimit,  \* --limit of the listing of pull requests
          IssuePage,  \* what `gh issue list` returns at most
          MaxRuns,    \* bound: scripts started
          MaxChanges, \* bound: pull requests others open or close
          MaxFaults   \* bound: answers lost, commands that fail or hang

ASSUME ReleaseAssumption ==
  /\ Pulls \subseteq Nat /\ IsFiniteSet(Pulls) /\ Opened \subseteq Pulls
  /\ MaxAttempts \in Nat \ {0} /\ PullLimit \in Nat /\ IssuePage \in Nat
  /\ MaxRuns \in Nat /\ MaxChanges \in Nat /\ MaxFaults \in Nat
  /\ Sizes \subseteq Nat
  /\ Given \in Seq(Pulls)
  /\ File \in Seq([number : Pulls, state : STRING, matches : BOOLEAN])
  /\ Titles \in Seq(SUBSET (1..9)) /\ NewLabels \in Seq(STRING)

VARIABLES pulls,     \* the state of each pull request
          mayAdmin,  \* the caller may merge with --admin
          milestone, \* "none", "open"; "invalid" when GitHub refuses its text
          labels,    \* the labels of the repository
          issues,    \* the milestone's issues, by number - 1
          tool,      \* the script that runs, and what it has left to do
          seeds,     \* runs of release_milestones.py started
          unheard,   \* issues made whose command was reported a failure
          runs, changes, faults

vars == <<pulls, mayAdmin, milestone, labels, issues, tool, seeds, unheard,
          runs, changes, faults>>

github == <<pulls, milestone, labels, issues>>

\* TITLE_LABEL_RULES, a title being known by the rules whose pattern it holds.
TitleLabelRules ==
  << {"AI/ML", "Scalability"}, {"AI/ML", "UX"}, {"Observability", "UX"},
     {"Scalability"}, {"Security"}, {"Security", "AI/ML"}, {"AI/ML"}, {"UX"},
     {"Observability"} >>

\* The labels the scripts know.
Label == (UNION Range(TitleLabelRules)) \cup Range(NewLabels)

LabelsForTitle(title) == UNION {TitleLabelRules[r] : r \in title}

Command == [do : {"merge", "milestone", "issue", "label", "tag"}, on : Nat,
            names : SUBSET Label]

Do(what, on, names) == [do |-> what, on |-> on, names |-> names]

Idle == [script |-> "none", dry |-> FALSE, plan |-> <<>>, left |-> <<>>,
         attempt |-> 1, way |-> "admin", result |-> "none"]

Init ==
  /\ pulls = [p \in Pulls |-> IF p \in Opened THEN "open" ELSE "none"]
  /\ mayAdmin \in BOOLEAN
  /\ milestone \in {"none", "invalid"}
  /\ labels = {} /\ issues = <<>>
  /\ tool = Idle
  /\ seeds = 0 /\ unheard = 0
  /\ runs = 0 /\ changes = 0 /\ faults = 0

Running == tool.script # "none" /\ tool.result = "none"

-----------------------------------------------------------------------------
(* What each script sets out to do. *)

Begin(script, plan, dry) ==
  /\ ~Running /\ runs < MaxRuns
  /\ runs' = runs + 1
  /\ tool' = [Idle EXCEPT !.script = script, !.plan = plan, !.left = plan,
                          !.dry = dry]
  /\ UNCHANGED <<pulls, mayAdmin, milestone, labels, issues, unheard, changes,
                 faults>>

\* The numbers of a set, the lowest first and the highest first.
Rising(S) == {s \in SetToSeqs(S) : \A i, j \in DOMAIN s : i < j => s[i] < s[j]}
Falling(S) == {s \in SetToSeqs(S) : \A i, j \in DOMAIN s : i < j => s[i] > s[j]}

\* _match_pull_request_record with the CLI's default --state open: what the
\* file says, which may be out of date.  A record that gives no state is out.
MatchPullRequestRecord(record) == record.state = "open" /\ record.matches

FileNumbers ==
  {[k \in DOMAIN kept |-> File[kept[k]].number] :
     kept \in Rising({i \in DOMAIN File : MatchPullRequestRecord(File[i])})}

\* `gh pr list`: the newest first.
ListPullRequests ==
  {SubSeq(newest, 1, IF Len(newest) < PullLimit THEN Len(newest) ELSE PullLimit) :
     newest \in Falling({p \in Pulls : pulls[p] = "open"})}

\* An empty batch, or an empty list, is a ValueError.
SelectBatch(numbers, size, index) ==
  IF size = 0 THEN numbers
  ELSE LET start == (index - 1) * size
           last == start + size
       IN  SubSeq(numbers, start + 1, IF last < Len(numbers) THEN last ELSE Len(numbers))

MergePlan(numbers) == [i \in DOMAIN numbers |-> Do("merge", numbers[i], {})]

\* Numbers given are taken as they are; a file wins over the listing.
Candidates(from) ==
  CASE from = "given" -> {Given}
    [] from = "file" -> FileNumbers
    [] from = "listing" -> ListPullRequests

MergePullRequests ==
  \E from \in {"given", "file", "listing"}, size \in Sizes,
     index \in 1..Cardinality(Pulls), dry \in BOOLEAN :
    \E numbers \in Candidates(from) :
      LET selected == SelectBatch(numbers, size, index)
      IN  /\ selected # <<>>
          /\ Begin("merges", MergePlan(selected), dry)
          /\ UNCHANGED seeds

\* An issue definition without a title or a body is a ValueError before the
\* first command.
IssueDefinitions == [t \in DOMAIN Titles |-> Do("issue", t, {})]

SeedMilestone ==
  \E dry \in BOOLEAN :
    /\ Begin("milestones", <<Do("milestone", 0, {})>> \o IssueDefinitions, dry)
    /\ seeds' = IF dry THEN seeds ELSE seeds + 1

\* Newest first, and no more of them than gh's default page holds.
ListOpenMilestoneIssues == {i \in DOMAIN issues : i > Len(issues) - IssuePage}

\* Likewise a label without a name, a colour or a description.
LabelDefinitions == [l \in DOMAIN NewLabels |-> Do("label", 0, {NewLabels[l]})]

TagsOf(i) == LabelsForTitle(Titles[issues[i].title])

\* An issue whose title matches no rule is passed over.
SeedAndTagIssues ==
  \E dry \in BOOLEAN, tagged \in Falling({i \in ListOpenMilestoneIssues : TagsOf(i) # {}}) :
    /\ issues # <<>>
    /\ Begin("labels",
             LabelDefinitions
               \o [k \in DOMAIN tagged |-> Do("tag", tagged[k], TagsOf(tagged[k]))],
             dry)
    /\ UNCHANGED seeds

-----------------------------------------------------------------------------
(* GitHub carries a command out or refuses it. *)

Accepts(c) ==
  CASE c.do = "merge" -> \/ pulls[c.on] = "merged"
                         \/ pulls[c.on] = "open" /\ (mayAdmin \/ tool.way = "base")
    [] c.do = "milestone" -> milestone = "none"
    [] c.do = "issue" -> milestone = "open"
    [] c.do = "label" -> c.names \cap labels = {}
    [] c.do = "tag" -> c.names \subseteq labels

\* What the refusal says: that the thing exists, or that it is not valid
\* (GitHub answers "Validation Failed" to both).
Refusal(c) ==
  CASE c.do = "milestone" -> "validation failed"
    [] c.do = "label" -> "already exists"
    [] OTHER -> "other"

Carry(c) ==
  /\ pulls' = IF c.do = "merge" THEN [pulls EXCEPT ![c.on] = "merged"] ELSE pulls
  /\ milestone' = IF c.do = "milestone" THEN "open" ELSE milestone
  /\ labels' = IF c.do = "label" THEN labels \cup c.names ELSE labels
  /\ issues' = CASE c.do = "issue" -> Append(issues, [title |-> c.on, tags |-> {}])
                 [] c.do = "tag" ->
                      [issues EXCEPT ![c.on] = [title |-> @.title, tags |-> @.tags \cup c.names]]
                 [] OTHER -> issues

-----------------------------------------------------------------------------
(* The scripts run their commands. *)

\* Mutant: a command that succeeded after a retry is run once more.
Advance_Repeats(t) ==
  [t EXCEPT !.left = IF t.attempt > 1 THEN @ ELSE Tail(@), !.attempt = 1,
            !.way = "admin"]

Advance(t) == [t EXCEPT !.left = Tail(@), !.attempt = 1, !.way = "admin"]

Raise(t) == [t EXCEPT !.result = "raised"]

\* ensure_milestone takes either kind of refusal for "it is there".
Tolerated(c, message) ==
  \/ c.do = "milestone" /\ message = "validation failed"
  \/ c.do = "label" /\ message = "already exists"

Failed_Dropped(t, c, message) == \* mutant: a command that fails for good is passed over
  IF t.attempt < MaxAttempts THEN [t EXCEPT !.attempt = @ + 1] ELSE Advance(t)

\* _run after a non-zero exit, and what its callers make of its RuntimeError.
Failed(t, c, message) ==
  CASE t.attempt < MaxAttempts -> [t EXCEPT !.attempt = @ + 1]
    [] t.attempt >= MaxAttempts /\ Tolerated(c, message) -> Advance(t)
    [] t.attempt >= MaxAttempts /\ c.do = "merge" /\ t.way = "admin" ->
         [t EXCEPT !.way = "base", !.attempt = 1]
    [] OTHER -> Raise(t)

Fault == faults < MaxFaults /\ faults' = faults + 1

Current == Head(tool.left)

AtCommand == Running /\ tool.left # <<>>

DryRun ==
  /\ AtCommand /\ tool.dry
  /\ tool' = Advance(tool)
  /\ UNCHANGED <<github, unheard, faults>>

Succeeds ==
  /\ AtCommand /\ ~tool.dry /\ Accepts(Current)
  /\ Carry(Current)
  /\ tool' = Advance(tool)
  /\ UNCHANGED <<unheard, faults>>

Refused ==
  /\ AtCommand /\ ~tool.dry /\ ~Accepts(Current)
  /\ tool' = Failed(tool, Current, Refusal(Current))
  /\ UNCHANGED <<github, unheard, faults>>

\* The connection fails before GitHub has the command.
NotReached ==
  /\ AtCommand /\ ~tool.dry /\ Fault
  /\ tool' = Failed(tool, Current, "other")
  /\ UNCHANGED <<github, unheard>>

\* Carried out, and reported as a failure.
AnswerLost ==
  /\ AtCommand /\ ~tool.dry /\ Accepts(Current) /\ Fault
  /\ Carry(Current)
  /\ tool' = Failed(tool, Current, "other")
  /\ unheard' = IF Current.do = "issue" THEN unheard + 1 ELSE unheard

\* subprocess.TimeoutExpired is no RuntimeError: neither _run nor its callers
\* catch it, and the command may have been carried out.
TimesOut ==
  /\ AtCommand /\ ~tool.dry /\ Fault
  /\ \/ UNCHANGED <<github, unheard>> /\ tool' = Raise(tool)
     \/ /\ Accepts(Current) /\ Carry(Current)
        /\ tool' = Raise(tool)
        /\ unheard' = IF Current.do = "issue" THEN unheard + 1 ELSE unheard

Return ==
  /\ Running /\ tool.left = <<>>
  /\ tool' = [tool EXCEPT !.result = "returned"]
  /\ UNCHANGED <<github, mayAdmin, seeds, unheard, runs, changes, faults>>

\* Others, between two commands of a script or between two runs.
OthersChange(p, from, to) ==
  /\ changes < MaxChanges /\ pulls[p] = from
  /\ pulls' = [pulls EXCEPT ![p] = to]
  /\ changes' = changes + 1
  /\ UNCHANGED <<mayAdmin, milestone, labels, issues, tool, seeds, unheard,
                 runs, faults>>

OthersOpen(p) == OthersChange(p, "none", "open")

OthersClose(p) == OthersChange(p, "open", "closed")

RunCommand ==
  /\ DryRun \/ Succeeds \/ Refused \/ NotReached \/ AnswerLost \/ TimesOut
  /\ UNCHANGED <<mayAdmin, seeds, runs, changes>>

Start == MergePullRequests \/ SeedMilestone \/ SeedAndTagIssues

Next ==
  \/ Start \/ RunCommand \/ Return
  \/ \E p \in Pulls : OthersOpen(p) \/ OthersClose(p)

Spec == Init /\ [][Next]_vars

-----------------------------------------------------------------------------
\* What the commands of a plan were to bring about.
Achieved(c) ==
  CASE c.do = "merge" -> pulls[c.on] = "merged"
    [] c.do = "milestone" -> milestone # "none"
    [] c.do = "issue" -> \E i \in DOMAIN issues : issues[i].title = c.on
    [] c.do = "label" -> c.names \subseteq labels
    [] c.do = "tag" -> c.names \subseteq issues[c.on].tags

\* A script that returned did what its report says: every pull request it
\* lists is merged, every issue of the file exists, every tag is on its
\* issue, whatever answers were lost or refused on the way (and with an
\* invalid milestone, which ensure_milestone lets pass, only a seeding
\* without issues can return).
ReportTrue ==
  tool.result = "returned" /\ ~tool.dry
    => \A k \in DOMAIN tool.plan : Achieved(tool.plan[k])

\* An issue is made again only by another run of the script or because the
\* answer to its command was lost: a retry alone never doubles it.
CopiesExplained ==
  \A t \in DOMAIN Titles :
    Cardinality({i \in DOMAIN issues : issues[i].title = t}) <= seeds + unheard
=============================================================================
