------------------------------ MODULE MCServer ------------------------------
(***************************************************************************)
(* Small instances of the server for TLC: values for the constants, and    *)
(* the databases and schedulers the process may find when it starts.       *)
(***************************************************************************)
EXTENDS CttProperties, TLC

One == {1}
Two == {1, 2}
Three == {1, 2, 3}

(* Groups: each name on its own, or all names together; a name that is not *)
(* real is in no group.                                                    *)
Alone == [n \in Name |-> IF n \in Real THEN {n} ELSE {}]
Together == [n \in Name |-> IF n \in Real THEN Name ELSE {}]
ThirdApart == [n \in Name |-> IF n = 3 THEN {3} ELSE {1, 2}]

Row(s, off, n, t) == [status |-> s, toOffline |-> off, target |-> n, title |-> t]
NoRow == Row(Absent, NoOffline, 1, CommentTitle)
First(row, kinds) == [issue |-> [i \in IssueId |-> IF i = 1 THEN row ELSE NoRow],
                      comment |-> [i \in IssueId |-> IF i = 1 THEN kinds ELSE {}]]

NoIssues == {First(NoRow, {})}
OpenCard == {First(Row("Open", "Card", 1, "user"), {"opened"})}
OneIssue == OpenCard \cup {First(Row("Closed", NoOffline, 1, CommentTitle), {"opened", "closed"})}
OpenBlade == {First(Row("Open", "Blade", 1, "user"), {"opened"})}

\* Rows about a name configured away.  The closed one was left by a process
\* that ended before it wrote the comment.
RemovedIssue == {First(Row("Open", "Node", 2, "user"), {"opened"}),
                 First(Row("Closed", NoOffline, 2, MissingTitle), {"opened"})}

NoTargets == {[n \in Name |-> Absent]}
AllOnline == {[n \in Name |-> "Online"]}

Up == [present |-> TRUE, offline |-> FALSE, down |-> FALSE, jobs |-> FALSE]
AllUp == {[n \in Name |-> Up]}

(* What the nodes of a run do on their own.                                *)
Nothing == [n \in Name |-> {}]
Fails == [n \in Name |-> {"fails", "recovers"}]
OnSecond(events) == [n \in Name |-> IF n = 2 THEN events ELSE {}]
Apart == [n \in Name |-> IF n = 1 THEN {"vanishes", "appears"} ELSE {"fails", "handOffline", "handOnline"}]
SecondVanishes == OnSecond({"vanishes"})
SecondWorks == OnSecond({"vanishes", "jobStarts", "jobsEnd"})

Requests == Permutations(Req)
=============================================================================
