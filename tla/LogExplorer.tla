----------------------------- MODULE LogExplorer -----------------------------
(***************************************************************************)
(* The reader of the audit log: Tail of src/logs.rs follows the file while *)
(* the proxy appends to it and an operator rotates it, and App of          *)
(* src/logs/tui.rs shows what was read.                                    *)
(*                                                                         *)
(* A record is a number; a line is written in two pieces, since the        *)
(* writer's buffer is flushed wherever it is full.  A piece is a unit of   *)
(* the offset.  The needle is its length: a longer one matches less.       *)
(***************************************************************************)
EXTENDS Naturals, Sequences, FiniteSets, FiniteSetsExt, SequencesExt

CONSTANTS Records,      \* bound: 1 .. n, in the order they are written
          Key, User, Error, Matches,    \* what a record says, by its number
          MaxNeedle,    \* bound: characters of the filter
          MaxFiles,     \* bound: inodes
          MaxRotations  \* bound: truncations, renames and crashes

ASSUME ExplorerAssumption ==
    /\ Records \subseteq Nat \ {0}
    /\ Key \in [Records -> Nat] /\ User \in [Records -> Nat] /\ Matches \in [Records -> Nat]
    /\ MaxNeedle \in Nat /\ MaxFiles \in Nat \ {0} /\ MaxRotations \in Nat

VARIABLES
    files,      \* inode -> pieces
    path,       \* the inode the path names, 0 for none
    writer,     \* the proxy's inode, the next record, whether it is half written
    rotations,  \* truncations, renames and crashes so far
    tail,       \* Tail: file, offset, partial, malformed
    polling,    \* a poll between its checks and its read; with restarted
    app,        \* App
    unnoticed   \* the file read was truncated, and the tail has not restarted

explorerVars == <<files, path, writer, rotations, tail, polling, app, unnoticed>>
worldVars == <<files, path, writer, rotations>>

Inodes == 1 .. MaxFiles
Nobody == <<>>
NoId == 0
Head1(r) == [record |-> r, part |-> "head"]
Rest(r) == [record |-> r, part |-> "rest"]

(* The n-th of a set of places, and the elements at them, in order.        *)
Nth(S, n) == CHOOSE i \in S : Cardinality({j \in S : j <= i}) = n
At(s, S) == [n \in 1 .. Cardinality(S) |-> s[Nth(S, n)]]

(* A line ends with its second piece.                                      *)
Ends(pieces) == {i \in DOMAIN pieces : pieces[i].part = "rest"}
Whole(pieces, i) ==
    /\ i > 1 /\ pieces[i - 1] = Head1(pieces[i].record)
    /\ i > 2 => pieces[i - 2].part = "rest"
WholeEnds(pieces) == {i \in Ends(pieces) : Whole(pieces, i)}
Readable(pieces) ==
    At([i \in DOMAIN pieces |-> pieces[i].record], WholeEnds(pieces))

-----------------------------------------------------------------------------
(* The proxy, and whoever rotates its file.                                *)

(* The buffer is flushed in the middle of a line, or at its end.           *)
Append1(pieces) == files' = [files EXCEPT ![writer.inode] = @ \o pieces]

WriteHalf ==
    /\ writer.next \in Records /\ ~writer.half
    /\ Append1(<<Head1(writer.next)>>)
    /\ writer' = [writer EXCEPT !.half = TRUE]
    /\ UNCHANGED <<path, rotations, tail, polling, app, unnoticed>>

WriteRest ==
    /\ writer.next \in Records
    /\ Append1(IF writer.half THEN <<Rest(writer.next)>>
               ELSE <<Head1(writer.next), Rest(writer.next)>>)
    /\ writer' = [writer EXCEPT !.half = FALSE, !.next = @ + 1]
    /\ UNCHANGED <<path, rotations, tail, polling, app, unnoticed>>

(* copytruncate; the writer appends, so it goes on at the start.           *)
Truncate ==
    /\ rotations < MaxRotations /\ path # 0 /\ files[path] # <<>>
    /\ files' = [files EXCEPT ![path] = <<>>]
    /\ unnoticed' = (unnoticed \/ (tail.file = path /\ tail.offset > 0))
    /\ rotations' = rotations + 1
    /\ UNCHANGED <<path, writer, tail, polling, app>>

(* A rename; "an already-open writer continues writing its inode".         *)
Rename ==
    /\ rotations < MaxRotations /\ path # 0
    /\ path' = 0
    /\ rotations' = rotations + 1
    /\ UNCHANGED <<files, writer, tail, polling, app, unnoticed>>

(* A restart opens the path again to append, and creates it when it is not *)
(* there; a record that was half written stays so.                         *)
ProxyRestart ==
    /\ rotations < MaxRotations
    /\ LET fresh == Max({path, writer.inode}) + 1 IN
       /\ path = 0 => fresh \in Inodes
       /\ path' = IF path = 0 THEN fresh ELSE path
    /\ writer' = [inode |-> path', half |-> FALSE,
                  next |-> IF writer.half THEN writer.next + 1 ELSE writer.next]
    /\ rotations' = rotations + 1
    /\ UNCHANGED <<files, tail, polling, app, unnoticed>>

-----------------------------------------------------------------------------
(* App: what is shown.                                                     *)

IsError(r) == r \in Error
Filter(a, r) == (a.errors_only => IsError(r)) /\ a.needle <= Matches[r]

OpenwebuiKeys(records) == {Key[r] : r \in {q \in ToSet(records) : User[q] # 0}}

(* A key, a key and a forwarded user, or the rest of such a key's traffic. *)
PrincipalBucket(records, r) ==
    <<Key[r], IF User[r] # 0 THEN User[r] + 1
              ELSE IF Key[r] \in OpenwebuiKeys(records) THEN 1 ELSE 0>>

Requests(records, p) == Cardinality({i \in DOMAIN records : PrincipalBucket(records, records[i]) = p})

(* summarize().by_principal: by requests, descending, then by name.        *)
Principals(records) == {PrincipalBucket(records, r) : r \in ToSet(records)}
Before(records, p, q) ==
    LET m == Requests(records, p)
        n == Requests(records, q)
    IN m > n \/ (m = n /\ (p[1] < q[1] \/ (p[1] = q[1] /\ p[2] < q[2])))
ByPrincipal(records) ==
    LET all == Principals(records) IN
    [n \in 1 .. Cardinality(all) |->
        CHOOSE p \in all : Cardinality({q \in all : Before(records, q, p)}) = n - 1]

Shown(a) == {i \in DOMAIN a.records :
                /\ Filter(a, a.records[i])
                /\ a.principal \in {Nobody, PrincipalBucket(a.records, a.records[i])}}
Visible(a) == Reverse(At(a.records, Shown(a)))

(* Indices start at 1 here; an empty list has its selection at 1.          *)
Position(s, r) == IF r \in ToSet(s) THEN Min({i \in DOMAIN s : s[i] = r}) ELSE 0
LastRow(s) == IF s = <<>> THEN 1 ELSE Len(s)

(* Mutant: the row stays, whatever record it now shows.                    *)
ResolveSelectionByRow(a) == [a EXCEPT !.selected = Min({@, LastRow(Visible(a))})]

ResolveSelection(a) ==
    [a EXCEPT !.selected = IF a.selected_id = NoId \/ Position(Visible(a), a.selected_id) = 0
                           THEN 1 ELSE Position(Visible(a), a.selected_id)]

Select(a, index) ==
    LET visible == Visible(a)
        at == Min({index, LastRow(visible)})
    IN [a EXCEPT !.selected = at,
                 !.selected_id = IF visible = <<>> THEN NoId ELSE visible[at]]

-----------------------------------------------------------------------------
(* Tail::poll, in two steps: other processes run between its checks and    *)
(* its read.                                                               *)

Idle == ~polling.on /\ ~app.quit
Replaced == tail.file # 0 /\ path \notin {0, tail.file}

(* The path names another file, or the file is shorter than what was read: *)
(* start over.  A path that is not there is nothing new.                   *)
PollCheck ==
    /\ Idle
    /\ tail.file # 0 \/ path # 0
    /\ LET reopened == tail.file = 0 \/ Replaced
           file == IF reopened THEN path ELSE tail.file
           offset == IF reopened THEN 0 ELSE tail.offset
           shrank == Len(files[file]) < offset
           restarted == Replaced \/ shrank
       IN /\ tail' = [tail EXCEPT !.file = file,
                                  !.offset = IF shrank THEN 0 ELSE offset,
                                  !.partial = IF reopened \/ shrank THEN <<>> ELSE @]
          /\ polling' = [on |-> TRUE, restarted |-> restarted]
          /\ unnoticed' = (unnoticed /\ ~restarted)
    /\ UNCHANGED <<worldVars, app>>

(* Mutant: a partial line is dropped instead of held back.                 *)
HeldBackNone(pieces) == <<>>

(* The pieces after the last line end.                                     *)
HeldBack(pieces) == SubSeq(pieces, Max(Ends(pieces) \cup {0}) + 1, Len(pieces))

(* Mutant: the row of the Users view is left where it was.                 *)
RefreshUnclamped(a, restarted, records) ==
    IF ~restarted /\ records = <<>> THEN a
    ELSE ResolveSelection([a EXCEPT !.records = (IF restarted THEN <<>> ELSE @) \o records])

(* App::refresh with what poll returned.                                   *)
Refresh(a, restarted, records) ==
    LET all == [a EXCEPT !.records = (IF restarted THEN <<>> ELSE @) \o records]
        last == LastRow(ByPrincipal(all.records))
    IN IF ~restarted /\ records = <<>> THEN a
       ELSE ResolveSelection([all EXCEPT !.user_selected = Min({@, last})])

PollRead ==
    /\ polling.on
    /\ LET appended == SubSeq(files[tail.file], tail.offset + 1, Len(files[tail.file]))
           pieces == tail.partial \o appended
           records == Readable(pieces)
       IN /\ tail' = [tail EXCEPT !.offset = @ + Len(appended), !.partial = HeldBack(pieces),
                                  !.malformed = @ + Cardinality(Ends(pieces)) - Len(records)]
          /\ app' = Refresh(app, polling.restarted, records)
    /\ polling' = [on |-> FALSE, restarted |-> FALSE]
    /\ UNCHANGED <<worldVars, unnoticed>>

-----------------------------------------------------------------------------
(* App::handle, once the first poll has been made.                         *)

Handle(next) ==
    /\ Idle /\ tail.file # 0
    /\ app' = next
    /\ UNCHANGED <<worldVars, tail, polling, unnoticed>>

(* A character, a backspace, Enter and Esc; each selects the first row.    *)
EditFilter ==
    /\ app.editing_filter
    /\ \/ app.needle < MaxNeedle /\ Handle(Select([app EXCEPT !.needle = @ + 1], 1))
       \/ Handle(Select([app EXCEPT !.needle = IF @ = 0 THEN 0 ELSE @ - 1], 1))
       \/ Handle(Select([app EXCEPT !.editing_filter = FALSE], 1))
       \/ Handle(Select([app EXCEPT !.editing_filter = FALSE, !.needle = 0], 1))

(* Up, Down, Home and End; a page is more than the list holds.             *)
Moves(at, last) == {Max({at - 1, 1}), Min({at + 1, last}), 1, last}

MoveUser ==
    /\ ~app.editing_filter /\ app.view = "Users"
    /\ \E at \in Moves(app.user_selected, LastRow(ByPrincipal(app.records))) :
        Handle([app EXCEPT !.user_selected = at])

(* Enter narrows the requests to the principal of the row.                 *)
EnterUser ==
    /\ ~app.editing_filter /\ app.view = "Users"
    /\ app.user_selected \in DOMAIN ByPrincipal(app.records)
    /\ Handle(Select([app EXCEPT !.principal = ByPrincipal(app.records)[app.user_selected],
                                 !.view = "Requests"], 1))

MoveRequest ==
    /\ ~app.editing_filter /\ app.view # "Users"
    /\ \E at \in Moves(app.selected, LastRow(Visible(app))) : Handle(Select(app, at))

Views == {"Users", "Summary", "Backends", "Requests"}

(* Tab and the digits.                                                     *)
SwitchView ==
    /\ ~app.editing_filter
    /\ \E view \in Views : Handle([app EXCEPT !.view = view])

StartFilter ==
    /\ ~app.editing_filter
    /\ Handle([app EXCEPT !.editing_filter = TRUE, !.view = "Requests"])

ToggleErrors ==
    /\ ~app.editing_filter
    /\ Handle(Select([app EXCEPT !.errors_only = ~@, !.view = "Requests"], 1))

(* Esc shows everyone again, or quits, as q does.                          *)
Escape ==
    /\ ~app.editing_filter
    /\ IF app.view = "Requests" /\ app.principal # Nobody
       THEN Handle(Select([app EXCEPT !.principal = Nobody], 1))
       ELSE Handle([app EXCEPT !.quit = TRUE])

-----------------------------------------------------------------------------
ExplorerInit ==
    /\ files = [i \in Inodes |-> <<>>]
    /\ path = 1
    /\ writer = [inode |-> 1, next |-> 1, half |-> FALSE]
    /\ rotations = 0
    /\ tail = [file |-> 0, offset |-> 0, partial |-> <<>>, malformed |-> 0]
    /\ polling = [on |-> FALSE, restarted |-> FALSE]
    /\ app = [records |-> <<>>, view |-> "Users", selected |-> 1, selected_id |-> NoId,
              needle |-> 0, editing_filter |-> FALSE, errors_only |-> FALSE,
              user_selected |-> 1, principal |-> Nobody, quit |-> FALSE]
    /\ unnoticed = FALSE

ExplorerNext ==
    \/ WriteHalf \/ WriteRest \/ Truncate \/ Rename \/ ProxyRestart
    \/ PollCheck \/ PollRead
    \/ EditFilter \/ MoveUser \/ EnterUser \/ MoveRequest \/ SwitchView
    \/ StartFilter \/ ToggleErrors \/ Escape

ExplorerSpec == ExplorerInit /\ [][ExplorerNext]_explorerVars

-----------------------------------------------------------------------------
(* Types; what is selected is a row of its list, or the first.             *)
ExplorerTypeOK ==
    /\ tail.file \in Inodes \cup {0} /\ tail.offset \in Nat /\ tail.malformed \in Nat
    /\ app.view \in Views /\ app.needle \in 0 .. MaxNeedle
    /\ app.selected \in 1 .. LastRow(Visible(app))
    /\ app.user_selected \in 1 .. LastRow(ByPrincipal(app.records))

(* "A record that is half-written when we look is picked up whole on the   *)
(* next poll", and a corrupt log is "visible rather than silently short":  *)
(* between polls the explorer holds the readable lines of what it has read *)
(* of the file, each once and in order, and has counted the others,        *)
(* whatever the proxy flushes, crashes in, or an operator rotates; except  *)
(* after a truncation that the file outgrew before the next poll.          *)
ExplorerShowsTheFile ==
    ~polling.on /\ ~unnoticed /\ tail.file # 0 =>
        LET read == SubSeq(files[tail.file], 1, tail.offset) IN
        /\ app.records = Readable(read)
        /\ Len(app.records) + tail.malformed >= Cardinality(Ends(read))

(* "Keep the same record highlighted across refreshes, since new records   *)
(* arrive at the top of a newest-first list": while the chosen request is  *)
(* among the visible ones it is the one that is highlighted.               *)
HighlightFollows ==
    LET visible == Visible(app) IN
    app.selected_id \in ToSet(visible) => visible[app.selected] = app.selected_id
=============================================================================
