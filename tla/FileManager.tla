----------------------------- MODULE FileManager -----------------------------
(***************************************************************************)
(* The file manager of lab-9: two panels, the main loop that handles one   *)
(* key after the other, and the directories that other programs make,      *)
(* remove and lock meanwhile.  A panel keeps the entries it has read and   *)
(* a path that only ever grows: going up appends "..", and nothing is      *)
(* normalised.  Every component of a path counts as one against MAX_PATH.  *)
(* A symbolic link leads to a directory by an absolute path without a link *)
(* in it; a link to a file is a file here, as it is to stat.               *)
(***************************************************************************)
EXTENDS Integers, Sequences, FiniteSets

CONSTANTS Nodes,        \* names of directories, links and files, the root left out
          Dirs,         \* the directories among them
          Links,        \* the symbolic links to directories among them
          Target,       \* the path each of them leads to
          Root,
          None,
          Tree,         \* where everything is in the beginning
          Rank,         \* strcasecmp
          StartPath,    \* argv[1], or the working directory
          MAX_FILES, MAX_PATH, MAX_CMD,
          Heights,      \* the sizes the window may get
          Roamed,       \* bound: the panels in which the user changes directory
          MaxChanges    \* bound on what happens outside the file manager

Names == Nodes \cup {".."}
Tops == Dirs \cup {Root}

ASSUME FileManagerAssumption ==
  /\ IsFiniteSet(Nodes) /\ Dirs \subseteq Nodes
  /\ Links \subseteq Nodes \ Dirs /\ Target \in [Links -> Seq(Dirs)]
  /\ Root \notin Nodes /\ None \notin Nodes \cup {Root, ".."} /\ ".." \notin Nodes
  /\ Tree \in [Nodes -> Tops] /\ Rank \in [Nodes -> Nat]
  /\ MAX_FILES \in Nat \ {0} /\ MAX_PATH \in Nat \ {0} /\ MAX_CMD \in Nat
  /\ StartPath \in Seq(Dirs) /\ Len(StartPath) <= MAX_PATH
  /\ Heights \subseteq Int /\ Heights # {} /\ Roamed \subseteq {0, 1} /\ MaxChanges \in Nat

VARIABLES parent,   \* the directory each name is in, None when it is removed
          mode,     \* may the directory be listed, and searched?
          panels, active, rows, cmdlen, status,
          changes,
          came      \* history: the folder entered by the last key, in the active panel

fsVars == <<parent, mode, changes>>
filesVars == <<parent, mode, changes, panels, active, rows, cmdlen, status, came>>

TOP_LINES == 1
BOTTOM_LINES == 3
PANEL_NON_LIST_ROWS == 5
-------------------------------------------------------------------------------
(* The directories *)

\* One component of a path: the directory before it has to be searchable.
Hop(d, name) ==
  IF d = None \/ (d # None /\ mode[d] # "open") THEN None
  ELSE IF name = ".." THEN (IF d = Root THEN Root ELSE parent[d])
  ELSE IF name \in Dirs /\ parent[name] = d THEN name ELSE None

\* Where a link leads, None when it dangles.
Followed(l) ==
  LET at[i \in 0..Len(Target[l])] == IF i = 0 THEN Root ELSE Hop(at[i - 1], Target[l][i])
  IN  at[Len(Target[l])]

\* The same for a component that may be a link.
Walk(d, name) ==
  IF name \notin Links THEN Hop(d, name)
  ELSE IF d # None /\ mode[d] = "open" /\ parent[name] = d THEN Followed(name) ELSE None

\* The directory a path leads to, as the kernel follows it.
Resolve(path) ==
  LET at[i \in 0..Len(path)] == IF i = 0 THEN Root ELSE Walk(at[i - 1], path[i])
  IN  at[Len(path)]
-------------------------------------------------------------------------------
(* my_mc_fs.c *)

join_path_safe(path, name) == IF Len(path) < MAX_PATH THEN {Append(path, name)} ELSE {}

\* stat says of a link what it leads to.
is_dir(name) == name \in Dirs \cup Links \cup {".."}

\* ".." first, directories before files, then by name.
cmp_entries(x, y) ==
  IF x = ".." \/ y = ".." THEN x = ".."
  ELSE IF is_dir(x) # is_dir(y) THEN is_dir(x)
  ELSE Rank[x] <= Rank[y]

Sorted(S) ==
  {f \in [1..Cardinality(S) -> S] :
     \A i, j \in 1..Cardinality(S) : i < j => f[i] # f[j] /\ cmp_entries(f[i], f[j])}

\* What readdir finds, stat can see and the buffer can name: no link that dangles.
Entries(path) ==
  LET d == Resolve(path)
  IN  {n \in Nodes : /\ parent[n] = d /\ mode[d] = "open" /\ join_path_safe(path, n) # {}
                     /\ n \in Links => Followed(n) # None}

UpEntry(path) == IF path # <<>> /\ join_path_safe(path, "..") # {} THEN {".."} ELSE {}

CanOpen(path) == Resolve(path) # None /\ mode[Resolve(path)] # "closed"

\* The lists load_dir may end with.  Past MAX_FILES readdir's order decides who stays.
Lists(path) ==
  IF ~CanOpen(path) THEN {<<>>}
  ELSE UNION {Sorted(S) : S \in {T \in SUBSET (UpEntry(path) \cup Entries(path)) :
         /\ UpEntry(path) \subseteq T
         /\ \/ T = UpEntry(path) \cup Entries(path) /\ Cardinality(T) <= MAX_FILES
            \/ T # UpEntry(path) \cup Entries(path) /\ Cardinality(T) = MAX_FILES}}

\* stat of ".." fails in a directory that cannot be searched, and its time is then
\* whatever was on the stack: one localtime cannot convert, or one it can.
WildTimes(path) ==
  IF UpEntry(path) # {} /\ CanOpen(path) /\ mode[Resolve(path)] # "open" THEN BOOLEAN ELSE {FALSE}

\* Defect: the cursor stays where it was.
load_dir_keeps(path, p) ==
  {[path |-> path, files |-> f, cursor |-> p.cursor, top |-> p.top, wild |-> w] :
     f \in Lists(path), w \in WildTimes(path)}
load_dir(path, p) ==
  {[path |-> path, files |-> f, cursor |-> 0, top |-> 0, wild |-> w] :
     f \in Lists(path), w \in WildTimes(path)}

file_rows ==
  LET n == rows - TOP_LINES - BOTTOM_LINES - PANEL_NON_LIST_ROWS IN IF n < 1 THEN 1 ELSE n

\* Defect: one row too many.
scroll_into_view_short(p) ==
  [p EXCEPT !.top = IF p.cursor < p.top THEN p.cursor
                    ELSE IF p.cursor > p.top + file_rows THEN p.cursor - file_rows + 1
                    ELSE p.top]
scroll_into_view(p) ==
  [p EXCEPT !.top = IF p.cursor < p.top THEN p.cursor
                    ELSE IF p.cursor >= p.top + file_rows THEN p.cursor - file_rows + 1
                    ELSE p.top]

\* Names are distinct in a directory: the first entry of that name is the only one.
focus_entry_by_name(p, name) ==
  LET found == {i \in 1..Len(p.files) : p.files[i] = name}
  IN  IF found = {} THEN p
      ELSE scroll_into_view([p EXCEPT !.cursor = (CHOOSE i \in found : TRUE) - 1])
-------------------------------------------------------------------------------
(* my_mc_input.c *)

extract_last_component(path) == IF path = <<>> THEN None ELSE path[Len(path)]

\* Defect: the name is taken from the new path.
go_parent_keep_selection_late(p) ==
  LET up == IF join_path_safe(p.path, "..") = {} THEN <<>> ELSE Append(p.path, "..")
  IN  {focus_entry_by_name(q, extract_last_component(up)) : q \in load_dir(up, p)}
\* Defect: a path that gets too long is given up for the first one.
go_parent_keep_selection_home(p) ==
  LET up == IF join_path_safe(p.path, "..") = {} THEN StartPath ELSE Append(p.path, "..")
  IN  {focus_entry_by_name(q, extract_last_component(p.path)) : q \in load_dir(up, p)}
\* A path that gets too long is given up for "/".
go_parent_keep_selection(p) ==
  LET up == IF join_path_safe(p.path, "..") = {} THEN <<>> ELSE Append(p.path, "..")
  IN  {focus_entry_by_name(q, extract_last_component(p.path)) : q \in load_dir(up, p)}

Current(p) == p.files[p.cursor + 1]

enter_directory_at_cursor(p) ==
  IF p.files = <<>> \/ (p.files # <<>> /\ ~is_dir(Current(p))) THEN {p}
  ELSE IF Current(p) = ".." THEN go_parent_keep_selection(p)
  ELSE load_dir(Append(p.path, Current(p)), p)

ap == panels[active]

\* The loop comes round to redraw: draw_panel converts the times of the rows it shows,
\* and localtime's NULL is not looked at.
Draw(ps) ==
  /\ panels' = ps
  /\ status' = IF \E i \in {0, 1} : ps[i].wild /\ ps[i].top = 0 THEN "crashed" ELSE "run"

Getch == status = "run"
Put(q) == Draw([panels EXCEPT ![active] = q])

KEY_UP ==
  /\ Getch /\ Put(scroll_into_view([ap EXCEPT !.cursor = IF @ > 0 THEN @ - 1 ELSE @]))
  /\ came' = None /\ UNCHANGED <<fsVars, active, rows, cmdlen>>

KEY_DOWN ==
  /\ Getch
  /\ Put(scroll_into_view([ap EXCEPT !.cursor = IF @ < Len(ap.files) - 1 THEN @ + 1 ELSE @]))
  /\ came' = None /\ UNCHANGED <<fsVars, active, rows, cmdlen>>

KEY_ENTER ==
  /\ Getch /\ active \in Roamed /\ \E q \in enter_directory_at_cursor(ap) : Put(q)
  /\ came' = IF ap.files # <<>> /\ Current(ap) \in Dirs \cup Links THEN Current(ap) ELSE None
  /\ UNCHANGED <<fsVars, active, rows, cmdlen>>

KEY_TAB ==
  /\ Getch /\ active' = 1 - active /\ Draw(panels)
  /\ came' = None /\ UNCHANGED <<fsVars, rows, cmdlen>>

\* Backspace takes back a letter of the command line while there is one.
GoUp ==
  /\ Getch /\ cmdlen = 0 /\ active \in Roamed /\ \E q \in go_parent_keep_selection(ap) : Put(q)
  /\ came' = None /\ UNCHANGED <<fsVars, active, rows, cmdlen>>

Erase ==
  /\ Getch /\ cmdlen > 0 /\ cmdlen' = cmdlen - 1 /\ Draw(panels)
  /\ UNCHANGED <<fsVars, active, rows, came>>

Letter ==
  /\ Getch /\ cmdlen < MAX_CMD /\ cmdlen' = cmdlen + 1 /\ Draw(panels)
  /\ UNCHANGED <<fsVars, active, rows, came>>

\* Only rows changes: the panels are not scrolled.
KEY_RESIZE ==
  /\ Getch /\ rows' \in Heights /\ Draw(panels)
  /\ UNCHANGED <<fsVars, active, cmdlen, came>>

Quit == Getch /\ status' = "quit" /\ UNCHANGED <<fsVars, panels, active, rows, cmdlen, came>>
-------------------------------------------------------------------------------
(* Other programs *)

Outside ==
  /\ changes < MaxChanges /\ changes' = changes + 1 /\ status = "run"
  /\ came' = None /\ UNCHANGED <<panels, active, rows, cmdlen, status>>

MakeEntry(n) ==
  /\ Outside /\ parent[n] = None /\ (Tree[n] # Root => parent[Tree[n]] # None)
  /\ parent' = [parent EXCEPT ![n] = Tree[n]]
  /\ mode' = IF n \in Dirs THEN [mode EXCEPT ![n] = "open"] ELSE mode

RemoveEntry(n) ==
  /\ Outside /\ parent[n] # None /\ \A m \in Nodes : parent[m] # n
  /\ parent' = [parent EXCEPT ![n] = None] /\ UNCHANGED mode

ChangeMode(d, m) ==
  /\ Outside /\ parent[d] # None /\ mode[d] # m
  /\ mode' = [mode EXCEPT ![d] = m] /\ UNCHANGED parent
-------------------------------------------------------------------------------
Blank == [path |-> StartPath, files |-> <<>>, cursor |-> 0, top |-> 0, wild |-> FALSE]

FilesInit ==
  /\ parent = Tree /\ mode = [d \in Tops |-> "open"] /\ changes = 0
  /\ rows \in Heights /\ active = 0 /\ cmdlen = 0 /\ came = None
  /\ panels \in [{0, 1} -> load_dir(StartPath, Blank)]
  /\ status = "run"

FilesNext ==
  \/ KEY_UP \/ KEY_DOWN \/ KEY_ENTER \/ KEY_TAB \/ GoUp \/ Erase \/ Letter \/ KEY_RESIZE \/ Quit
  \/ \E n \in Nodes : MakeEntry(n) \/ RemoveEntry(n)
  \/ \E d \in Dirs, m \in {"open", "list", "closed"} : ChangeMode(d, m)

FilesSpec == FilesInit /\ [][FilesNext]_filesVars
-------------------------------------------------------------------------------
(* Properties *)

\* enter_directory_at_cursor and draw_panel read files[cursor] unasked as soon as the
\* list is not empty: the cursor is then on an entry that has been read, whatever the
\* panel has shown before, and an empty list has it at 0.  The list is within
\* files[MAX_FILES] and the path within path[MAX_PATH].
CursorInList ==
  \A i \in {0, 1} :
    LET p == panels[i]
    IN  /\ 0 <= p.top /\ p.top <= p.cursor
        /\ p.cursor < Len(p.files) \/ (p.cursor = 0 /\ p.files = <<>>)
        /\ Len(p.files) <= MAX_FILES /\ Len(p.path) <= MAX_PATH

Visible(p) == p.top <= p.cursor /\ p.cursor < p.top + file_rows

\* A key that moves in a panel leaves its cursor on a row draw_panel shows, also when the
\* window has shrunk or grown since the panel was scrolled the last time, and after a
\* jump to the folder it came from (scroll_into_view).
CursorVisible == [][panels' # panels => Visible(panels'[active])]_filesVars

Above(d) == IF d = Root THEN Root ELSE parent[d]

\* Enter and then Backspace lead back to the directory the user came from with the
\* cursor on the folder that was entered (go_parent_keep_selection), unless the folder
\* cannot be searched or the lists and paths are at their limits.  Out of a symbolic link
\* to a directory Backspace does not lead back: ".." is then the directory above the one
\* the link leads to, and the cursor is on the link only if that is where the link is.
ReturnsToFolder ==
  [][(/\ GoUp /\ came # None
      /\ Resolve(ap.path) # None /\ mode[Resolve(ap.path)] = "open" /\ Len(ap.path) + 1 < MAX_PATH
      /\ Cardinality(Entries(Append(ap.path, ".."))) < MAX_FILES)
        => LET q == panels'[active]
               back == IF came \in Dirs THEN parent[came] ELSE Above(Followed(came))
           IN  Resolve(q.path) = back /\ (parent[came] = back => Current(q) = came)]_filesVars

\* A panel may be left without entries: its directory, or one its unnormalised path goes
\* through, was removed or locked.  Backspace gets out of it at the latest when the path
\* has reached MAX_PATH and go_parent_keep_selection gives it up for "/", which shows
\* something as long as there is something in it.
BackspaceRecovers ==
  \A i \in Roamed :
    ([](Entries(<<>>) # {}) /\ []<><<GoUp /\ active = i>>_filesVars)
      => []<>(panels[i].files # <<>>)

\* What the proofs need besides: the folder entered last ends the active panel's path.
CameInv ==
  came # None => came \in Dirs \cup Links /\ ap.path # <<>> /\ extract_last_component(ap.path) = came
=============================================================================
