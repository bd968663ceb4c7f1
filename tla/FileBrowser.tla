------------------------------ MODULE FileBrowser ------------------------------
(***************************************************************************)
(* "09-virtual file system/fileEx": two panels with cursors of their own   *)
(* over one list of the files of the current directory.  A name is its     *)
(* place in the order of strcmp; what is on the disk, and the order in     *)
(* which readdir gives it, is anything.                                    *)
(***************************************************************************)
EXTENDS Integers, FiniteSetsExt, SequencesExt

CONSTANTS MAX_FILES,
          FileNames,    \* names as numbers, in the order of strcmp
          PARENT,       \* the name ".."
          Heights       \* values of LINES; the frame takes two of them

ConstantsOK ==
  /\ MAX_FILES \in Nat \ {0} /\ FileNames \subseteq Nat /\ IsFiniteSet(FileNames)
  /\ PARENT \in Nat \ FileNames /\ Heights \subseteq Nat \ (0 .. 2)

Panels  == {1, 2}
Files   == [name : FileNames \cup {PARENT}, is_directory : BOOLEAN]

VARIABLES
  files,         \* the sorted list; its length is n_files
  highlight,     \* highlight1 and highlight2
  top,           \* top1 and top2
  current_list,  \* the panel with the keyboard
  LINES,         \* lines of the terminal
  shrunk,        \* history: the terminal became lower since the last scan
  app            \* the loop goes on, or how the program ended
browserVars == <<files, highlight, top, current_list, LINES, shrunk, app>>

n_files == Len(files)
-------------------------------------------------------------------------------
\* Directories before files, each by name.
compareFileInfo(a, b) ==
  IF a.is_directory = b.is_directory THEN a.name < b.name ELSE a.is_directory

\* What qsort makes of the files: no file stands behind one that belongs after it.
Sorted(S) == {f \in TupleOf(S, Cardinality(S)) : \A j, k \in DOMAIN f : j < k => compareFileInfo(f[j], f[k])}

\* scanDirectory: ".." and what readdir gives, in any order, until the list is full.
Listings ==
  LET Read    == {S \in SUBSET FileNames : Cardinality(S) < MAX_FILES}
      Of(kinds) == {[name |-> n, is_directory |-> kinds[n]] : n \in DOMAIN kinds}
      Parent  == [name |-> PARENT, is_directory |-> TRUE]
  IN  UNION {Sorted({Parent} \cup Of(kinds)) : kinds \in UNION {[S -> BOOLEAN] : S \in Read}}

Init ==
  /\ files \in Listings
  /\ highlight = [l \in Panels |-> 0] /\ top = [l \in Panels |-> 0]
  /\ current_list = 1 /\ LINES \in Heights /\ shrunk = FALSE /\ app = "open"

\* KEY_UP and KEY_DOWN in panel l.
KeyUp(l) ==
  /\ highlight[l] > 0
  /\ highlight' = [highlight EXCEPT ![l] = @ - 1]
  /\ top' = [top EXCEPT ![l] = IF highlight[l] - 1 < @ THEN @ - 1 ELSE @]
  /\ UNCHANGED <<files, current_list, LINES, shrunk, app>>

KeyDown(l) ==
  /\ highlight[l] < n_files - 1
  /\ highlight' = [highlight EXCEPT ![l] = @ + 1]
  /\ top' = [top EXCEPT ![l] = IF highlight[l] + 1 >= @ + LINES - 2 THEN @ + 1 ELSE @]
  /\ UNCHANGED <<files, current_list, LINES, shrunk, app>>

Tab ==
  /\ current_list' = IF current_list = 1 THEN 2 ELSE 1
  /\ UNCHANGED <<files, highlight, top, LINES, shrunk, app>>

ResetOwn(v) == [v EXCEPT ![current_list] = 0]    \* mutant: only the panel in use
ResetBoth(v) == [l \in Panels |-> 0]
Reset(v) == ResetBoth(v)

\* ENTER on a directory: chdir, which may fail unnoticed, the new list, and both
\* cursors to its head.  The names of the old list are not freed.
Enter(l) ==
  /\ files[highlight[l] + 1].is_directory
  /\ files' \in Listings
  /\ highlight' = Reset(highlight) /\ top' = Reset(top)
  /\ shrunk' = FALSE
  /\ UNCHANGED <<current_list, LINES, app>>

\* The directory cannot be opened: it has gone, or may not be read.
EnterFails(l) ==
  /\ files[highlight[l] + 1].is_directory
  /\ app' = "failed"
  /\ UNCHANGED <<files, highlight, top, current_list, LINES, shrunk>>

Escape == app' = "closed" /\ UNCHANGED <<files, highlight, top, current_list, LINES, shrunk>>

\* ncurses follows the size of the terminal; to the loop KEY_RESIZE is just a key.
Resize ==
  /\ LINES' \in Heights \ {LINES}
  /\ shrunk' = (shrunk \/ LINES' < LINES)
  /\ UNCHANGED <<files, highlight, top, current_list, app>>

Next ==
  /\ app = "open"
  /\ \/ KeyUp(current_list) \/ KeyDown(current_list) \/ Tab
     \/ Enter(current_list) \/ EnterFails(current_list) \/ Escape \/ Resize

Spec == Init /\ [][Next]_browserVars
-------------------------------------------------------------------------------
\* The type invariant; the list is sorted and ".." is always in it.
TypeOK ==
  /\ files \in Seq(Files) /\ n_files \in 1 .. MAX_FILES
  /\ \A j, k \in DOMAIN files : j < k => compareFileInfo(files[j], files[k])
  /\ \E k \in DOMAIN files : files[k].name = PARENT
  /\ current_list \in Panels /\ LINES \in Heights /\ shrunk \in BOOLEAN
  /\ app \in {"open", "closed", "failed"}
  /\ highlight \in [Panels -> Nat] /\ top \in [Panels -> Nat]

\* In both panels the cursor is on a file of the list and among the lines that are
\* drawn, also in the panel that did not have the keyboard when the list was read
\* anew; only a terminal that became lower can hide it (main.c 88-94, 140-194).
CursorInView ==
  \A l \in Panels :
    /\ highlight[l] < n_files /\ top[l] <= highlight[l]
    /\ ~shrunk => highlight[l] < top[l] + LINES - 2
===============================================================================
