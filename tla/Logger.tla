------------------------------- MODULE Logger -------------------------------
(***************************************************************************)
(* The logger of the default build, without spdlog: one mutex, one open    *)
(* file, and rotation, which renames the files in log_files one index up   *)
(* and starts the log file again.                                          *)
(*                                                                         *)
(* Lines carry the number of their place among the lines of this run; 0 is *)
(* a line of an earlier run.  disk[i] is what the file with the suffix .i  *)
(* holds, disk[0] the log file itself, and {} is a file that is empty or   *)
(* not there.  The renames, and the opening of a file, can fail; that a    *)
(* removal fails is not modelled.                                          *)
(***************************************************************************)
EXTENDS Naturals, Sequences, FiniteSets

CONSTANTS MaxFiles,      (* max_files                                      *)
          MaxSize,       (* max_file_size, in units of a short line        *)
          MaxFailures,   (* bound: failing calls of the file system        *)
          LineSizes      (* the sizes of lines                             *)

ASSUME FilesAssumption == MaxFiles \in Nat \ {0} /\ MaxSize \in Nat \ {0}
ASSUME LinesAssumption == LineSizes \subseteq Nat \ {0}

VARIABLES
    initialized,
    fileOpen,            \* file_stream.is_open()
    disk,
    log_files,           \* the suffixes of the files in log_files
    current_file_size,
    lines,               \* lines written to a file so far
    failures             \* calls of the file system that have failed

fileVars == <<initialized, fileOpen, disk, log_files, current_file_size, lines, failures>>

Suffixes == 0..(MaxFiles - 1)

LoggerInit ==
    /\ initialized = FALSE
    /\ fileOpen = FALSE
    /\ disk \in [Suffixes -> {{}, {0}}]
    /\ log_files = <<>>
    /\ current_file_size = 0
    /\ lines = 0
    /\ failures = 0

(* init, up to its own log line: the file is opened for appending, and its *)
(* size is that of what an earlier run left, which may call for a rotation *)
(* at once.                                                                *)
OpenFile ==
    /\ \/ fileOpen' = TRUE /\ UNCHANGED failures
       \/ fileOpen' = FALSE /\ failures < MaxFailures /\ failures' = failures + 1
    /\ current_file_size' \in IF disk[0] = {} THEN {0} ELSE {1, MaxSize}
    /\ initialized' = TRUE
    /\ UNCHANGED <<disk, log_files, lines>>

-----------------------------------------------------------------------------
(* rotate_file_if_needed *)

(* Mutant of Moved: the file is copied. *)
Copied(d, from, to) == [d EXCEPT ![to] = d[from]]

(* rename replaces a file that is there; a failed one leaves both alone.   *)
Moved(d, from, to) == [[d EXCEPT ![from] = {}] EXCEPT ![to] = d[from]]

Least(a, b) == IF a < b THEN a ELSE b

(* Mutant of Renames: the loop goes over all of log_files. *)
RenamesAll(failing) ==
    LET after[i \in 0..Len(log_files)] ==
          IF i = 0 THEN [disk |-> disk, files |-> <<0>>]
          ELSE IF i \in failing \/ after[i - 1].disk[log_files[i]] = {} THEN after[i - 1]
          ELSE [disk |-> Moved(after[i - 1].disk, log_files[i], i),
                files |-> Append(after[i - 1].files, i)]
    IN after[Len(log_files)]

(* The first i renames of a rotation, those in failing excepted.  The      *)
(* second starts from the name the first has just given.                   *)
Renames(failing) ==
    LET after[i \in 0..Least(Len(log_files), MaxFiles - 1)] ==
          IF i = 0 THEN [disk |-> disk, files |-> <<0>>]
          ELSE IF i \in failing \/ after[i - 1].disk[log_files[i]] = {} THEN after[i - 1]
          ELSE [disk |-> Moved(after[i - 1].disk, log_files[i], i),
                files |-> Append(after[i - 1].files, i)]
    IN after[Least(Len(log_files), MaxFiles - 1)]

(* The files from max_files on are removed, by the names they had before   *)
(* the renames.                                                            *)
Outdated == {log_files[i] : i \in MaxFiles..Len(log_files)}

Removed(d) == [s \in Suffixes |-> IF s \in Outdated THEN {} ELSE d[s]]

(* Opening with trunc leaves an empty file. *)
Fresh(d) == [d EXCEPT ![0] = {}]

NeedsRotation == current_file_size >= MaxSize

WriteLine(size) ==
    /\ fileOpen
    /\ \/ /\ ~NeedsRotation
          /\ disk' = [disk EXCEPT ![0] = @ \cup {lines + 1}]
          /\ lines' = lines + 1
          /\ current_file_size' = current_file_size + size
          /\ UNCHANGED <<fileOpen, log_files, failures>>
       \/ /\ NeedsRotation
          /\ \E failing \in SUBSET (1..Least(Len(log_files), MaxFiles - 1)) :
                /\ failures + Cardinality(failing) <= MaxFailures
                /\ log_files' = Renames(failing).files
                /\ current_file_size' = size
                /\ LET rotated == Removed(Renames(failing).disk) IN
                   \/ /\ disk' = [Fresh(rotated) EXCEPT ![0] = @ \cup {lines + 1}]
                      /\ lines' = lines + 1
                      /\ failures' = failures + Cardinality(failing)
                      /\ UNCHANGED fileOpen
                   \/ /\ failures + Cardinality(failing) < MaxFailures
                      /\ failures' = failures + Cardinality(failing) + 1
                      /\ disk' = rotated
                      /\ fileOpen' = FALSE
                      /\ UNCHANGED lines
    /\ UNCHANGED initialized

(* A line that goes to no file: its level is below the file's, or no file  *)
(* is open.                                                                *)
WriteNothing == UNCHANGED fileVars

-----------------------------------------------------------------------------

Kept == (UNION {disk[s] : s \in Suffixes}) \ {0}

(* While no call of the file system fails, what the files hold of this     *)
(* run's lines is its newest lines without a gap, and however many files   *)
(* max_files allows at most one rotated file has any of them.  The open    *)
(* file exceeds max_file_size by less than its last line                   *)
(* (rotate_file_if_needed, logger.cpp:243-272).                            *)
DiskIsRecent ==
    /\ failures = 0 =>
          /\ \E first \in 1..(lines + 1) : Kept = first..lines
          /\ Cardinality({s \in Suffixes \ {0} : disk[s] \ {0} # {}}) <= 1
    /\ \E longest \in LineSizes \cup {1} : current_file_size < MaxSize + longest

=============================================================================
