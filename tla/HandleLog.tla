------------------------------- MODULE HandleLog -------------------------------
(***************************************************************************)
(* What plugins/get_http_info.py and plugins/get_modified_files_info.py    *)
(* make of the calls that apimon and filetracer have logged.  A call names *)
(* its object by a handle; handles are numbers that Windows uses again     *)
(* when they are closed, which no line tells.  Lines are lost, and opens   *)
(* that the plugins do not look at (a file opened with an access that is   *)
(* not in their list, a pipe) are as good as lost.                         *)
(***************************************************************************)
EXTENDS Integers, Sequences, FiniteSets

CONSTANTS
  Programs,    (* the processes, by seqid *)
  Handles,
  MaxObjects,
  MaxUses

(* An HTTP session (InternetOpen, WinHttpOpen), a connection made in it, a  *)
(* request on the connection; and a file.                                   *)
Kinds == {"session", "connection", "request", "file"}

Parent(kind) == CASE kind = "connection" -> "session"
                  [] kind = "request" -> "connection"
                  [] OTHER -> "none"

VARIABLES
  objects,   (* ghost: the objects that were opened                          *)
  open,      (* ghost: the object that a process has behind a handle, or 0   *)
  handles,   (* handles, opened_files: the object last seen with a handle    *)
  parent,    (* of each object seen: the one its handle was looked up for    *)
  requests,  (* request_handles                                              *)
  uses       (* extra_headers, modified_files, deleted_files: the object the *)
             (* line was put down to, with a ghost: the one it was about     *)

handleVars == <<objects, open, handles, parent, requests, uses>>

(* Mutant of Key: handles are those of the machine.                         *)
KeyOfMachine(p, h, kind) == <<CHOOSE q \in Programs : TRUE, h, kind>>

(* Handles are told apart by process and by what was opened.                *)
Key(p, h, kind) == <<p, h, kind>>

InitHandles ==
  /\ objects = <<>>
  /\ open = [k \in Programs \X Handles |-> 0]
  /\ handles = [k \in Programs \X Handles \X Kinds |-> 0]
  /\ parent = <<>>
  /\ requests = {}
  /\ uses = {}

(* The object a line is put down to; 0: none was seen with the handle.      *)
Seen(p, h, kind) == handles[Key(p, h, kind)]

(* request_handles: a request replaces one that was seen with its handle.   *)
WithRequest(p, h, n) == (requests \ {Seen(p, h, "request")}) \cup {n}

(* InternetOpen, InternetConnect, HttpOpenRequest, their WinHttp variants,  *)
(* NtCreateFile, NtOpenFile; up is the handle of the parent.                *)
Open(p, h, kind, up) ==
  LET n == Len(objects) + 1
      above == IF Parent(kind) = "none" THEN 0 ELSE open[<<p, up>>]
  IN
  /\ n <= MaxObjects
  /\ open[<<p, h>>] = 0
  /\ Parent(kind) # "none" => above # 0 /\ objects[above].kind = Parent(kind)
  /\ Parent(kind) = "none" => up = h
  /\ open' = [open EXCEPT ![<<p, h>>] = n]
  /\ \E logged \in BOOLEAN :
       /\ objects' = Append(objects, [kind |-> kind, parent |-> above, logged |-> logged])
       /\ IF logged
          THEN /\ handles' = [handles EXCEPT ![Key(p, h, kind)] = n]
               /\ parent' = Append(parent,
                    IF Parent(kind) = "none" THEN 0 ELSE Seen(p, up, Parent(kind)))
               /\ requests' = IF kind = "request" THEN WithRequest(p, h, n) ELSE requests
          ELSE parent' = Append(parent, 0) /\ UNCHANGED <<handles, requests>>
  /\ UNCHANGED uses

Close(p, h) ==
  /\ open[<<p, h>>] # 0
  /\ open' = [open EXCEPT ![<<p, h>>] = 0]
  /\ UNCHANGED <<objects, handles, parent, requests, uses>>

(* HttpAddRequestHeaders, WinHttpAddRequestHeaders, NtWriteFile,            *)
(* NtSetInformationFile: passed over if the handle was not seen.            *)
Use(p, h) ==
  LET n == open[<<p, h>>] IN
  /\ n # 0 /\ objects[n].kind \in {"request", "file"}
  /\ Cardinality(uses) < MaxUses
  /\ LET seen == Seen(p, h, objects[n].kind) IN
     uses' = IF seen = 0 THEN uses ELSE uses \cup {[of |-> seen, about |-> n]}
  /\ UNCHANGED <<objects, open, handles, parent, requests>>

NextHandles ==
  \E p \in Programs, h \in Handles :
    \/ \E kind \in Kinds, up \in Handles : Open(p, h, kind, up)
    \/ Close(p, h)
    \/ Use(p, h)

----------------------------------------------------------------------------
(* Properties                                                               *)

HandlesTypeOK ==
  /\ open \in [Programs \X Handles -> 0..Len(objects)]
  /\ handles \in [Programs \X Handles \X Kinds -> 0..Len(objects)]
  /\ Len(parent) = Len(objects)
  /\ requests \subseteq DOMAIN objects
  /\ uses \subseteq [of : DOMAIN objects, about : DOMAIN objects]

(* However handles are used again: a header or a write is put down to the   *)
(* object it was for, if only the open of this object was seen, and a       *)
(* request is reported with its own connection and session, if theirs were. *)
HandlesAreResolved ==
  /\ \A u \in uses : objects[u.about].logged => u.of = u.about
  /\ \A r \in requests :
       LET c == objects[r].parent
           s == objects[c].parent
       IN objects[c].logged =>
            /\ parent[r] = c
            /\ objects[s].logged => parent[c] = s
============================================================================
