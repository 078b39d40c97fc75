--------------------------------- MODULE Config ---------------------------------
(***************************************************************************)
(* src/src/common/config.cpp: which of the candidate files is read, whether    *)
(* it will do, and the roles it offers.  Of the models' sections only whether  *)
(* llm.model_dir is there; paths and numbers are left out.                     *)
(***************************************************************************)
EXTENDS FiniteSetsExt

CONSTANTS
  Ids,        \* ids of roles, "" for an empty one
  Prompts,    \* system prompts, "" for an empty one
  MaxRoles    \* bound: roles in a file

VARIABLE files   \* at the three places where the configuration is looked for

\* A file says this, or has the default where it says nothing.
Texts == [status : {"json"}, model : BOOLEAN, prompt : Prompts, active : Ids \union {"echo"},
          roles : UNION {[1..n -> [id : Ids, prompt : Prompts]] : n \in 0..MaxRoles}]

\* There is no file, it is no JSON, or a value has another type than is asked for.
Bad(status) == [status |-> status, model |-> FALSE, prompt |-> "", active |-> "echo",
                roles |-> <<>>]
Absent == Bad("absent")

Files == Texts \union {Bad(status) : status \in {"absent", "garbled", "misshapen"}}

Usable(role) == role.id # "" /\ role.prompt # ""

\* The roles that will do keep the places they have in the file.
OwnRoles(file) ==
  LET own == {k \in DOMAIN file.roles : Usable(file.roles[k])}
  IN  [k \in own |-> file.roles[k]]

\* Mutant: the default role is added, but another one stays active.
BugEnsureDefaultRoles(config) ==
  IF DOMAIN config.roles # {} THEN config
  ELSE [config EXCEPT !.roles = <<[id |-> "echo", prompt |-> config.prompt]>>]

EnsureDefaultRoles(config) ==
  IF DOMAIN config.roles # {} THEN config
  ELSE [config EXCEPT !.roles = <<[id |-> "echo", prompt |-> config.prompt]>>,
                      !.active = "echo"]

\* Where the roles with this id are; the first is the one that is found.
FindRole(config, id) == {k \in DOMAIN config.roles : config.roles[k].id = id}

ActiveSystemPrompt(config) ==
  LET found == FindRole(config, config.active)
  IN  IF found # {} THEN config.roles[Min(found)].prompt
      ELSE IF DOMAIN config.roles # {} THEN config.roles[Min(DOMAIN config.roles)].prompt
      ELSE config.prompt

\* "loaded", "failed", or "throws": parsing does not, but taking a value does.
LoadFile(file) ==
  CASE file.status \in {"absent", "garbled"} -> [file EXCEPT !.status = "failed"]
    [] file.status = "misshapen" -> [file EXCEPT !.status = "throws"]
    [] file.status = "json" ->
         [EnsureDefaultRoles([file EXCEPT !.roles = OwnRoles(file)])
           EXCEPT !.status = IF file.model THEN "loaded" ELSE "failed"]

\* The first candidate there is decides, even if it will not do.
Candidate ==
  LET there == {n \in DOMAIN files : files[n].status # "absent"}
  IN  IF there = {} THEN Absent ELSE files[Min(there)]

LoadDefault == LoadFile(Candidate)

-----------------------------------------------------------------------------
(* Correctness. *)

\* What the page is told and what the model starts as are one role that the
\* page offers.  A file without usable roles, as the old kind is, gives the
\* server the prompt the terminal programs use.  Only when the file names an
\* active role that is not among its own does the model start as another, the
\* first of them.
\* (config.cpp:49-57, 68-72, 155-167, config.h:70, chat_service.cpp:79,
\* ws_session.cpp:39-49, main.cpp:65, 153)
StartRoleOffered ==
  LET file == Candidate
      config == LoadDefault
      prompt == ActiveSystemPrompt(config)
      offered == {config.roles[k] : k \in DOMAIN config.roles}
      own == DOMAIN OwnRoles(file)
  IN  config.status = "loaded" =>
        \/ /\ [id |-> config.active, prompt |-> prompt] \in offered
           /\ own = {} => prompt = file.prompt
           /\ own # {} => config.active = file.active
        \/ /\ \A k \in own : file.roles[k].id # file.active
           /\ offered = {file.roles[k] : k \in own}
           /\ \E k \in own : /\ prompt = file.roles[k].prompt
                            /\ \A n \in own : k <= n
=============================================================================
