----------------------------- MODULE MCPipeline -----------------------------
(***************************************************************************)
(* Projects for Pipeline: a library, a file of static functions and two    *)
(* executables, with macros given in each of the ways there are.           *)
(***************************************************************************)
EXTENDS Pipeline

CONSTANTS lib, util, srv, cli,   \* sources
          A, B, t, u             \* macros and targets

Sources == {lib, util, srv, cli}

Exports == [f \in Sources |->
              CASE f = lib -> {"send_message"} [] f = util -> {} [] OTHER -> {"main"}]

Flag(opt, arg) == [opt |-> opt, arg |-> arg]
Command(f, target, args) ==
  [file |-> f, output |-> None,
   arguments |-> args \o <<Flag("-o", ""), Flag("", target)>>]

Glued    == <<Flag("-D", A)>>
Separate == <<Flag("-D", ""), Flag("", B)>>
Undone   == <<Flag("-D", A), Flag("-U", A)>>

Texts(gone, newer) ==
  [f \in Sources |-> IF f \in gone THEN Gone ELSE IF f \in newer THEN 2 ELSE 1]

Build(commands, text, programs) ==
  [commands |-> commands, text |-> text, programs |-> programs]

(* Two executables that share a library.                                   *)
Original  == Build(<<Command(lib, t, Glued), Command(srv, u, Separate), Command(cli, u, Undone)>>,
                   Texts({}, {}), {{1, 2}, {1, 3}})
(* The same with its commands in another order, the library edited, and    *)
(* one executable's source gone but not its command.                       *)
Reordered == Build(<<Command(cli, u, Undone), Command(lib, t, Separate), Command(srv, u, <<>>)>>,
                   Texts({cli}, {lib}), {{1, 2}, {2, 3}})
(* No executable; a file of static functions that two targets compile.     *)
Library   == Build(<<Command(util, t, Glued), [Command(lib, t, <<>>) EXCEPT !.output = t],
                     Command(util, u, Separate)>>, Texts({}, {util}), {})
(* tc26_multi_target_partial: two targets compile a file with external     *)
(* functions; the server's own copy makes the one in the library needless. *)
MultiTarget == Build(<<Command(lib, t, <<>>), Command(srv, u, Glued), Command(lib, u, Glued)>>,
                     Texts({}, {}), {{2, 3}})

AllProjects == {Original, Reordered, Library, MultiTarget}
=============================================================================
