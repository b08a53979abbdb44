------------------------------- MODULE MCExec ------------------------------
(* The instance of Vfs and Exec that TLC checks: a small disk with links.  *)
EXTENDS Exec

CONSTANTS D, E, Q, F, G, L, M

P(abs, names) == [abs |-> abs, names |-> names]
Rel(names) == P(FALSE, names)

MCNames == {"a", "b"}
MCLinkPath == (L :> Rel(<<"..", "b">>)) @@ (M :> P(TRUE, <<"a">>))

Directory(x, y) == ("a" :> x) @@ ("b" :> y)
MCTrees ==
  { (Top :> Directory(D, M)) @@ (D :> Directory(E, L)) @@ (E :> Directory(F, None)) @@ (Q :> Directory(None, None)),
    (Top :> Directory(D, E)) @@ (D :> Directory(None, F)) @@ (E :> Directory(M, None)) @@ (Q :> Directory(None, None)) }
MCRoots == {<<>>, <<"a">>}
MCOptions == {[FakeRoot |-> TRUE, Warnings |-> TRUE, ForceLoad |-> TRUE]}

MCOps == {"stat", "lstat", "access", "chown", "utimes", "readlink", "mkdir", "rmdir",
          "mknod", "symlink", "unlink", "open", "create", "rename", "link",
          "chdir", "opendir", "chroot"}
MCHandlerOps == {"open", "unlink", "chdir"}
MCPaths == {Slash, Rel(<<".">>), Rel(<<"..">>), Rel(<<"a">>), Rel(<<"b">>),
            Rel(<<"..", "b">>), Rel(<<"b", "a">>), P(TRUE, <<"b", "..", "a">>)}
MCExecPaths == {Rel(<<"a">>), Rel(<<"..", "b">>), P(TRUE, <<"b", "a">>)}
MCPairPaths == {Rel(<<"a">>), Rel(<<"..", "b">>), P(TRUE, <<"b", "..", "a">>)}
=============================================================================
