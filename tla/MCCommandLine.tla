---------------------------- MODULE MCCommandLine ----------------------------
EXTENDS CommandLine, TLC

MCDisks == {("old" :> Text(1)) @@ ("new" :> Text(2)) @@ ("tree" :> Tree(1))
              @@ ("patch" :> Nothing)}
=============================================================================
