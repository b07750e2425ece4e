-------------------------------- MODULE MCBoot --------------------------------
(* A small instance of Boot: three files; one domain with an action, under two  *)
(* spellings, and one without.                                                *)
EXTENDS Boot, TLC

On(max) == [enabled |-> TRUE, max |-> max]
Off(max) == [enabled |-> FALSE, max |-> max]

File(agent, capacity, domains, secret) ==
    [agent |-> agent, capacity |-> capacity, rate |-> 1, domains |-> domains, secret |-> secret]

SmallContents ==
    { File("a", 1, "fs_write" :> On(1), "none"),
      File("a", 2, ("fs_write" :> On(2)) @@ ("fs.write" :> Off(0)), "real"),
      File("b", 2, "fs.write" :> On(1), "placeholder"),
      File("c", 1, "fs_write" :> On(1), "none"),
      File("d", 1, "fs_write" :> On(1), "short"),
      File("c", 1, "fs_write" :> On(2), "none"),
      File("c", 1, ("net" :> Off(0)), "none") }

SmallSections ==
    { File("none", 1, "fs_write" :> On(1), "none"), File("none", 1, "fs_write" :> Off(0), "none"),
      File("none", 1, ("fs_write" :> On(1)) @@ ("net" :> On(1)), "none"),
      File("none", 2, ("fs_write" :> On(1)) @@ ("fs.write" :> On(2)), "none") }

SmallDomainOf == ("fs_write" :> "fs.write") @@ ("fs.write" :> "fs.write") @@ ("net" :> "net")

SmallMapping == "file_write" :> "fs.write"

SmallEnv == ("a" :> "empty") @@ ("b" :> "real") @@ ("c" :> "none") @@ ("d" :> "none")
===============================================================================
