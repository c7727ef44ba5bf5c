--------------------------- MODULE MCAdminChanges ---------------------------
\* Three people, two requests and two reviews at a time.  The staff is that
\* of a fresh deployment, where only the script can promote somebody, or has
\* one or two explicit SUPER_ADMINs beside other roles.
EXTENDS AdminChanges, TLC

Teams ==
  { {{}}, {{"SUPER_ADMIN"}, {}},
    {{"SUPER_ADMIN"}, {"SUPER_ADMIN", "RISK"}, {"DEALER"}},
    {{"SUPER_ADMIN"}, {"RISK", "DEALER"}, {}} }

MCStaffs == {f \in [User -> SUBSET Role] : {f[u] : u \in User} \in Teams}

Symmetry == Permutations(User) \cup Permutations(Request)
              \cup Permutations(Worker)
=============================================================================
