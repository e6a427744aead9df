SPECIFICATION Spec
CONSTANTS
  mtop = mtop mmid = mmid mlow = mlow mlib = mlib
  iu = iu umid = umid ix = ix iy = iy iz = iz ga = ga gb = gb ilib = ilib np = np nw = nw nt = nt
  Source = {1, 2, 3} Module = {mtop, mmid, mlow, mlib}
  Name = {iu, umid, ix, iy, iz, ga, gb, ilib, np, nw, nt}
  Top = mtop Nothing = Nothing Contents <- MCContents Filelists <- MCFilelists
  Inferred <- MCInferred Checks <- MCChecks MaxEdits = 2
INVARIANTS RejectExplained PassExplained PassIsUnique RowsAreOneHierarchy
