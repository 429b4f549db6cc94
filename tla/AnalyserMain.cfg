\* One file or two, or none.
CONSTANT
  File = {f1, f2}
SPECIFICATION Spec
\* The program may exit.
CHECK_DEADLOCK FALSE
PROPERTY
  GivenFilesAreOpened
