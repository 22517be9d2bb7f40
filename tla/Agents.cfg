SPECIFICATION Spec
   
PROPERTIES AllReturn
CHECK_DEADLOCK FALSE
